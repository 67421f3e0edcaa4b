------------------------------- MODULE MCSci -------------------------------
EXTENDS Sci

\* The slots of the ring that hold no byte to be read are never looked at.
Live == [s \in Slot |-> IF (s + SIZE - fifo_sci_rx_start) % SIZE < Used
                        THEN fifo_sci_rx[s] ELSE NoByte]
LiveView == <<Live, fifo_sci_rx_start, fifo_sci_rx_end, wire, ren, rire, flags,
              enabled, phase, owed, event>>
=============================================================================
