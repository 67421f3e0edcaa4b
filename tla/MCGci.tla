------------------------------- MODULE MCGci -------------------------------
EXTENDS Gci

\* The slots of the ring that hold no code to be read are never looked at, nor
\* the message buffer when no message is being packed; access, answer,
\* shown and cut are only written, and event is read only when it is "quiet".  Nothing tells
\* one of the two keys from the other, except that they differ.
Live == [s \in Slot |-> IF (s + SIZE - fifo_scancode_start) % SIZE < Used
                        THEN fifo_scancode[s] = fifo_scancode[fifo_scancode_start]
                        ELSE FALSE]
GciView == <<Live, fifo_scancode_start, fifo_scancode_end, int_dispatch, int_issued,
             enabled, phase, exec_finish, history, event = "quiet",
             draw_queue, IF draw_pk THEN draw_sbuf ELSE <<>>, draw_pk, clk, stage,
             client, reset, killed>>
=============================================================================
