------------------------------ MODULE ActiveMeter ------------------------------
(***************************************************************************)
(* What active-context accounting promises: each context has a meter,      *)
(* which starts at zero when the context begins, runs while the session is *)
(* active and stands still while it is not.  Nothing sets the meter of a   *)
(* context back or forward.  A meter that was put aside (with the          *)
(* incumbent of a restart, in a tombstone, on disk) may come back; one put *)
(* aside while it ran keeps running, unless it was stopped as it was put   *)
(* aside.                                                                  *)
(***************************************************************************)
EXTENDS Naturals

VARIABLES
    meter,  \* the meter of the session, None when there is no session
    others, \* the meters put aside
    last    \* the number of the last context that began

mvars == <<meter, others, last>>

None     == [on |-> FALSE, used |-> 0, none |-> TRUE, ctx |-> 0]
Zero(c)  == [on |-> FALSE, used |-> 0, none |-> FALSE, ctx |-> c]
Off(m)   == [m EXCEPT !.on = FALSE]
Grown(m) == IF m.on THEN [m EXCEPT !.used = @ + 1] ELSE m

(* What may be found aside after a step: what was there, stopped or not,   *)
(* and the meters that were and are in office                              *)
Kept == others' \subseteq
            {m : m \in others} \cup {Off(m) : m \in others} \cup {meter, Off(meter), meter'}

Init == meter = None /\ others = {} /\ last = 0

Tick    == meter' = Grown(meter) /\ others' = {Grown(m) : m \in others} /\ last' = last
TurnOn  == ~ meter.none /\ meter' = [meter EXCEPT !.on = TRUE] /\ Kept /\ last' = last
TurnOff == meter' = Off(meter) /\ Kept /\ last' = last
Aside   == meter' = meter /\ Kept /\ last' = last
End     == meter' = None /\ Kept /\ last' = last
Resume  == (\E m \in others : meter' \in {m, Off(m)}) /\ Kept /\ last' = last

(* A context begins, with a meter of its own *)
Begin   == last' = last + 1 /\ meter' = Zero(last') /\ Kept

Next == Tick \/ TurnOn \/ TurnOff \/ Aside \/ End \/ Resume \/ Begin

Spec == Init /\ [][Next]_mvars
================================================================================
