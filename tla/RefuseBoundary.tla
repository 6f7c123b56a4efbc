--------------------------- MODULE RefuseBoundary ---------------------------
(* What dpapi4n6 promises (docs/decisions/0006): given a store and a key it   *)
(* reveals what the store holds, names the master key that is missing, or     *)
(* refuses; and it never guesses.  The evidence is known here for what it     *)
(* is, which the program can only find out.                                   *)

CONSTANTS Keys, Secrets

VARIABLES
  truth,    \* what the evidence is: its guid, the key that opens it (opener),
            \* its secrets, whether it is sound, whether it can be checked and
            \* whether its secrets are recovered each on its own (piecemeal)
  key,      \* the key last supplied
  answer    \* what the program answered to it

Silent == [says |-> "nothing"]
Revealed(S) == [says |-> "revealed", secrets |-> S]
Locked(g) == [says |-> "locked", guid |-> g]
Refused == [says |-> "refused"]

Init == answer = Silent

Ask(k) == key' = k /\ answer' = Silent /\ UNCHANGED truth

Answer(a) == answer = Silent /\ answer' = a /\ UNCHANGED <<truth, key>>

Opens == key = truth.opener

\* All of a sound store, and of any whose secrets stand or fall together: no
\* half report.  Of another, nothing but its own secrets, unless part of it
\* carries nothing to check it by.
Reveal(S) == /\ Opens
             /\ truth.sound \/ ~truth.piecemeal => S = truth.secrets
             /\ truth.checked => S \subseteq truth.secrets
             /\ Answer(Revealed(S))

\* The right key of a sound store is neither called missing nor refused.
Lock == ~(truth.sound /\ Opens) /\ Answer(Locked(truth.guid))
Refuse == ~(truth.sound /\ Opens) /\ Answer(Refused)

Next == \/ \E k \in Keys : Ask(k)
        \/ \E S \in SUBSET Secrets : Reveal(S)
        \/ Lock
        \/ Refuse

Spec == Init /\ [][Next]_<<truth, key, answer>>
=============================================================================
