---------------------------- MODULE MCOperation ----------------------------
(* Two operations: o1 of two files, o2 of one of them in another revision,  *)
(* which is shorter there.                                                  *)
EXTENDS Operation, TLC
CONSTANTS o1, o2, own, shared, r1, r2

MCArtifacts == (o1 :> <<own, shared>> @@ o2 :> <<shared>>)
MCRevision == (o1 :> r1 @@ o2 :> r2)
MCSize == (o1 :> (own :> 1 @@ shared :> 2)) @@ (o2 :> (own :> 1 @@ shared :> 1))

Whole(r, n) == [there |-> TRUE, data |-> [i \in 1..n |-> [of |-> r, at |-> i - 1]]]
(* o1's own file is installed, and of the shared one there is a partial     *)
(* file of the other revision; or both are installed, but the first one in  *)
(* the other revision.                                                      *)
Dest(x, y) == (own :> x @@ shared :> y)
MCFound ==
    {[part |-> Dest(NoFile, Whole(r2, 1)), dest |-> Dest(Whole(r1, 1), NoFile)],
     [part |-> Dest(NoFile, NoFile), dest |-> Dest(Whole(r2, 1), Whole(r1, 2))]}

(* Reloads, and more than two faults, only while o2 is not there; after     *)
(* that, a termination (with the end that follows it) or a refusal of the   *)
(* disk comes alone, and a second cancel when o1's run is over. Files longer *)
(* than any plan, only without faults.                                      *)
Focus ==
    LET others == faults["cancel"] + faults["exit"] + faults["crash"] + faults["reload"]
        overrun == \E f \in Destinations : Length(part[f]) > 2 \/ Length(dest[f]) > 2
    IN  /\ pc[o2] # "new" => /\ faults["reload"] = 0
                             /\ others + faults["exit"] + 2 * faults["disk"] <= 2
                             /\ faults["cancel"] = 2 => pc[o1] = "done"
        /\ others + 2 * faults["disk"] <= 3
        /\ overrun => others + faults["disk"] = 0
=============================================================================
