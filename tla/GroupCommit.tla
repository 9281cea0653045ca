---------------------------- MODULE GroupCommit ----------------------------
(***************************************************************************)
(* What the finish of an execution promises about the state of a session:  *)
(* a step is committed in every participant of a group at once or in none, *)
(* participants only move together, and a session that cannot keep that    *)
(* promise is lost as a whole, until the process starts again.             *)
(***************************************************************************)
EXTENDS Naturals

CONSTANTS Participant, Owner,   \* everyone; the ones that hold session state
          Most                  \* the highest position

VARIABLES present,              \* the participants of this session
          at,                   \* the committed position of each participant
          lost                  \* nothing of the session may be used again

gvars == <<present, at, lost>>

Start == [p \in Participant |-> 0]

GInit == at = Start /\ lost = FALSE

\* The target alone, every owner, or every owner and the sampling.
Group == {{"target"}, Owner \cap present, present}

Commit == /\ ~lost
          /\ \E g \in Group :
                /\ \A p, q \in g \cap Owner : at[p] = at[q]
                /\ at' = [p \in Participant |-> at[p] + IF p \in g THEN 1 ELSE 0]
          /\ UNCHANGED <<present, lost>>

\* A reset, or a restore of the target or of every owner.
Replace == /\ ~lost
           /\ \E g \in {{"target"}, Owner \cap present}, n \in 0 .. Most :
                 at' = [p \in Participant |-> IF p \in g THEN n
                                              ELSE IF p \in Owner THEN 0
                                              ELSE at[p]]
           /\ UNCHANGED <<present, lost>>

Lose == lost' = TRUE /\ at' = Start /\ UNCHANGED present

Restart == lost' = FALSE /\ at' = Start /\ UNCHANGED present

GNext == Commit \/ Replace \/ Lose \/ Restart

GSpec == GInit /\ [][GNext]_gvars
=============================================================================
