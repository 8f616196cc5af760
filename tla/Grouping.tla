------------------------------ MODULE Grouping ------------------------------
(***************************************************************************)
(* What TeX's groups promise, without saying how: a stack of frames, one   *)
(* per open group over the document itself. A local assignment belongs to  *)
(* the innermost group and goes with it; a \global one is left behind by   *)
(* every group. \aftergroup tokens come back, in the order in which they   *)
(* were given, when the group that gave them ends.                         *)
(***************************************************************************)
EXTENDS Naturals, Sequences, SequencesExt

CONSTANTS
    Slots,      \* what can be assigned to
    Boxes,      \* the slots whose value can be taken out of them
    Wholes,     \* the sets of slots that can be assigned to at once
    Values,     \* what can be assigned
    Tokens,     \* arguments of \aftergroup
    Unbound     \* this frame says nothing of the slot

VARIABLES
    frames,     \* for each level, the slots assigned to there
    after,      \* for each level, the tokens for the end of the group
    given       \* the tokens that the last group to end has put back

vars == <<frames, after, given>>

GroupingInit ==
    /\ \E f \in [Slots -> Values] : frames = <<f>>
    /\ after = <<<<>>>>
    /\ given = <<>>

\* The innermost frame that says something of the slot
Owner(a) == CHOOSE k \in 1..Len(frames) :
               /\ frames[k][a] # Unbound
               /\ \A j \in (k + 1)..Len(frames) : frames[j][a] = Unbound

Lookup(a) == frames[Owner(a)][a]

AssignLocal(a, v) ==
    /\ frames' = [frames EXCEPT ![Len(frames)][a] = v]
    /\ UNCHANGED <<after, given>>

\* Every frame forgets what it said of the slots in S.
AssignGlobal(S, f) ==
    /\ frames' = [k \in DOMAIN frames |-> [a \in Slots |->
                     IF a \notin S THEN frames[k][a]
                     ELSE IF k = 1 THEN f[a] ELSE Unbound]]
    /\ UNCHANGED <<after, given>>

\* The value changes where it is, and with the scope that it had.
Replace(a, v) ==
    /\ frames' = [frames EXCEPT ![Owner(a)][a] = v]
    /\ UNCHANGED <<after, given>>

AfterGroup(t) ==
    /\ after' = [after EXCEPT ![Len(after)] = Append(@, t)]
    /\ UNCHANGED <<frames, given>>

BeginGroup ==
    /\ frames' = Append(frames, [a \in Slots |-> Unbound])
    /\ after' = Append(after, <<>>)
    /\ UNCHANGED given

EndGroup ==
    /\ Len(frames) > 1
    /\ frames' = Front(frames)
    /\ after' = Front(after)
    /\ given' = Last(after)

Next ==
    \/ \E a \in Slots, v \in Values : AssignLocal(a, v)
    \/ \E a \in Boxes, v \in Values : Replace(a, v)
    \/ \E S \in Wholes \cup {{a} : a \in Slots} :
          \E f \in [S -> Values] : AssignGlobal(S, f)
    \/ \E t \in Tokens : AfterGroup(t)
    \/ BeginGroup
    \/ EndGroup

Spec == GroupingInit /\ [][Next]_vars
=============================================================================
