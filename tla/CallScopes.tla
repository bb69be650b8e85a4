------------------------------ MODULE CallScopes ------------------------------
(***************************************************************************)
(* What a script may rely on about the words of a function: each names a   *)
(* slot of the function's innermost open call, and none when no call of it *)
(* is open.  Calls open and end innermost first.                           *)
(***************************************************************************)
EXTENDS Naturals, Sequences

CONSTANTS
  Functions,  \* every function a script can call
  Plain,      \* those whose words reach a call through the function
  Frames,     \* the frames of calls
  NoFrame     \* what a word reads through when no call is open

VARIABLES
  open,   \* the open calls, outermost first
  reads   \* the frame the words of each plain function read

scopeVars == <<open, reads>>

\* The frame of the last call of f in cs, or NoFrame.
InnermostCall(cs, f) ==
  LET of == {i \in DOMAIN cs : cs[i].fn = f}
  IN  IF of = {} THEN NoFrame
      ELSE cs[CHOOSE i \in of : \A j \in of : j <= i].locals

Init ==
  /\ open = <<>>
  /\ reads = [f \in Plain |-> NoFrame]

Open(f, c) ==
  /\ open' = Append(open, [fn |-> f, locals |-> c])
  /\ reads' = IF f \in Plain THEN [reads EXCEPT ![f] = c] ELSE reads

End ==
  /\ open # <<>>
  /\ open' = SubSeq(open, 1, Len(open) - 1)
  /\ LET f == open[Len(open)].fn
     IN  reads' = IF f \in Plain THEN [reads EXCEPT ![f] = InnermostCall(open', f)]
                  ELSE reads

Next == End \/ \E f \in Functions, c \in Frames : Open(f, c)

Spec == Init /\ [][Next]_scopeVars
=============================================================================
