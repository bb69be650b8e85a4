------------------------------ MODULE PageAsks --------------------------------
(***************************************************************************)
(* What a script asks of the page it runs for: a colour, files, the        *)
(* clipboard (WebScreenServer.java, PageWindows.java, jebol-asks.js).  The *)
(* interpreter's thread puts a numbered ask on the stream of every browser *)
(* connected and waits; each page shows a prompt, or answers by itself;    *)
(* answers come back on connections of their own.                          *)
(***************************************************************************)
EXTENDS Naturals, Sequences

CONSTANTS
  Browsers,
  Kinds,        \* of ask: "copy" needs no gesture, "colour" a click, "files" a chooser
  MaxAsks,      \* bound: how many asks the script makes
  PagesLeave,   \* whether a page may be reloaded, or its stream break
  FilesFail,    \* whether a file chosen may turn out unreadable
  MaxFaulty     \* bound: how many asks it makes where one of these happens

ASSUME AsksAssumption ==
  /\ Kinds \subseteq {"copy", "colour", "files"}
  /\ MaxAsks \in Nat
  /\ PagesLeave \in BOOLEAN /\ FilesFail \in BOOLEAN /\ MaxFaulty \in Nat

Numbers == 1 .. MaxAsks

VARIABLES
  asksMade,
  kind,                \* of each ask made
  asking,              \* the ask the interpreter's thread is waiting in; 0 for none
  waitingForAnswers,   \* for each ask the future its answer completes, if there is one
  outcome,             \* what the last ask came to, until the next is made
  listening,           \* browsers whose page has its stream open
  broken,              \* whether browserConnections also holds a stream nobody reads
  stream,              \* to each browser: asks it has yet to take
  page,                \* in each browser: the prompt, the chooser, and what is awaited
  posts                \* from each browser: answers it has yet to post

\* History: the first answer to the last ask to reach the server; the browsers
\* the ask in flight was put to whose page has not lost its prompt to an
\* earlier ask; and whether a page has gone, a stream broken or a file failed.
VARIABLES first, holding, faulted

serverVars == <<asksMade, kind, asking, waitingForAnswers, outcome, first>>
linkVars == <<listening, broken, stream>>
vars == <<serverVars, linkVars, page, posts, holding, faulted>>

Words == {"given", "declined", "refused"}

\* An answer names the ask it answers.
Answers == [ask : Numbers, answer : Words]
NoAnswer(word) == [ask |-> 0, answer |-> word]
None == NoAnswer("refused")
Absent == NoAnswer("absent")
Pending == NoAnswer("pending")

\* A page just loaded.  "prompt" is the ask whose handlers the prompt has
\* while it is shown, "chooser" the ask it was opened for, "writing" the asks
\* whose first write to the clipboard is awaited, and "working" the answers
\* under way.
Loaded == [prompt |-> 0, chooser |-> 0, writing |-> {}, working |-> {}]

NoOutcome == [to |-> 0, got |-> None]

Init ==
  /\ asksMade = 0 /\ kind = [n \in Numbers |-> "none"] /\ asking = 0
  /\ waitingForAnswers = [n \in Numbers |-> Absent]
  /\ outcome = NoOutcome
  /\ first = None /\ holding = {} /\ faulted = FALSE
  /\ listening = {} /\ broken = FALSE
  /\ stream = [b \in Browsers |-> <<>>]
  /\ page = [b \in Browsers |-> Loaded]
  /\ posts = [b \in Browsers |-> <<>>]

-----------------------------------------------------------------------------
\* The interpreter's thread.

\* A write to a stream nobody reads fails, and drops it, or is lost.
Dispatch(n) ==
  /\ stream' = [b \in Browsers |->
       IF b \in listening THEN Append(stream[b], n) ELSE stream[b]]
  /\ broken' \in {FALSE, broken}
  /\ UNCHANGED listening

IsConnected == listening # {} \/ broken

AskNobody ==
  /\ asking = 0
  /\ ~IsConnected
  /\ outcome' = NoOutcome
  /\ UNCHANGED <<asksMade, kind, asking, waitingForAnswers, first>>
  /\ UNCHANGED <<linkVars, page, posts, holding, faulted>>

Ask(k) ==
  /\ asking = 0
  /\ asksMade < MaxAsks /\ (faulted => asksMade < MaxFaulty)
  /\ IsConnected
  /\ asksMade' = asksMade + 1
  /\ asking' = asksMade'
  /\ kind' = [kind EXCEPT ![asksMade'] = k]
  /\ waitingForAnswers' = [waitingForAnswers EXCEPT ![asksMade'] = Pending]
  /\ Dispatch(asksMade')
  /\ outcome' = NoOutcome /\ first' = None
  /\ holding' = listening
  /\ UNCHANGED <<page, posts, faulted>>

\* (mutant) The future stays on the map.
AnsweredLeavingItsFuture ==
  /\ asking # 0 /\ waitingForAnswers[asking] # Pending
  /\ outcome' = [to |-> asking, got |-> waitingForAnswers[asking]]
  /\ asking' = 0
  /\ UNCHANGED <<asksMade, kind, waitingForAnswers, first, linkVars, page, posts, holding, faulted>>

\* The join returns and the future is taken off the map.
Answered ==
  /\ asking # 0 /\ waitingForAnswers[asking] # Pending
  /\ outcome' = [to |-> asking, got |-> waitingForAnswers[asking]]
  /\ waitingForAnswers' = [waitingForAnswers EXCEPT ![asking] = Absent]
  /\ asking' = 0
  /\ UNCHANGED <<asksMade, kind, first, linkVars, page, posts, holding, faulted>>

-----------------------------------------------------------------------------
\* The server's threads.

\* (mutant) An answer goes to whoever is waiting.
CompleteWhoeverWaits(a) ==
  [n \in Numbers |-> IF waitingForAnswers[n] = Pending THEN a ELSE waitingForAnswers[n]]

\* (mutant) A later answer takes the place of an earlier one.
CompleteAgain(a) ==
  [n \in Numbers |->
    IF n = a.ask /\ waitingForAnswers[n] # Absent THEN a ELSE waitingForAnswers[n]]

\* An answer completes the future of the ask it names, if it is waited for
\* and is not complete.
Complete(a) ==
  [n \in Numbers |->
    IF n = a.ask /\ waitingForAnswers[n] = Pending THEN a ELSE waitingForAnswers[n]]

ReceiveEvent(b) ==
  /\ posts[b] # <<>>
  /\ LET a == Head(posts[b]) IN
       /\ waitingForAnswers' = Complete(a)
       /\ first' = IF a.ask = asking /\ first = None THEN a ELSE first
  /\ posts' = [posts EXCEPT ![b] = Tail(posts[b])]
  /\ UNCHANGED <<asksMade, kind, asking, outcome, linkVars, page, holding, faulted>>

\* A page's EventSource opens its stream, or opens it again.
OpenPaintStream(b) ==
  /\ b \notin listening
  /\ listening' = listening \cup {b}
  /\ UNCHANGED <<serverVars, broken, stream, page, posts, holding, faulted>>

-----------------------------------------------------------------------------
\* The page.

Post(b, n, word) ==
  posts' = [posts EXCEPT ![b] = Append(posts[b], [ask |-> n, answer |-> word])]

\* A page has one prompt: its handlers become this ask's, and whatever
\* chooser was opened from it stays open.
ShowPrompt(p, n) == [p EXCEPT !.prompt = n]

\* The box is hidden; nothing reaches the handlers until it is shown again,
\* which replaces them.
HidePrompt(p) == [p EXCEPT !.prompt = 0]

\* What was on the prompt is gone; that it was the ask in flight is noted.
LosePrompt(b) ==
  holding' = IF page[b].prompt # 0 /\ page[b].prompt = asking THEN holding \ {b}
             ELSE holding

\* Text to copy is written to the clipboard at once, if there is one, and
\* whatever that comes to comes later; other asks are put on the prompt.
Take(b) ==
  /\ stream[b] # <<>>
  /\ stream' = [stream EXCEPT ![b] = Tail(stream[b])]
  /\ LET n == Head(stream[b]) IN
       \/ kind[n] = "copy" /\ Post(b, n, "refused") /\ UNCHANGED page
       \/ /\ kind[n] = "copy"
          /\ page' = [page EXCEPT ![b].writing = @ \cup {n}]
          /\ UNCHANGED posts
       \/ /\ kind[n] # "copy"
          /\ page' = [page EXCEPT ![b] = ShowPrompt(page[b], n)]
          /\ UNCHANGED posts
  /\ UNCHANGED <<serverVars, listening, broken, holding, faulted>>

\* The write is done, or is rejected: then the prompt becomes its ask's,
\* whatever ask it is for by now.
SettleWrite(b) ==
  \E n \in page[b].writing :
    LET settled == [page[b] EXCEPT !.writing = @ \ {n}] IN
    /\ \/ /\ page' = [page EXCEPT ![b] = settled]
          /\ Post(b, n, "given")
          /\ UNCHANGED holding
       \/ /\ page' = [page EXCEPT ![b] = ShowPrompt(settled, n)]
          /\ LosePrompt(b)
          /\ UNCHANGED posts
    /\ UNCHANGED <<serverVars, linkVars, faulted>>

\* The operator can click while no chooser is in the way.
CanClick(b) == page[b].prompt # 0 /\ page[b].chooser = 0

\* The browser's control opens inside the click: a chooser, with the prompt
\* staying, or something whose answer comes in its own time.
Yes(b) ==
  /\ CanClick(b)
  /\ LET n == page[b].prompt IN
       page' = IF kind[n] = "files"
               THEN [page EXCEPT ![b].chooser = n]
               ELSE [page EXCEPT ![b] = HidePrompt([page[b] EXCEPT !.working = @ \cup {n}])]
  /\ UNCHANGED <<serverVars, linkVars, posts, holding, faulted>>

\* (mutant) Dismissing the prompt only hides it.
NoWithoutDeclining(b) ==
  /\ CanClick(b)
  /\ page' = [page EXCEPT ![b] = HidePrompt(page[b])]
  /\ UNCHANGED <<serverVars, linkVars, posts, holding, faulted>>

No(b) ==
  /\ CanClick(b)
  /\ page' = [page EXCEPT ![b] = HidePrompt(page[b])]
  /\ Post(b, page[b].prompt, "declined")
  /\ UNCHANGED <<serverVars, linkVars, holding, faulted>>

\* (mutant) A chooser that closed can close again.
HideOnly(b) == HidePrompt(page[b])

\* What the chooser comes back with goes to the handlers the prompt now has,
\* which do nothing unless they too are for files.
CloseChooser(b) == [HidePrompt(page[b]) EXCEPT !.chooser = 0]

TakesFiles(b) == kind[page[b].prompt] = "files"

Choose(b) ==
  /\ page[b].chooser # 0
  /\ page' = [page EXCEPT ![b] =
       [CloseChooser(b) EXCEPT !.working =
          IF TakesFiles(b) THEN @ \cup {page[b].prompt} ELSE @]]
  /\ IF TakesFiles(b) THEN UNCHANGED holding ELSE LosePrompt(b)
  /\ UNCHANGED <<serverVars, linkVars, posts, faulted>>

CancelChooser(b) ==
  /\ page[b].chooser # 0
  /\ page' = [page EXCEPT ![b] = CloseChooser(b)]
  /\ IF TakesFiles(b) THEN Post(b, page[b].prompt, "declined") /\ UNCHANGED holding
     ELSE LosePrompt(b) /\ UNCHANGED posts
  /\ UNCHANGED <<serverVars, linkVars, faulted>>

\* The file is read, the picker closes, the clipboard answers.
FinishWork(b) ==
  \E n \in page[b].working :
    /\ page' = [page EXCEPT ![b].working = @ \ {n}]
    /\ \/ Post(b, n, "given") /\ UNCHANGED faulted
       \/ /\ kind[n] # "files"
          /\ \E word \in {"declined", "refused"} : Post(b, n, word)
          /\ UNCHANGED faulted
       \/ /\ FilesFail /\ kind[n] = "files"
          /\ faulted' = TRUE /\ UNCHANGED posts  \* a rejection nobody catches
    /\ UNCHANGED <<serverVars, linkVars, holding>>

Pages(b) == Take(b) \/ SettleWrite(b) \/ FinishWork(b)

Operates(b) == Yes(b) \/ No(b) \/ Choose(b) \/ CancelChooser(b)

\* What a page, its operator and the server's threads do about an ask.
Answering(b) == ReceiveEvent(b) \/ Pages(b) \/ Operates(b)

-----------------------------------------------------------------------------
MayLeave == PagesLeave /\ asksMade <= MaxFaulty

\* A stream breaks: what was on it is lost, and the server learns of it no
\* earlier than it next writes.
StreamBreaks(b) ==
  /\ MayLeave /\ b \in listening
  /\ listening' = listening \ {b} /\ broken' = TRUE
  /\ stream' = [stream EXCEPT ![b] = <<>>]
  /\ faulted' = TRUE
  /\ UNCHANGED <<serverVars, page, posts, holding>>

Reload(b) ==
  /\ MayLeave
  /\ page' = [page EXCEPT ![b] = Loaded]
  /\ posts' = [posts EXCEPT ![b] = <<>>]
  /\ listening' = listening \ {b} /\ broken' = (broken \/ b \in listening)
  /\ stream' = [stream EXCEPT ![b] = <<>>]
  /\ faulted' = TRUE
  /\ UNCHANGED <<serverVars, holding>>

Next ==
  \/ AskNobody
  \/ \E k \in Kinds : Ask(k)
  \/ Answered
  \/ \E b \in Browsers :
       \/ OpenPaintStream(b) \/ Answering(b)
       \/ StreamBreaks(b) \/ Reload(b)

(***************************************************************************)
(* Threads and pages get on with their work, and operators shown a prompt  *)
(* or a chooser deal with it in the end: nothing stops for ever while one  *)
(* of them has something to do.                                            *)
(***************************************************************************)
Spec ==
  /\ Init /\ [][Next]_vars
  /\ WF_vars(Answered)
  /\ WF_vars(\E b \in Browsers : Answering(b))

-----------------------------------------------------------------------------
\* Types and ranges of the variables.
TypeOK ==
  /\ asksMade \in 0 .. MaxAsks /\ asking \in 0 .. asksMade
  /\ kind \in [Numbers -> Kinds \cup {"none"}]
  /\ waitingForAnswers \in [Numbers -> Answers \cup {Absent, Pending}]
  /\ outcome \in [to : 0 .. asksMade, got : Answers \cup {None}]
  /\ first \in Answers \cup {None}
  /\ listening \subseteq Browsers /\ holding \subseteq Browsers
  /\ broken \in BOOLEAN /\ faulted \in BOOLEAN
  /\ stream \in [Browsers -> Seq(1 .. asksMade)]
  /\ posts \in [Browsers -> Seq([ask : 1 .. asksMade, answer : Words])]
  /\ page \in [Browsers -> [prompt : 0 .. asksMade, chooser : 0 .. asksMade,
                            writing : SUBSET (1 .. asksMade), working : SUBSET (1 .. asksMade)]]
  /\ \A b \in Browsers :
       page[b].chooser # 0 => kind[page[b].chooser] = "files" /\ page[b].prompt # 0

(***************************************************************************)
(* An ask is never given another ask's answer, however late, often or from *)
(* however many browsers the answers to earlier asks arrive (web.allium,   *)
(* AnAnswerToNoAskIsDropped).                                              *)
(***************************************************************************)
AnswersNameTheirAsk == outcome.got # None => outcome.got.ask = outcome.to

(***************************************************************************)
(* What a script is answered is the first answer to its ask that reached   *)
(* the server: two browsers may both answer, the second while the script's *)
(* thread is still on its way out of the wait (web.allium,                 *)
(* AnAnswerIsNeverReplaced).                                               *)
(***************************************************************************)
TheFirstAnswerStands == outcome.got # None => outcome.got = first

(***************************************************************************)
(* Only the ask in flight is waited for, so no answer is kept for an ask   *)
(* that is over (the finally of WebScreenServer.ask).                      *)
(***************************************************************************)
OnlyTheAskInFlightWaits ==
  \A n \in Numbers : waitingForAnswers[n] # Absent <=> n = asking

(***************************************************************************)
(* While pages stay, streams hold and files can be read, every ask of      *)
(* every kind is answered in the end, whichever browsers answer it and     *)
(* however the operators deal with it, as long as one page it was put to   *)
(* keeps its prompt.  A page loses it in two ways and no other: a chooser  *)
(* opened for an earlier ask closes over it, or the write to the clipboard *)
(* of an earlier ask is rejected and takes the prompt.                     *)
(***************************************************************************)
EveryAskEndsWhileAPageHoldsIt ==
  \A n \in Numbers : asking = n ~> (asking # n \/ faulted \/ holding = {})

(***************************************************************************)
(* Every ask is answered in the end: a browser that fails is a refusal     *)
(* (web.allium: "never a hang").                                           *)
(***************************************************************************)
EveryAskEnds == \A n \in Numbers : asking = n ~> asking # n
=============================================================================
