------------------------------- MODULE History --------------------------------
(***************************************************************************)
(* An app's history (History.java): its entries by index, which of them is *)
(* current, and what each operation does to them.  A place stands for its  *)
(* own address, which is what makes two places the same place; an address  *)
(* in Unreadable reads as no place.                                        *)
(***************************************************************************)
EXTENDS ChangeRate, FiniteSets, Functions

CONSTANTS
  Places,      \* the places an app may be at
  Start,       \* the place whose address is empty
  Unreadable,  \* addresses that do not read as a place
  NoAddress,   \* no address was refused
  LastIndex    \* bound: the highest index an entry may have

ASSUME HistoryAssumption ==
  /\ Start \in Places
  /\ Places \cap Unreadable = {}
  /\ NoAddress \notin Places \cup Unreadable
  /\ LastIndex \in Nat

VARIABLES
  entries,         \* the entries known, a function from their indexes
  position,        \* the index of the current one
  usedByApp,       \* the app has asked about or moved through its history
  refusedAddress   \* the address the last fresh load could not read

historyVars == <<entries, position, usedByApp, refusedAddress>>

Indexes == 0 .. LastIndex

Addresses == Places \cup Unreadable

\* (mutant) What does not read as a place is taken as one.
ReadAnything(address) == address

Read(address) == IF address \in Places THEN address ELSE Start

EntryAt(i) == IF i \in DOMAIN entries THEN entries[i] ELSE Start

Current == EntryAt(position)

\* (mutant) An arrival forgets the other entries, as a fresh load does.
WithOnly(i, place) == [j \in {i} |-> place]

With(i, place) ==
  [j \in DOMAIN entries \cup {i} |-> IF j = i THEN place ELSE entries[j]]

\* (mutant) What was ahead of the current entry stays.
KeptOnGoingEverything == entries

\* The entries that stay when the app goes somewhere new.
KeptOnGoing == Restrict(entries, {i \in DOMAIN entries : i <= position})

StartAt(i, address) ==
  /\ entries' = [j \in {i} |-> Read(address)]
  /\ position' = i
  /\ refusedAddress' = IF address \in Places THEN NoAddress ELSE address
  /\ UNCHANGED usedByApp

\* Going to the current place adds nothing.
Stay(place) ==
  /\ place = Current
  /\ UNCHANGED <<entries, position, refusedAddress, rateVars>>

\* A change past the rate leaves the history as it was.
Refused ==
  /\ RefuseChange
  /\ UNCHANGED <<entries, position, refusedAddress>>

Advance(place) ==
  /\ place # Current
  /\ CountChange
  /\ position < LastIndex
  /\ position' = position + 1
  /\ entries' = [j \in DOMAIN KeptOnGoing \cup {position + 1} |->
                   IF j = position + 1 THEN place ELSE KeptOnGoing[j]]
  /\ UNCHANGED refusedAddress

Rewrite(place) ==
  /\ CountChange
  /\ entries' = With(position, place)
  /\ UNCHANGED <<position, refusedAddress>>

\* (mutant) There is always somewhere to go back to.
HasBackAlways == TRUE

HasBack == position # 0

HasForward == position + 1 \in DOMAIN entries

\* A target is counted as a change when it is handed out.
CountTarget ==
  /\ CountChange
  /\ UNCHANGED <<entries, position, refusedAddress>>

\* The event an arrival at i is: none when the app is already there.
Direction(i) ==
  IF i = position THEN "none" ELSE IF i < position THEN "back" ELSE "forward"

ArriveAt(i, place) ==
  /\ entries' = With(i, place)
  /\ position' = i
  /\ UNCHANGED <<usedByApp, refusedAddress>>

HistoryInit ==
  /\ entries = [i \in {0} |-> Start]
  /\ position = 0
  /\ usedByApp = FALSE
  /\ refusedAddress = NoAddress

HistoryTypeOK ==
  /\ DOMAIN entries \subseteq Indexes
  /\ entries \in [DOMAIN entries -> Places]
  /\ position \in Indexes
  /\ usedByApp \in BOOLEAN
  /\ refusedAddress \in Unreadable \cup {NoAddress}
=============================================================================
