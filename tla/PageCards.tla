------------------------------ MODULE PageCards ------------------------------
(***************************************************************************)
(* Page::VisitRememberedCards and Page::ResetProgressBar                   *)
(* (src/runtime/vm/heap/page.cc): several scavenger tasks visit the        *)
(* remembered cards of one large array page in parallel. They share the    *)
(* page's card table and its atomic progress_bar_, from which each task     *)
(* claims card-table words with fetch_add(1).                              *)
(*                                                                         *)
(* Memory is abstracted to slot indices from the start of the page. Card i *)
(* covers slots i*SlotsPerCard .. i*SlotsPerCard + SlotsPerCard - 1. A     *)
(* card-table word is the set of its bits that are 1. What the visitor's   *)
(* PredicateVisitCompressedPointers finds is an oracle fixed for the pass: *)
(* newTarget, the slots whose target is still in new space after the       *)
(* visit.                                                                  *)
(***************************************************************************)
EXTENDS Integers, FiniteSets

CONSTANTS
  Tasks,          \* the scavenger tasks visiting the page
  BitsPerWord,    \* kBitsPerWord
  SlotsPerCard,   \* 1 << kSlotsPerCardLog2
  CardTableSize,  \* card_table_size(), in bits
  ObjFrom,        \* obj->untag()->from(), as a slot of the page
  Lengths         \* the array lengths the page's array may have

ASSUME /\ BitsPerWord >= 1 /\ SlotsPerCard >= 1 /\ CardTableSize >= 1
       /\ ObjFrom >= 1   \* the page header precedes the array's slots

VisitCap == 2   \* visits of a card are counted up to this bound

Bits == 0 .. BitsPerWord - 1
\* The slots the card table covers.
PageSlots == 0 .. CardTableSize * SlotsPerCard - 1
\* The card-table words that exist: the table is allocated in whole words.
Words == 0 .. (CardTableSize + BitsPerWord - 1) \div BitsPerWord - 1
Cards == 0 .. Cardinality(Words) * BitsPerWord - 1

VARIABLES
  cards,       \* card_table_: word -> the set of its 1 bits
  progress,    \* progress_bar_
  pc,          \* per task: "start", "fetch", "bit" (in the bit loop), "done"
  word,        \* per task: word_offset
  cell,        \* per task: the local copy of card_table_[word_offset]
  bit,         \* per task: bit_offset
  visits,      \* card -> how often a task visited it (up to VisitCap)
  remembered,  \* the card table when the pass began
  newTarget,   \* the slots that keep a new-space target
  length,      \* Smi::Value(obj->untag()->length())
  call         \* [hasTable, onlyMarked, marked] of this call

vars == << cards, progress, pc, word, cell, bit, visits, remembered,
           newTarget, length, call >>

\* obj->untag()->to(length): the last slot of the array.
ObjTo == ObjFrom + length - 1

\* size_in_words, rounded down: the last partial word is lost.
SizeInWordsTruncated == CardTableSize \div BitsPerWord

\* size_in_words = RoundUp(size_in_bits, kBitsPerWord) >> kBitsPerWordLog2.
SizeInWords == (CardTableSize + BitsPerWord - 1) \div BitsPerWord

\* The index of bit b of word w: (word_offset << kBitsPerWordLog2) + bit.
CardIndex(w, b) == w * BitsPerWord + b

\* card_from and card_to of card i, clipped to obj_from and obj_to.
ClipFrom(i) == IF i * SlotsPerCard < ObjFrom THEN ObjFrom ELSE i * SlotsPerCard
ClipToCard(i) == i * SlotsPerCard + SlotsPerCard - 1
ClipTo(i) == IF ClipToCard(i) > ObjTo THEN ObjTo ELSE ClipToCard(i)

\* The result of PredicateVisitCompressedPointers(heap_base, from, to):
\* some slot of [from, to] keeps a new-space target. An empty range, where
\* a card lies wholly past a truncated array, finds none.
HasNewTarget(from, to) == \E s \in from .. to : s \in newTarget

Init ==
  /\ remembered \in [Words -> SUBSET Bits]
  \* The write barrier only marks cards the table has.
  /\ \A w \in Words : \A b \in remembered[w] : CardIndex(w, b) < CardTableSize
  /\ cards = remembered
  /\ newTarget \in SUBSET PageSlots
  /\ length \in Lengths
  /\ call \in [hasTable : BOOLEAN, onlyMarked : BOOLEAN, marked : BOOLEAN]
  \* Page::ResetProgressBar() ran before the pass.
  /\ progress = 0
  /\ pc = [t \in Tasks |-> "start"]
  /\ word = [t \in Tasks |-> 0]
  /\ cell = [t \in Tasks |-> {}]
  /\ bit = [t \in Tasks |-> 0]
  /\ visits = [i \in Cards |-> 0]

\* The entry of VisitRememberedCards: no card table, or an unmarked array
\* when only marked ones are visited, returns at once.
Start(t) ==
  /\ pc[t] = "start"
  /\ pc' = [pc EXCEPT ![t] =
              IF ~call.hasTable \/ (call.onlyMarked /\ ~call.marked)
              THEN "done" ELSE "fetch"]
  /\ UNCHANGED << cards, progress, word, cell, bit, visits, remembered,
                  newTarget, length, call >>

\* A claim that reads progress_bar_ without adding to it.
FetchNoIncrement(t) ==
  /\ pc[t] = "fetch"
  /\ word' = [word EXCEPT ![t] = progress]
  /\ IF progress >= SizeInWords
     THEN /\ pc' = [pc EXCEPT ![t] = "done"]
          /\ UNCHANGED << cell, bit >>
     ELSE IF cards[progress] = {}
     THEN UNCHANGED << pc, cell, bit >>
     ELSE /\ pc' = [pc EXCEPT ![t] = "bit"]
          /\ cell' = [cell EXCEPT ![t] = cards[progress]]
          /\ bit' = [bit EXCEPT ![t] = 0]
  /\ UNCHANGED << progress, cards, visits, remembered, newTarget, length,
                  call >>

\* A claim that does not advance progress_bar_ past a clear word, so a
\* task spins on it.
FetchZeroRetry(t) ==
  /\ pc[t] = "fetch"
  /\ word' = [word EXCEPT ![t] = progress]
  /\ IF progress >= SizeInWords
     THEN /\ progress' = progress + 1
          /\ pc' = [pc EXCEPT ![t] = "done"]
          /\ UNCHANGED << cell, bit >>
     ELSE IF cards[progress] = {}
     THEN UNCHANGED << progress, pc, cell, bit >>
     ELSE /\ progress' = progress + 1
          /\ pc' = [pc EXCEPT ![t] = "bit"]
          /\ cell' = [cell EXCEPT ![t] = cards[progress]]
          /\ bit' = [bit EXCEPT ![t] = 0]
  /\ UNCHANGED << cards, visits, remembered, newTarget, length, call >>

\* A loop that goes on claiming after the end instead of breaking.
FetchContinuePastEnd(t) ==
  /\ pc[t] = "fetch"
  /\ progress' = progress + 1
  /\ word' = [word EXCEPT ![t] = progress]
  /\ IF progress >= SizeInWords \/ cards[progress] = {}
     THEN UNCHANGED << pc, cell, bit >>
     ELSE /\ pc' = [pc EXCEPT ![t] = "bit"]
          /\ cell' = [cell EXCEPT ![t] = cards[progress]]
          /\ bit' = [bit EXCEPT ![t] = 0]
  /\ UNCHANGED << cards, visits, remembered, newTarget, length, call >>

\* One turn of the for (;;) loop up to the bit loop: claim the next word
\* with progress_bar_.fetch_add(1), break past the end, skip a clear word,
\* else copy it into cell.
FetchWord(t) ==
  /\ pc[t] = "fetch"
  /\ progress' = progress + 1
  /\ word' = [word EXCEPT ![t] = progress]
  /\ IF progress >= SizeInWords
     THEN /\ pc' = [pc EXCEPT ![t] = "done"]
          /\ UNCHANGED << cell, bit >>
     ELSE IF cards[progress] = {}
     THEN UNCHANGED << pc, cell, bit >>
     ELSE /\ pc' = [pc EXCEPT ![t] = "bit"]
          /\ cell' = [cell EXCEPT ![t] = cards[progress]]
          /\ bit' = [bit EXCEPT ![t] = 0]
  /\ UNCHANGED << cards, visits, remembered, newTarget, length, call >>

\* cell ^= bit_mask.
Toggle(c, b) == IF b \in c THEN c \ {b} ELSE c \cup {b}

\* Visits card i of the cell of task t and returns the new cell: a card
\* without a new-space target is cleared.
Visited(c, b, i) ==
  IF HasNewTarget(ClipFrom(i), ClipTo(i)) THEN c ELSE Toggle(c, b)

\* One turn of the bit loop: skip a clear bit, else visit the card's slots
\* between the clipped card_from and card_to and clear the bit unless the
\* visitor found a new target.
VisitBit(t) ==
  /\ pc[t] = "bit"
  /\ bit[t] < BitsPerWord
  /\ IF bit[t] \notin cell[t]
     THEN UNCHANGED << visits, cell >>
     ELSE /\ visits' = [visits EXCEPT ![CardIndex(word[t], bit[t])] =
                          IF @ < VisitCap THEN @ + 1 ELSE @]
          /\ cell' = [cell EXCEPT ![t] =
                        Visited(@, bit[t], CardIndex(word[t], bit[t]))]
  /\ bit' = [bit EXCEPT ![t] = @ + 1]
  /\ UNCHANGED << cards, progress, pc, word, remembered, newTarget, length,
                  call >>

\* card_table_[word_offset] = cell after the bit loop.
StoreCell(t) ==
  /\ pc[t] = "bit"
  /\ bit[t] = BitsPerWord
  /\ cards' = [cards EXCEPT ![word[t]] = cell[t]]
  /\ pc' = [pc EXCEPT ![t] = "fetch"]
  /\ UNCHANGED << progress, word, cell, bit, visits, remembered, newTarget,
                  length, call >>

\* The steps of one task.
Task(t) == Start(t) \/ FetchWord(t) \/ VisitBit(t) \/ StoreCell(t)

Next == \E t \in Tasks : Task(t)

\* Each task is a thread that runs the loop to its end without blocking or
\* waiting for another, so each is weakly fair.
Spec == Init /\ [][Next]_vars /\ \A t \in Tasks : WF_vars(Task(t))

-----------------------------------------------------------------------------
\* The tasks claim words with fetch_add(1) and each claims at most one word
\* past the end before it breaks, so progress_bar_ stays within
\* size_in_words plus the number of tasks.
TypeOK ==
  /\ cards \in [Words -> SUBSET Bits]
  /\ progress \in 0 .. SizeInWords + Cardinality(Tasks)
  /\ pc \in [Tasks -> {"start", "fetch", "bit", "done"}]
  /\ word \in [Tasks -> Nat]
  /\ cell \in [Tasks -> SUBSET Bits]
  /\ bit \in [Tasks -> 0 .. BitsPerWord]
  /\ visits \in [Cards -> 0 .. VisitCap]

\* However the tasks interleave, progress_bar_.fetch_add hands every
\* card-table word to one task only, so no card is visited twice in a pass.
CardsVisitedOnce == \A i \in Cards : visits[i] <= 1

\* The pass returned at once (no card table, or an unmarked array).
Skipped == ~call.hasTable \/ (call.onlyMarked /\ ~call.marked)

\* A reference definition of the card table a pass should leave: a
\* remembered card stays remembered iff one of its slots that lies within
\* the array keeps a new-space target.
ExpectedCards ==
  [w \in Words |->
     {b \in remembered[w] :
        \E s \in newTarget :
          /\ s \div SlotsPerCard = CardIndex(w, b)
          /\ ObjFrom <= s /\ s <= ObjTo}]

\* When every task has left VisitRememberedCards, the card table is the
\* remembered cards filtered by the visitor's result: no remembered card is
\* lost (in the last, partial word or to another task's write-back) and no
\* card whose slots hold no new target, inside the array or past its
\* truncated end, stays set.
FinalCards ==
  (\A t \in Tasks : pc[t] = "done") =>
    cards = IF Skipped THEN remembered ELSE ExpectedCards

\* Every task eventually leaves VisitRememberedCards.
Termination == <>(\A t \in Tasks : pc[t] = "done")
=============================================================================
