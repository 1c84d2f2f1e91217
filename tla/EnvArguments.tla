---------------------------- MODULE EnvArguments ----------------------------
(***************************************************************************)
(* Options::GetEnvArguments and Options::DestroyEnvArgv of                 *)
(* src/runtime/bin/main_options.cc (AOT build): the DART_VM_OPTIONS        *)
(* environment variable is split at commas into env_argv_, which           *)
(* ParseArguments then reads as argv and Cleanup frees.                    *)
(*                                                                         *)
(* The variable's text is a sequence over {"a", ","}: an option character  *)
(* and the separator. Each iteration of the counting loop, of the strtok_r *)
(* loop and of the freeing loop is one step.                               *)
(***************************************************************************)
EXTENDS Integers, Sequences, SequencesExt

CONSTANTS
  MaxLen,     \* the longest DART_VM_OPTIONS text
  Unset,      \* getenv returned nullptr
  Garbage,    \* an env_argv_ slot new char*[] left uninitialized
  Null        \* nullptr

VARIABLES
  env,        \* the DART_VM_OPTIONS text getenv returned, or Unset
  buf,        \* the bytes of that string now: strtok_r writes into them
  pc,         \* where the functions are
  k,          \* i of the counting loop, i of the freeing loop
  argCount,   \* arg_count
  rest,       \* rest: the index in env strtok_r continues from
  envArgv,    \* env_argv_: slot -> token or Garbage, or Null
  envArgc,    \* env_argc_
  current,    \* current_arg
  outArgc,    \* *argc as the caller sees it, Null if never written
  overflow,   \* a token was stored past the end of env_argv_
  freed       \* the slots DestroyEnvArgv has freed, in order

vars == << env, buf, pc, k, argCount, rest, envArgv, envArgc, current, outArgc,
           overflow, freed >>

Texts == UNION {[1..n -> {"a", ","}] : n \in 0..MaxLen}

Init ==
  /\ env \in Texts \cup {Unset}
  /\ buf = env
  /\ pc = "start"
  /\ k = 0
  /\ argCount = 0
  /\ rest = 1
  /\ envArgv = Null
  /\ envArgc = 0
  /\ current = 0
  /\ outArgc = Null
  /\ overflow = FALSE
  /\ freed = << >>

\* The count starts at zero.
InitialArgCountZero == 0

\* int arg_count = 1.
InitialArgCount == 1

\* GetEnvArguments starts: with no variable *argc is 0, with an empty one
\* nothing is returned (and *argc is left as it was); otherwise the
\* commas are counted.
Start ==
  /\ pc = "start"
  /\ CASE env = Unset -> pc' = "returned" /\ outArgc' = 0 /\ UNCHANGED argCount
       [] Len(env) = 0 -> pc' = "returned" /\ UNCHANGED << outArgc, argCount >>
       [] OTHER -> pc' = "count" /\ argCount' = InitialArgCount /\ UNCHANGED outArgc
  /\ UNCHANGED << env, buf, k, rest, envArgv, envArgc, current, overflow, freed >>

\* A comma counts unless it is the last character.
Counts(s, j) == s[j] = "," /\ j # Len(s)

\* One iteration of the counting loop (j is the 1-based index i + 1).
CountStep ==
  /\ pc = "count"
  /\ k < Len(env)
  /\ argCount' = argCount + (IF Counts(env, k + 1) THEN 1 ELSE 0)
  /\ k' = k + 1
  /\ UNCHANGED << env, buf, pc, rest, envArgv, envArgc, current, outArgc, overflow, freed >>

\* new char*[arg_count - 1]: the array sized by the commas alone.
SlotsOneShort(n) == 0..n - 2

\* The slots of new char*[n].
Slots(n) == 0..n - 1

\* The count is done: env_argv_ = new char*[arg_count], uninitialized, and
\* env_argc_ and *argc are set to the count.
Allocate ==
  /\ pc = "count"
  /\ k = Len(env)
  /\ envArgv' = [s \in Slots(argCount) |-> Garbage]
  /\ envArgc' = argCount
  /\ outArgc' = argCount
  /\ pc' = "split"
  /\ UNCHANGED << env, buf, k, argCount, rest, current, overflow, freed >>

\* strtok_r that returns the empty fields between separators.
NextTokenNoSkip(s, from) ==
  IF from > Len(s) THEN Null
  ELSE LET stop == SelectInSubSeq(s, from, Len(s), LAMBDA c : c = ",")
           end == IF stop = 0 THEN Len(s) + 1 ELSE stop
       IN [start |-> from, sep |-> stop,
           next |-> IF stop = 0 THEN end ELSE end + 1]

\* strtok_r(rest, ",", &rest): separators are skipped, the token runs to
\* the next separator (sep, 0 if none), and rest continues after it, or
\* at the string's terminator; Null when only separators are left.
NextToken(s, from) ==
  LET start == SelectInSubSeq(s, from, Len(s), LAMBDA c : c # ",")
  IN IF from > Len(s) \/ start = 0 THEN Null
     ELSE LET stop == SelectInSubSeq(s, start, Len(s), LAMBDA c : c = ",")
              end == IF stop = 0 THEN Len(s) + 1 ELSE stop
          IN [start |-> start, sep |-> stop,
              next |-> IF stop = 0 THEN end ELSE end + 1]

\* The NUL strtok_r writes over the separator that ends a token.
Nul == "nul"

\* A tokenizer that leaves the separator in place.
Unterminated(b, t) == b

\* What strtok_r leaves in the string: the separator that ends the token,
\* if any, is overwritten with NUL.
Terminated(b, t) == IF t.sep # 0 THEN [b EXCEPT ![t.sep] = Nul] ELSE b

\* Utils::StrNDup(token, n): at most n bytes, up to the first NUL (the
\* string's terminator lies just past Len(b)).
StrNDup(b, from, n) ==
  LET stop == SelectInSubSeq(b, from, Len(b), LAMBDA c : c = Nul)
      len == IF stop = 0 THEN Len(b) + 1 - from ELSE stop - from
  IN SubSeq(b, from, from + (IF len < n THEN len ELSE n) - 1)

\* One iteration of the strtok_r loop: strtok_r terminates the token in
\* place, and env_argv_[current_arg++] = StrNDup(token, rest - token).
SplitStep ==
  /\ pc = "split"
  /\ NextToken(buf, rest) # Null
  /\ LET t == NextToken(buf, rest) IN
     /\ buf' = Terminated(buf, t)
     /\ IF current < argCount
        THEN envArgv' = [envArgv EXCEPT ![current] =
                           StrNDup(Terminated(buf, t), t.start, t.next - t.start)]
             /\ UNCHANGED overflow
        ELSE overflow' = TRUE /\ UNCHANGED envArgv
     /\ current' = current + 1
     /\ rest' = t.next
  /\ UNCHANGED << env, pc, k, argCount, envArgc, outArgc, freed >>

\* strtok_r returns nullptr: env_argv_ is returned.
SplitDone ==
  /\ pc = "split"
  /\ NextToken(buf, rest) = Null
  /\ pc' = "returned"
  /\ UNCHANGED << env, buf, k, argCount, rest, envArgv, envArgc, current, outArgc,
                  overflow, freed >>

\* Options::Cleanup calls DestroyEnvArgv: the loop starts.
Cleanup ==
  /\ pc = "returned"
  /\ pc' = "destroy"
  /\ k' = 0
  /\ UNCHANGED << env, buf, argCount, rest, envArgv, envArgc, current, outArgc,
                  overflow, freed >>

\* One iteration of DestroyEnvArgv's loop: free(env_argv_[i]).
DestroyStep ==
  /\ pc = "destroy"
  /\ k < envArgc
  /\ freed' = Append(freed, envArgv[k])
  /\ k' = k + 1
  /\ UNCHANGED << env, buf, pc, argCount, rest, envArgv, envArgc, current, outArgc, overflow >>

\* delete[] env_argv_; env_argv_ = nullptr.
DestroyDone ==
  /\ pc = "destroy"
  /\ k >= envArgc
  /\ envArgv' = Null
  /\ pc' = "done"
  /\ UNCHANGED << env, buf, k, argCount, rest, envArgc, current, outArgc, overflow, freed >>

Next ==
  \/ Start \/ CountStep \/ Allocate \/ SplitStep \/ SplitDone
  \/ Cleanup \/ DestroyStep \/ DestroyDone

Spec == Init /\ [][Next]_vars

-----------------------------------------------------------------------------
\* The fields of a text: its maximal runs of non-separators, in order.
RECURSIVE SplitRef(_, _)
SplitRef(s, cur) ==
  IF s = << >> THEN IF cur = << >> THEN << >> ELSE << cur >>
  ELSE IF Head(s) = ","
       THEN (IF cur = << >> THEN << >> ELSE << cur >>) \o SplitRef(Tail(s), << >>)
       ELSE SplitRef(Tail(s), Append(cur, Head(s)))

Fields(s) == SplitRef(s, << >>)

TypeOK ==
  /\ env \in Texts \cup {Unset}
  /\ buf = Unset \/ buf \in [1..Len(env) -> {"a", ",", Nul}]
  /\ pc \in {"start", "count", "split", "returned", "destroy", "done"}
  /\ argCount \in 0..MaxLen + 1
  /\ current \in 0..MaxLen + 1
  /\ envArgc \in 0..MaxLen + 1
  /\ envArgv = Null \/ DOMAIN envArgv = 0..envArgc - 1
  /\ overflow \in BOOLEAN

\* The count of the first loop bounds the tokens strtok_r finds: no token
\* is ever stored past the end of the env_argv_ array.
WritesInBounds == ~overflow

\* When GetEnvArguments returns an array, the tokens in it are the fields
\* of DART_VM_OPTIONS, in order, each in its own slot.
TokensInOrder ==
  pc = "returned" /\ envArgv # Null =>
    /\ current = Len(Fields(env))
    /\ \A s \in 1..current : envArgv[s - 1] = Fields(env)[s]

\* Every one of the env_argc_ slots that GetEnvArguments hands out as argv
\* (and that DestroyEnvArgv frees) holds a token.
EnvArgvInitialised ==
  pc = "returned" /\ envArgv # Null =>
    \A s \in DOMAIN envArgv : envArgv[s] # Garbage
=============================================================================
