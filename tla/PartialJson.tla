---------------------------- MODULE PartialJson ----------------------------
(***************************************************************************)
(* parse_partial_json of src/actants/llm/partial_json.py, on texts of      *)
(* tokens.  A token is a character JSON's structure or the scanner tells   *)
(* apart; any other run of characters is one token.  A backslash hides a   *)
(* quote from the scanner and never changes what this module is about, so  *)
(* the texts have none.  Nor have they a code fence around them, which     *)
(* partial_json.py:34-38 takes off before anything else.                   *)
(***************************************************************************)
EXTENDS Naturals, Sequences, SequencesExt

CONSTANT Phrase   \* what stands between the quotes of a JSON string

LOCAL P == INSTANCE SchemaPlan

Openers == {"{", "["}
Closer(t) == IF t = "{" THEN "}" ELSE "]"
Closers == {"}", "]"}

(***************************************************************************)
(* The scanner: the closers still due, whether the text ends in a string,  *)
(* and the length up to the last place where nothing was open.             *)
(***************************************************************************)
ScanToken(st, t) ==
  LET at == st.at + 1
      stack == IF t \in Openers THEN Append(st.stack, Closer(t))
               ELSE IF t \in Closers /\ st.stack # <<>> /\ Last(st.stack) = t
                    THEN Front(st.stack) ELSE st.stack
  IN IF t = "quote" THEN [st EXCEPT !.at = at, !.inString = ~@]
     ELSE IF st.inString THEN [st EXCEPT !.at = at]
     ELSE [st EXCEPT !.at = at, !.stack = stack,
                     !.last = IF t \in Closers /\ stack = <<>> THEN at ELSE @]

RECURSIVE ScanFrom(_, _)
ScanFrom(s, st) == IF st.at = Len(s) THEN st ELSE ScanFrom(s, ScanToken(st, s[st.at + 1]))

Scan(s) == ScanFrom(s, [at |-> 0, stack |-> <<>>, inString |-> FALSE, last |-> Len(s)])

\* Mutant: the cut is one behind the separator.
SafeCut_Past(s) ==
  LET ends == {i \in DOMAIN s : s[i] \in Openers \cup {","}}
  IN IF ends = {} THEN 0 ELSE Max(ends) + 1

SafeCut(s) ==
  LET ends == {i \in DOMAIN s : s[i] \in Openers \cup {","}}
  IN IF ends = {} THEN 0 ELSE Max(ends)

RECURSIVE TrimTrailing(_)
TrimTrailing(s) ==
  IF s # <<>> /\ Last(s) \in {",", ":"} THEN TrimTrailing(Front(s)) ELSE s

(***************************************************************************)
(* _close_open_structures.  A text that ends in a string is cut behind the *)
(* last separator and repaired again; when that separator is the last      *)
(* token already the cut changes nothing, and the recursion never ends.    *)
(***************************************************************************)
Diverges == <<"diverges">>

RECURSIVE CloseOpenStructures(_)
CloseOpenStructures(s) ==
  LET st == Scan(s)
      trimmed == TrimTrailing(s)
  IN IF st.stack = <<>> /\ ~st.inString THEN SubSeq(s, 1, st.last)
     ELSE IF st.inString
     THEN IF SafeCut(s) = Len(s) THEN Diverges
          ELSE CloseOpenStructures(SubSeq(s, 1, SafeCut(s)))
     ELSE trimmed \o Reverse(Scan(trimmed).stack)

(***************************************************************************)
(* How a value is written.  A number has two digits, so that a text may    *)
(* end in the middle of one; "1" on its own is a number as well.           *)
(***************************************************************************)
Quoted(t) == <<"quote">> \o t \o <<"quote">>

RECURSIVE Separated(_)
Separated(parts) ==
  IF Len(parts) <= 1 THEN IF parts = <<>> THEN <<>> ELSE parts[1]
  ELSE parts[1] \o <<",">> \o Separated(Tail(parts))

RECURSIVE Render(_)
Render(v) ==
  CASE v.k = "num" -> <<"1", "2">>
    [] v.k = "digit" -> <<"1">>
    [] v.k = "null" -> <<"n", "ull">>
    [] v.k = "text" -> Quoted(Phrase)
    [] v.k = "short" -> Quoted(<<>>)
    [] v.k = "arr" -> <<"[">> \o Separated([i \in DOMAIN v.items |-> Render(v.items[i])]) \o <<"]">>
    [] v.k = "map" ->
         LET names == SetToSeq(DOMAIN v.at)
             Member(i) == Quoted(<<names[i]>>) \o <<":">> \o Render(v.at[names[i]])
         IN <<"{">> \o Separated([i \in DOMAIN names |-> Member(i)]) \o <<"}">>

(***************************************************************************)
(* What the first part of a text can stand for: whole members, and at the  *)
(* end perhaps a part of the next.                                         *)
(***************************************************************************)
RECURSIVE Truncations(_)
Truncations(v) ==
  CASE v.k = "num" -> {v, P!Digit}
    [] v.k = "arr" ->
         {P!Arr(SubSeq(v.items, 1, i)) : i \in 0..Len(v.items)} \cup
         UNION {{P!Arr(Append(SubSeq(v.items, 1, i - 1), w)) : w \in Truncations(v.items[i])}
                  : i \in DOMAIN v.items}
    [] v.k = "map" ->
         LET names == SetToSeq(DOMAIN v.at)
             First(i) == {names[j] : j \in 1..i}
         IN {P!Map([x \in First(i) |-> v.at[x]]) : i \in 0..Len(names)} \cup
            UNION {{P!Map([x \in First(i) |-> IF x = names[i] THEN w ELSE v.at[x]])
                      : w \in Truncations(v.at[names[i]])} : i \in DOMAIN names}
    [] OTHER -> {v}

Unreadable == [k |-> "unreadable"]

(***************************************************************************)
(* json.loads on a text made from the first part of the text of v.         *)
(***************************************************************************)
Loads(s, v) ==
  IF s = Render(v) THEN v
  ELSE IF \E w \in Truncations(v) : Render(w) = s THEN CHOOSE w \in Truncations(v) : Render(w) = s
  ELSE Unreadable

StripProse(s) ==
  LET starts == {i \in DOMAIN s : s[i] \in Openers}
  IN IF starts = {} THEN <<>>
     ELSE SubSeq(s, Min(starts), Len(s))

(***************************************************************************)
(* parse_partial_json(s), where s is the first part of a text that holds   *)
(* v.  Diverges stands for the RecursionError that leaves the function.    *)
(***************************************************************************)
ParsePartialJson(s, v) ==
  CHOOSE p \in UNION { {IF stripped = <<>> THEN Unreadable
                        ELSE IF Loads(stripped, v) # Unreadable THEN Loads(stripped, v)
                        ELSE IF repaired = Diverges THEN [k |-> "diverges"]
                        ELSE Loads(repaired, v)
                         : repaired \in {CloseOpenStructures(stripped)}}
                        : stripped \in {StripProse(s)}} : TRUE
=============================================================================
