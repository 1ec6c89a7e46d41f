------------------------------- MODULE StrSplit -------------------------------
(***************************************************************************)
(* str_split of parse.h, run by several threads of one program.  It counts *)
(* the elements of a text, allocates an array for them and fills it with   *)
(* strtok, which cuts the text in place and keeps the position where it    *)
(* goes on in ONE pointer of the process, whoever calls it.                *)
(*                                                                         *)
(* A buffer is a sequence of characters; a text ends at its first Nul.     *)
(* Threads of the controller and of the command line interface split       *)
(* copies of their own, the workers of a pi split the buffer that          *)
(* callback_packet.mes points to.  strtok is glibc's.                      *)
(***************************************************************************)
EXTENDS Integers, SequencesExt

CONSTANTS
  Threads,   \* the threads that split
  Buffers,   \* the buffers
  Of,        \* Of[t]: the buffer that thread t splits
  Chars,     \* the characters, Nul among them
  Texts,     \* the texts to split, sequences of other characters than Nul
  Size,      \* characters of a buffer (kontroler.c:269 has 200)
  MaxCalls   \* BOUND: texts that one thread splits in turn

Nul == "NUL"
Delim == "."     \* DELIMITER
Null == <<>>     \* the null pointer

ASSUME OfAssumption == /\ Of \in [Threads -> Buffers]
                       /\ \A b \in Buffers : \E t \in Threads : Of[t] = b
ASSUME TextsAssumption ==
  /\ Size \in Nat \ {0} /\ MaxCalls \in Nat \ {0}
  /\ Nul \in Chars
  /\ \A s \in Texts : s \in Seq(Chars \ {Nul}) /\ Len(s) < Size

VARIABLES
  mem,      \* the buffers
  olds,     \* strtok's static pointer: a buffer and a position in it
  pc,       \* where each thread is in str_split
  count,    \* its local count
  last,     \* its local last_comma: a position of its buffer, or 0
  at,       \* where strtok found the token: its buffer, start and end
  tokens,   \* result: the texts of the tokens stored so far
  calls,    \* how many texts the thread has split or is splitting
  text      \* HISTORY: the text the thread was given
vars == <<mem, olds, pc, count, last, at, tokens, calls, text>>

\* The first character from p on that is one of stop.
Until(b, p, stop) == Min({i \in p..Len(b) : b[i] \in stop})

\* The text at p.
String(b, p) == SubSeq(b, p, Until(b, p, {Nul}) - 1)

\* strcpy of a text to the front of a buffer.
Copied(b, s) == [i \in 1..Size |-> IF i <= Len(s) THEN s[i]
                                   ELSE IF i = Len(s) + 1 THEN Nul ELSE b[i]]

Running == \A t \in Threads : pc[t] # "aborted"

Init ==
  /\ text \in [Threads -> Texts]
  /\ \A t, u \in Threads : Of[t] = Of[u] => text[t] = text[u]
  /\ mem = [b \in Buffers |-> Copied([i \in 1..Size |-> Nul],
                                     text[CHOOSE t \in Threads : Of[t] = b])]
  /\ olds = Null
  /\ pc = [t \in Threads |-> "count"]
  /\ count = [t \in Threads |-> 0] /\ last = [t \in Threads |-> 0]
  /\ at = [t \in Threads |-> [buffer |-> Of[t], start |-> 1, end |-> 1, cut |-> FALSE]]
  /\ tokens = [t \in Threads |-> <<>>] /\ calls = [t \in Threads |-> 1]

\* while (*tmp): the delimiters, and the last of them.
Count(t) ==
  LET s == String(mem[Of[t]], 1)
      dots == {i \in 1..Len(s) : s[i] = Delim}
  IN  /\ pc[t] = "count"
      /\ count' = [count EXCEPT ![t] = Cardinality(dots)]
      /\ last' = [last EXCEPT ![t] = IF dots = {} THEN 0 ELSE Max(dots)]
      /\ pc' = [pc EXCEPT ![t] = "allocate"]
      /\ UNCHANGED <<mem, olds, at, tokens, calls, text>>

\* MUTANT: a trailing delimiter counts as one more token.
Trailing_Always(t) == TRUE

\* A trailing token, and the null at the end.  For an empty text a_str - 1 is
\* still above last_comma, which is null.
Trailing(t) == last[t] = 0 \/ last[t] < Len(String(mem[Of[t]], 1))
Allocate(t) ==
  /\ pc[t] = "allocate"
  /\ count' = [count EXCEPT ![t] = @ + (IF Trailing(t) THEN 1 ELSE 0) + 1]
  /\ pc' = [pc EXCEPT ![t] = "first"]
  /\ UNCHANGED <<mem, olds, last, at, tokens, calls, text>>

\* MUTANT: the first call, too, goes on where the last one stopped.
From_Left(t) == IF olds = Null THEN <<Of[t], 1>> ELSE olds

\* strtok: where it starts to look, ...
From(t) == IF pc[t] = "first" THEN <<Of[t], 1>> ELSE olds

\* ... the token it finds there; start = end if there is none.
Find(t) ==
  LET b == From(t)[1]
      start == Min({i \in From(t)[2]..Size : mem[b][i] # Delim})
      end == Until(mem[b], start, {Delim, Nul})
  IN  /\ pc[t] \in {"first", "next"}
      /\ at' = [at EXCEPT ![t] = [buffer |-> b, start |-> start, end |-> end,
                                  cut |-> mem[b][end] # Nul]]
      /\ pc' = [pc EXCEPT ![t] = "cut"]
      /\ UNCHANGED <<mem, olds, count, last, tokens, calls, text>>

\* ... its end marked, if the text goes on, ...
Cut(t) ==
  /\ pc[t] = "cut"
  /\ mem' = IF at[t].cut THEN [mem EXCEPT ![at[t].buffer][at[t].end] = Nul] ELSE mem
  /\ pc' = [pc EXCEPT ![t] = "save"]
  /\ UNCHANGED <<olds, count, last, at, tokens, calls, text>>

\* MUTANT: the place after the end is kept, also behind the end of the text.
Save_PastEnd(t) ==
  /\ pc[t] = "save"
  /\ olds' = <<at[t].buffer, at[t].end + 1>>
  /\ pc' = [pc EXCEPT ![t] = IF at[t].start = at[t].end THEN "end" ELSE "store"]
  /\ UNCHANGED <<mem, count, last, at, tokens, calls, text>>

\* ... and the place after it kept for whoever calls strtok next.
Save(t) ==
  /\ pc[t] = "save"
  /\ olds' = <<at[t].buffer, IF at[t].cut THEN at[t].end + 1 ELSE at[t].end>>
  /\ pc' = [pc EXCEPT ![t] = IF at[t].start = at[t].end THEN "end" ELSE "store"]
  /\ UNCHANGED <<mem, count, last, at, tokens, calls, text>>

\* assert(idx < count); *(result + idx++) = strdup(token)
Store(t) ==
  /\ pc[t] = "store"
  /\ IF Len(tokens[t]) < count[t]
       THEN /\ tokens' = [tokens EXCEPT ![t] =
                            Append(@, String(mem[at[t].buffer], at[t].start))]
            /\ pc' = [pc EXCEPT ![t] = "next"]
       ELSE pc' = [pc EXCEPT ![t] = "aborted"] /\ UNCHANGED tokens
  /\ UNCHANGED <<mem, olds, count, last, at, calls, text>>

\* assert(idx == count - 1); *(result + idx) = 0
End(t) ==
  /\ pc[t] = "end"
  /\ pc' = [pc EXCEPT ![t] = IF Len(tokens[t]) = count[t] - 1 THEN "done" ELSE "aborted"]
  /\ UNCHANGED <<mem, olds, count, last, at, tokens, calls, text>>

\* publish_callback of the controller copies the next message to the same place
\* and splits it.
Again(t) ==
  /\ pc[t] = "done" /\ calls[t] < MaxCalls
  /\ \A u \in Threads \ {t} : Of[u] # Of[t]
  /\ \E s \in Texts : /\ text' = [text EXCEPT ![t] = s]
                      /\ mem' = [mem EXCEPT ![Of[t]] = Copied(@, s)]
  /\ calls' = [calls EXCEPT ![t] = @ + 1]
  /\ tokens' = [tokens EXCEPT ![t] = <<>>]
  /\ pc' = [pc EXCEPT ![t] = "count"]
  /\ UNCHANGED <<olds, count, last, at>>

Step(t) == \/ Count(t) \/ Allocate(t) \/ Find(t) \/ Cut(t) \/ Save(t)
           \/ Store(t) \/ End(t) \/ Again(t)

Next == Running /\ \E t \in Threads : Step(t)

Spec == Init /\ [][Next]_vars
-----------------------------------------------------------------------------
(* Properties. *)

\* Type invariant.  Every buffer ends with a Nul, strtok's pointer stays inside
\* a buffer and is set before anyone goes on from it.
TypeOK ==
  /\ mem \in [Buffers -> [1..Size -> Chars]]
  /\ \A b \in Buffers : mem[b][Size] = Nul
  /\ olds \in (Buffers \X (1..Size)) \cup {Null}
  /\ pc \in [Threads -> {"count", "allocate", "first", "cut", "save", "store", "next",
                         "end", "done", "aborted"}]
  /\ count \in [Threads -> Nat] /\ last \in [Threads -> 0..Size]
  /\ at \in [Threads -> [buffer : Buffers, start : 1..Size, end : 1..Size,
                         cut : BOOLEAN]]
  /\ \A t \in Threads : at[t].cut => at[t].end < Size
  /\ \A t \in Threads : pc[t] \in {"store", "next"} => olds # Null
  /\ tokens \in [Threads -> Seq(Seq(Chars))]
  /\ calls \in [Threads -> 1..MaxCalls] /\ text \in [Threads -> Texts]

\* From i to before j there is an element of s: a longest stretch without a delimiter.
Element(s, i, j) ==
  /\ i < j /\ i \in 1..Len(s) /\ j \in 1..(Len(s) + 1)
  /\ \A k \in i..(j - 1) : s[k] # Delim
  /\ i = 1 \/ s[i - 1] = Delim
  /\ j = Len(s) + 1 \/ s[j] = Delim

ElementOf(w, s) ==
  \E i \in 1..Len(s), j \in 1..(Len(s) + 1) : Element(s, i, j) /\ w = SubSeq(s, i, j - 1)

\* Whoever gets hold of strtok's pointer in the middle of another's text: every
\* token stored is a whole element of the text of some thread, never a piece of
\* one or several in one, and the first token of a thread is of its own text.
\* That is so until a buffer is used for a second text.
TokensAreElements ==
  (\A t \in Threads : calls[t] = 1) =>
    \A t \in Threads : \A i \in 1..Len(tokens[t]) :
      /\ \E u \in Threads : ElementOf(tokens[t][i], text[u])
      /\ i = 1 => ElementOf(tokens[t][i], text[t])

\* A text that str_split is made for: not empty, and no empty element but one
\* after a trailing delimiter.
Splittable(s) == /\ s # <<>> /\ s[1] # Delim
                 /\ \A i \in 1..(Len(s) - 1) : ~(s[i] = Delim /\ s[i + 1] = Delim)

\* The texts of ss with a delimiter between each two.
Join(ss) ==
  LET joined[i \in 0..Len(ss)] ==
        IF i = 0 THEN <<>> ELSE IF i = 1 THEN ss[1] ELSE joined[i - 1] \o <<Delim>> \o ss[i]
  IN joined[Len(ss)]

\* While the other threads have not begun: joining the tokens gives the text back
\* (but for a trailing delimiter), the text itself is left cut at its first
\* delimiter as the workers of the pis find it, and exactly the texts with an
\* empty element end the program, whatever an earlier text left in the buffer.
Begun(u) == pc[u] # "count" \/ calls[u] > 1

SplitInvertsJoin ==
  \A t \in Threads : (\A u \in Threads \ {t} : ~Begun(u)) =>
    /\ pc[t] = "done" => /\ text[t] \in {Join(tokens[t]), Append(Join(tokens[t]), Delim)}
                         /\ String(mem[Of[t]], 1) = tokens[t][1]
                         /\ Splittable(text[t])
    /\ pc[t] = "aborted" => ~Splittable(text[t])

\* What parse.h:54 and parse.h:58 assert.
AssertsHold == \A t \in Threads : pc[t] # "aborted"
=============================================================================
