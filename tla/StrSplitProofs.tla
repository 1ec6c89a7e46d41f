---------------------------- MODULE StrSplitProofs ----------------------------
(***************************************************************************)
(* str_split never reads or writes outside its buffers, for any number of  *)
(* threads, any buffers, any texts and any interleaving of their steps.    *)
(* A thread that runs alone gets the elements of its text, or stops the    *)
(* program exactly if one of them is empty: by an invariant that follows   *)
(* strtok through the text, from one place where it goes on to the next.   *)
(* Threads that take each other's place in strtok get whole elements, if   *)
(* perhaps another's: by an invariant on where strtok may go on and what   *)
(* it may have found there.                                                *)
(***************************************************************************)
EXTENDS StrSplit, MinMaxProofs, SequenceTheorems, FiniteSetTheorems, TLAPS

\* From any position on there is one where the text or a token ends.
LEMMA UntilInBuffer ==
  ASSUME Size \in Nat, NEW b \in [1..Size -> Chars], b[Size] = Nul,
         NEW p \in 1..Size, NEW stop, Nul \in stop
  PROVE  Until(b, p, stop) \in p..Size /\ b[Until(b, p, stop)] \in stop
<1>. DEFINE S == {i \in p..Size : b[i] \in stop}
<1>1. S \subseteq 0..Size /\ Size \in S
  OBVIOUS
<1>2. Min(S) \in S
  <2>. HIDE DEF S
  <2>. QED BY <1>1, Minimum
<1>3. Len(b) = Size
  BY LenProperties
<1>. QED
  BY <1>2, <1>3 DEF Until

LEMMA StringType ==
  ASSUME Size \in Nat, NEW b \in [1..Size -> Chars], b[Size] = Nul, NEW p \in 1..Size
  PROVE  String(b, p) \in Seq(Chars) /\ Len(String(b, p)) \in 0..(Size - 1)
<1>1. Until(b, p, {Nul}) \in p..Size
  BY UntilInBuffer
<1>3. \A i \in p..(Until(b, p, {Nul}) - 1) : b[i] \in Chars
  BY <1>1
<1>. QED
  <2>. DEFINE e == Until(b, p, {Nul}) - 1
  <2>1. \A i \in p..e : b[i] \in Chars
    BY <1>3
  <2>4. e \in Int /\ e < Size /\ p \in Int /\ p >= 1
    BY <1>1
  <2>2. String(b, p) = SubSeq(b, p, e)
    BY DEF String
  <2>. HIDE DEF e
  <2>3. SubSeq(b, p, e) \in Seq(Chars) /\ Len(SubSeq(b, p, e)) = IF p <= e THEN e - p + 1 ELSE 0
    BY <2>1, <2>4, SubSeqProperties
  <2>. QED
    BY <2>4, <2>2, <2>3

-----------------------------------------------------------------------------
(* The invariant. *)

\* Before the loop nothing is stored.
IInv == /\ TypeOK
        /\ \A t \in Threads :
             pc[t] \in {"count", "allocate", "first"} => tokens[t] = <<>>

LEMMA CopiedType ==
  ASSUME NEW b \in [1..Size -> Chars], b[Size] = Nul, NEW s \in Texts
  PROVE  Copied(b, s) \in [1..Size -> Chars] /\ Copied(b, s)[Size] = Nul
<1>1. s \in Seq(Chars) /\ Len(s) \in Nat /\ Len(s) < Size /\ Size \in Nat \ {0}
  BY TextsAssumption
<1>2. \A i \in 1..Len(s) : s[i] \in Chars
  BY <1>1
<1>3. Nul \in Chars
  BY TextsAssumption
<1>4. \A i \in 1..Size : Copied(b, s)[i] \in Chars
  BY <1>1, <1>2, <1>3 DEF Copied
<1>5. Copied(b, s)[Size] = Nul
  BY <1>1 DEF Copied
<1>. QED
  BY <1>4, <1>5 DEF Copied

LEMMA InitEstablishes == Init => IInv
<1>. SUFFICES ASSUME Init PROVE IInv
  OBVIOUS
<1>1. ASSUME NEW b \in Buffers
      PROVE  mem[b] \in [1..Size -> Chars] /\ mem[b][Size] = Nul
  <2>. DEFINE blank == [i \in 1..Size |-> Nul]
              s == text[CHOOSE t \in Threads : Of[t] = b]
  <2>1. (CHOOSE t \in Threads : Of[t] = b) \in Threads
    BY OfAssumption
  <2>2. s \in Texts
    BY <2>1 DEF Init
  <2>3. blank \in [1..Size -> Chars] /\ blank[Size] = Nul
    BY TextsAssumption
  <2>4. mem[b] = Copied(blank, s)
    BY DEF Init
  <2>. HIDE DEF blank, s
  <2>. QED
    BY <2>2, <2>3, <2>4, CopiedType
<1>2. DOMAIN mem = Buffers /\ mem = [b \in Buffers |-> mem[b]]
  BY DEF Init
<1>3. \A t \in Threads : Of[t] \in Buffers
  BY OfAssumption
<1>4. mem \in [Buffers -> [1..Size -> Chars]] /\ \A b \in Buffers : mem[b][Size] = Nul
  BY <1>1, <1>2
<1>5. Size \in Nat \ {0} /\ MaxCalls \in Nat \ {0}
  BY TextsAssumption
<1>6. <<>> \in Seq(Seq(Chars))
  OBVIOUS
<1>7. at \in [Threads -> [buffer : Buffers, start : 1..Size, end : 1..Size, cut : BOOLEAN]]
      /\ \A t \in Threads : at[t].cut => at[t].end < Size
  BY <1>3, <1>5 DEF Init
<1>8. /\ pc = [t \in Threads |-> "count"] /\ count = [t \in Threads |-> 0]
      /\ last = [t \in Threads |-> 0] /\ tokens = [t \in Threads |-> <<>>]
      /\ calls = [t \in Threads |-> 1] /\ text \in [Threads -> Texts] /\ olds = Null
  BY DEF Init
<1>9. TypeOK
  BY <1>4, <1>5, <1>6, <1>7, <1>8 DEF TypeOK
<1>. QED
  BY <1>8, <1>9 DEF IInv

\* The steps that only move on, count or cut.
LEMMA CountKeeps == ASSUME IInv, NEW t \in Threads, Count(t) PROVE IInv'
<1>. DEFINE s == String(mem[Of[t]], 1)
            dots == {i \in 1..Len(s) : s[i] = Delim}
<1>1. Size \in Nat \ {0} /\ Of[t] \in Buffers /\ mem[Of[t]] \in [1..Size -> Chars]
      /\ mem[Of[t]][Size] = Nul
  BY TextsAssumption, OfAssumption DEF IInv, TypeOK
<1>2. Len(s) \in 0..(Size - 1)
  BY <1>1, StringType
<1>3. IsFiniteSet(dots) /\ Cardinality(dots) \in Nat
  <2>1. IsFiniteSet(1..Len(s))
    BY <1>2, FS_Interval
  <2>2. dots \in SUBSET (1..Len(s))
    OBVIOUS
  <2>. HIDE DEF dots
  <2>3. IsFiniteSet(dots)
    BY <2>1, <2>2, FS_Subset
  <2>. QED
    BY <2>3, FS_CardinalityType
<1>4. dots # {} => Max(dots) \in 0..Size
  <2>. HAVE dots # {}
  <2>1. dots \subseteq 0..Size
    BY <1>1, <1>2
  <2>. HIDE DEF dots
  <2>. QED
    BY <1>1, <2>1, Maximum
<1>5. /\ count' = [count EXCEPT ![t] = Cardinality(dots)]
      /\ last' = [last EXCEPT ![t] = IF dots = {} THEN 0 ELSE Max(dots)]
      /\ pc' = [pc EXCEPT ![t] = "allocate"] /\ pc[t] = "count"
      /\ UNCHANGED <<mem, olds, at, tokens, calls, text>>
  BY DEF Count
<1>. HIDE DEF dots
<1>6. count' \in [Threads -> Nat] /\ last' \in [Threads -> 0..Size]
  BY <1>1, <1>3, <1>4, <1>5, SMTT(30) DEF IInv, TypeOK
<1>7. TypeOK'
  BY <1>5, <1>6 DEF IInv, TypeOK
<1>. QED
  BY <1>5, <1>7 DEF IInv, TypeOK

LEMMA AllocateKeeps == ASSUME IInv, NEW t \in Threads, Allocate(t) PROVE IInv'
<1>1. count' \in [Threads -> Nat]
  <2>1. count[t] + (IF Trailing(t) THEN 1 ELSE 0) + 1 \in Nat
    BY DEF IInv, TypeOK
  <2>. QED BY <2>1 DEF IInv, TypeOK, Allocate
<1>2. TypeOK'
  BY <1>1 DEF IInv, TypeOK, Allocate
<1>. QED
  BY <1>2 DEF IInv, TypeOK, Allocate

LEMMA FindKeeps == ASSUME IInv, NEW t \in Threads, Find(t) PROVE IInv'
<1>. DEFINE b == From(t)[1]
            p == From(t)[2]
            S == {i \in p..Size : mem[b][i] # Delim}
            start == Min(S)
            end == Until(mem[b], start, {Delim, Nul})
<1>1. Size \in Nat \ {0} /\ b \in Buffers /\ p \in 1..Size
  <2>1. Size \in Nat \ {0} /\ pc[t] \in {"first", "next"}
    BY TextsAssumption DEF Find
  <2>2. CASE pc[t] = "first"
    BY <2>1, <2>2, OfAssumption DEF From
  <2>3. CASE pc[t] = "next"
    <3>1. olds \in Buffers \X (1..Size)
      BY <2>3 DEF IInv, TypeOK
    <3>. QED BY <2>1, <2>3, <3>1 DEF From
  <2>. QED BY <2>1, <2>2, <2>3
<1>2. mem[b] \in [1..Size -> Chars] /\ mem[b][Size] = Nul
  BY <1>1 DEF IInv, TypeOK
<1>3. start \in p..Size
  <2>1. S \subseteq 0..Size /\ Size \in S
    <3>1. Nul # Delim
      BY DEF Nul, Delim
    <3>. HIDE DEF b, p
    <3>. QED BY <1>1, <1>2, <3>1
  <2>2. Min(S) \in S
    <3>. HIDE DEF S
    <3>. QED BY <2>1, <1>1, Minimum
  <2>. QED BY <2>2
<1>4. end \in 1..Size
  <2>. HIDE DEF start, b, p
  <2>. QED BY <1>1, <1>2, <1>3, UntilInBuffer
<1>5. mem[b][end] # Nul => end < Size
  <2>. HIDE DEF end, start, b, p
  <2>. QED BY <1>1, <1>2, <1>4
<1>6. /\ at' = [at EXCEPT ![t] = [buffer |-> b, start |-> start, end |-> end,
                                  cut |-> mem[b][end] # Nul]]
      /\ pc[t] \in {"first", "next"} /\ pc' = [pc EXCEPT ![t] = "cut"]
      /\ UNCHANGED <<mem, olds, count, last, tokens, calls, text>>
  BY DEF Find
<1>. HIDE DEF end
<1>7. start \in 1..Size
  BY <1>1, <1>3
<1>. HIDE DEF start, b, p
<1>8. /\ at' \in [Threads -> [buffer : Buffers, start : 1..Size, end : 1..Size, cut : BOOLEAN]]
      /\ \A u \in Threads : at'[u].cut => at'[u].end < Size
  BY <1>1, <1>4, <1>5, <1>6, <1>7 DEF IInv, TypeOK
<1>. QED
  <2>1. TypeOK'
    BY <1>6, <1>8 DEF IInv, TypeOK
  <2>. QED
    BY <1>6, <2>1 DEF IInv, TypeOK

LEMMA CutKeeps == ASSUME IInv, NEW t \in Threads, Cut(t) PROVE IInv'
<1>1. at[t] \in [buffer : Buffers, start : 1..Size, end : 1..Size, cut : BOOLEAN]
      /\ (at[t].cut => at[t].end < Size) /\ Size \in Nat /\ Nul \in Chars
  BY TextsAssumption DEF IInv, TypeOK
<1>2. mem' \in [Buffers -> [1..Size -> Chars]] /\ \A b \in Buffers : mem'[b][Size] = Nul
  BY <1>1 DEF IInv, TypeOK, Cut
<1>3. TypeOK'
  BY <1>2 DEF IInv, TypeOK, Cut
<1>. QED
  BY <1>3 DEF IInv, TypeOK, Cut

LEMMA SaveKeeps == ASSUME IInv, NEW t \in Threads, Save(t) PROVE IInv'
<1>1. at[t] \in [buffer : Buffers, start : 1..Size, end : 1..Size, cut : BOOLEAN]
      /\ (at[t].cut => at[t].end < Size) /\ Size \in Nat
  BY TextsAssumption DEF IInv, TypeOK
<1>2. olds' \in Buffers \X (1..Size) /\ olds' # Null
  BY <1>1 DEF Save, Null
<1>3. TypeOK'
  BY <1>2 DEF IInv, TypeOK, Save
<1>. QED
  BY <1>3 DEF IInv, TypeOK, Save

LEMMA StoreKeeps == ASSUME IInv, NEW t \in Threads, Store(t) PROVE IInv'
<1>. DEFINE tok == String(mem[at[t].buffer], at[t].start)
<1>1. tok \in Seq(Chars)
  BY TextsAssumption, StringType DEF IInv, TypeOK
<1>2. CASE Len(tokens[t]) < count[t]
  <2>1. /\ pc[t] = "store" /\ pc' = [pc EXCEPT ![t] = "next"]
        /\ tokens' = [tokens EXCEPT ![t] = Append(@, tok)]
        /\ UNCHANGED <<mem, olds, count, last, at, calls, text>>
    BY <1>2 DEF Store
  <2>. HIDE DEF tok
  <2>2. /\ Append(tokens[t], tok) \in Seq(Seq(Chars))
        /\ Len(Append(tokens[t], tok)) = Len(tokens[t]) + 1
    BY <1>1, AppendProperties DEF IInv, TypeOK
  <2>4. olds # Null
    BY <2>1 DEF IInv, TypeOK
  <2>. QED
    <3>1. tokens' \in [Threads -> Seq(Seq(Chars))]
      BY <2>1, <2>2 DEF IInv, TypeOK
    <3>2. TypeOK'
      BY <2>1, <2>4, <3>1 DEF IInv, TypeOK
    <3>. QED
      BY <2>1, <2>2, <3>2 DEF IInv, TypeOK
<1>3. CASE ~(Len(tokens[t]) < count[t])
  <2>1. TypeOK'
    BY <1>3 DEF IInv, TypeOK, Store
  <2>. QED
    BY <1>3, <2>1 DEF IInv, TypeOK, Store
<1>. QED BY <1>2, <1>3

LEMMA EndKeeps == ASSUME IInv, NEW t \in Threads, End(t) PROVE IInv'
<1>1. TypeOK'
  BY DEF IInv, TypeOK, End
<1>2. /\ pc' = [pc EXCEPT ![t] = IF Len(tokens[t]) = count[t] - 1 THEN "done" ELSE "aborted"]
      /\ UNCHANGED tokens
  BY DEF End
<1>. QED
  BY <1>1, <1>2 DEF IInv, TypeOK

LEMMA AgainKeeps == ASSUME IInv, NEW t \in Threads, Again(t) PROVE IInv'
<1>1. PICK s \in Texts : /\ text' = [text EXCEPT ![t] = s]
                         /\ mem' = [mem EXCEPT ![Of[t]] = Copied(@, s)]
  BY DEF Again
<1>2. Of[t] \in Buffers /\ MaxCalls \in Nat
  BY OfAssumption, TextsAssumption
<1>3. /\ Copied(mem[Of[t]], s) \in [1..Size -> Chars]
      /\ Copied(mem[Of[t]], s)[Size] = Nul
  BY <1>2, CopiedType DEF IInv, TypeOK
<1>4. mem' \in [Buffers -> [1..Size -> Chars]] /\ \A b \in Buffers : mem'[b][Size] = Nul
  BY <1>1, <1>2, <1>3 DEF IInv, TypeOK
<1>5. calls' \in [Threads -> 1..MaxCalls] /\ text' \in [Threads -> Texts]
  BY <1>1, <1>2 DEF IInv, TypeOK, Again
<1>6. tokens' \in [Threads -> Seq(Seq(Chars))] /\ tokens' = [tokens EXCEPT ![t] = <<>>]
  BY EmptySeq DEF IInv, TypeOK, Again
<1>. QED
  <2>1. TypeOK'
    BY <1>4, <1>5, <1>6 DEF IInv, TypeOK, Again
  <2>. QED
    BY <1>6, <2>1 DEF IInv, TypeOK, Again

LEMMA StepKeeps == IInv /\ [Next]_vars => IInv'
<1>. SUFFICES ASSUME IInv, [Next]_vars PROVE IInv'
  OBVIOUS
<1>1. ASSUME NEW t \in Threads, Step(t) PROVE IInv'
  BY <1>1, CountKeeps, AllocateKeeps, FindKeeps, CutKeeps, SaveKeeps, StoreKeeps,
     EndKeeps, AgainKeeps DEF Step
<1>2. CASE UNCHANGED vars
  BY <1>2 DEF vars, IInv, TypeOK
<1>. QED
  BY <1>1, <1>2 DEF Next

\* No thread reads or writes outside a buffer, or leaves strtok's pointer there.
THEOREM TypeCorrect == Spec => []TypeOK
<1>1. IInv => TypeOK
  BY DEF IInv
<1>. QED
  BY InitEstablishes, StepKeeps, <1>1, PTL DEF Spec

-----------------------------------------------------------------------------
(* One thread alone. *)

\* The delimiters of s.
Dots(s) == {i \in 1..Len(s) : s[i] = Delim}

\* The delimiters before p that end a token: those behind another character.
Ends(s, p) == {i \in 1..(p - 1) : s[i] = Delim /\ i > 1 /\ s[i - 1] # Delim}

\* Before p no element is empty.
Clean(s, p) == \A i \in 1..(p - 1) : s[i] = Delim => i \in Ends(s, p)

\* The buffer has the text s, cut at the tokens that end before p.
Holds(b, s, p) ==
  /\ b[Len(s) + 1] = Nul
  /\ \A i \in 1..Len(s) : b[i] = IF i \in Ends(s, p) THEN Nul ELSE s[i]

\* From p on the next token of s is from start to end - 1, or there is none.
Found(s, p, start, end) ==
  /\ start \in p..(Len(s) + 1) /\ end \in start..(Len(s) + 1)
  /\ \A i \in p..(start - 1) : s[i] = Delim
  /\ \A i \in start..(end - 1) : s[i] # Delim
  /\ end <= Len(s) => s[end] = Delim
  /\ start <= Len(s) => start < end

\* The texts of toks with a delimiter between each two are r.
JoinsTo(toks, r) ==
  \E j \in [1..Len(toks) -> Seq(Chars)] :
    /\ j[1] = toks[1] /\ j[Len(toks)] = r
    /\ \A i \in 2..Len(toks) : j[i] = j[i - 1] \o <<Delim>> \o toks[i]

\* The first element of s ends at e, which is before p or the end of the text.
FirstEnds(s, p, e) ==
  /\ \A i \in 1..(e - 1) : s[i] # Delim
  /\ e \in Ends(s, p) \/ (e = p /\ p = Len(s) + 1)

\* The first of toks is the first element of s.
FirstStored(s, p, toks) ==
  \E e \in 2..p : FirstEnds(s, p, e) /\ toks[1] = SubSeq(s, 1, e - 1)

\* What strtok has found in s before p, where it will go on.
Tokens(s, p, toks) ==
  /\ p \in 1..(Len(s) + 1)
  /\ toks = <<>> <=> p = 1
  /\ p > 1 => p - 1 \in Ends(s, p) \/ (p = Len(s) + 1 /\ s[p - 1] # Delim)
  /\ Len(toks) = Cardinality(Ends(s, p)) + (IF p > 1 /\ s[p - 1] # Delim THEN 1 ELSE 0)
  /\ p > 1 /\ Clean(s, p) =>
       JoinsTo(toks, SubSeq(s, 1, IF s[p - 1] = Delim THEN p - 2 ELSE p - 1))
  /\ p > 1 /\ s[1] # Delim => FirstStored(s, p, toks)

\* The size of the array for s.
Allocated(s) ==
  Cardinality(Dots(s)) + (IF Len(s) = 0 \/ s[Len(s)] # Delim THEN 1 ELSE 0) + 1

\* Where strtok will go on behind the token a.
After(a) == IF a.cut THEN a.end + 1 ELSE a.end

\* Where a thread is that runs alone.
Phase(t) ==
  LET s == text[t]   b == mem[Of[t]]
  IN /\ pc[t] \in {"count", "allocate", "first"} => Holds(b, s, 1) /\ tokens[t] = <<>>
     /\ pc[t] = "allocate" => /\ count[t] = Cardinality(Dots(s))
                              /\ last[t] = IF Dots(s) = {} THEN 0 ELSE Max(Dots(s))
     /\ pc[t] \in {"first", "cut", "save", "store", "next", "end"} => count[t] = Allocated(s)
     /\ pc[t] = "next" => /\ olds[1] = Of[t]
                          /\ Holds(b, s, olds[2]) /\ Tokens(s, olds[2], tokens[t])
     /\ pc[t] \in {"cut", "save", "store", "end"} =>
          /\ at[t].buffer = Of[t] /\ (at[t].cut <=> at[t].end <= Len(s))
          /\ \E p \in 1..(Len(s) + 1) :
               /\ Tokens(s, p, tokens[t]) /\ Found(s, p, at[t].start, at[t].end)
               /\ Holds(b, s, IF pc[t] = "cut" THEN p ELSE After(at[t]))
     /\ pc[t] = "store" => at[t].start < at[t].end /\ olds = <<Of[t], After(at[t])>>
     /\ pc[t] = "end" => at[t].start = at[t].end
     /\ pc[t] = "done" => /\ s \in {Join(tokens[t]), Append(Join(tokens[t]), Delim)}
                          /\ String(b, 1) = tokens[t][1] /\ Splittable(s)
     /\ pc[t] = "aborted" => ~Splittable(s)

\* No other thread has begun, and then the thread is where it would be alone.
Alone(t) == \A u \in Threads \ {t} : ~Begun(u)
AloneInv == \A t \in Threads : Alone(t) => Phase(t)

LEMMA OfText ==
  ASSUME NEW s \in Texts
  PROVE  /\ Size \in Nat \ {0} /\ Len(s) \in 0..(Size - 1) /\ Nul \in Chars
         /\ s \in Seq(Chars) /\ \A i \in 1..Len(s) : s[i] \in Chars /\ s[i] # Nul
<1>1. s \in Seq(Chars \ {Nul}) /\ Len(s) < Size /\ Size \in Nat \ {0} /\ Nul \in Chars
  BY TextsAssumption
<1>2. Len(s) \in Nat /\ \A i \in 1..Len(s) : s[i] \in Chars \ {Nul}
  BY <1>1, LenProperties, ElementOfSeq
<1>3. s \in Seq(Chars)
  BY <1>1, SeqMonotonic
<1>. QED BY <1>1, <1>2, <1>3

\* The place where something stops is the first one.
LEMMA UntilIs ==
  ASSUME Size \in Nat, NEW b \in [1..Size -> Chars], NEW p \in 1..Size, NEW stop,
         NEW e \in p..Size, b[e] \in stop, \A i \in p..(e - 1) : b[i] \notin stop
  PROVE  Until(b, p, stop) = e
<1>1. Len(b) = Size
  BY LenProperties
<1>2. PICK S : S = {i \in p..Size : b[i] \in stop}
  OBVIOUS
<1>3. S \subseteq 0..Size /\ e \in S /\ \A i \in S : e <= i
  BY <1>2
<1>4. Min(S) \in S /\ \A y \in S : Min(S) <= y
  BY <1>3, Minimum
<1>5. PICK m : m = Min(S)
  OBVIOUS
<1>6. m \in p..Size
  BY <1>2, <1>4, <1>5
<1>7. m = e
  BY <1>3, <1>4, <1>5, <1>6
<1>. QED
  BY <1>1, <1>2, <1>5, <1>7 DEF Until

\* strcpy puts the whole text into the buffer.
LEMMA CopiedHolds ==
  ASSUME NEW b, NEW s \in Texts
  PROVE  Holds(Copied(b, s), s, 1)
<1>1. Len(s) \in 0..(Size - 1) /\ Size \in Nat
  BY OfText
<1>2. Ends(s, 1) = {}
  BY DEF Ends
<1>. QED
  BY <1>1, <1>2 DEF Copied, Holds

\* The text from a place on where nothing is cut before the place where it is.
LEMMA StringIs ==
  ASSUME NEW s \in Texts, NEW b \in [1..Size -> Chars], NEW p, Holds(b, s, p),
         NEW start \in 1..(Len(s) + 1), NEW end \in start..(Len(s) + 1), b[end] = Nul,
         \A i \in start..(end - 1) : i \notin Ends(s, p)
  PROVE  String(b, start) = SubSeq(s, start, end - 1)
<1>1. /\ Len(s) \in 0..(Size - 1) /\ Size \in Nat
      /\ \A i \in 1..Len(s) : s[i] \in Chars /\ s[i] # Nul
  BY OfText
<1>2. \A i \in start..(end - 1) : b[i] = s[i]
  BY <1>1 DEF Holds
<1>3. Until(b, start, {Nul}) = end
  <2>1. \A i \in start..(end - 1) : b[i] \notin {Nul}
    BY <1>1, <1>2
  <2>2. start \in 1..Size /\ end \in start..Size
    BY <1>1
  <2>3. b[end] \in {Nul}
    OBVIOUS
  <2>. QED BY <1>1, <2>1, <2>2, <2>3, UntilIs
<1>4. \A i \in start..(end - 1) : s[i] \in Chars /\ b[i] \in Chars
  BY <1>1, <1>2
<1>5. start \in Int /\ end - 1 \in Int
  OBVIOUS
<1>. DEFINE e == end - 1
<1>6. String(b, start) = SubSeq(b, start, e)
  BY <1>3 DEF String
<1>7. \A i \in start..e : s[i] \in Chars /\ b[i] \in Chars /\ b[i] = s[i]
  BY <1>2, <1>4
<1>8. e \in Int
  BY <1>5
<1>. HIDE DEF e
<1>9. /\ SubSeq(b, start, e) \in Seq(Chars)
      /\ Len(SubSeq(b, start, e)) = IF start <= e THEN e - start + 1 ELSE 0
      /\ \A i \in 1..(e - start + 1) : SubSeq(b, start, e)[i] = b[start + i - 1]
  BY <1>5, <1>7, <1>8, SubSeqProperties
<1>10. /\ SubSeq(s, start, e) \in Seq(Chars)
       /\ Len(SubSeq(s, start, e)) = IF start <= e THEN e - start + 1 ELSE 0
       /\ \A i \in 1..(e - start + 1) : SubSeq(s, start, e)[i] = s[start + i - 1]
  BY <1>5, <1>7, <1>8, SubSeqProperties
<1>11. PICK v, w : v = SubSeq(b, start, e) /\ w = SubSeq(s, start, e)
  OBVIOUS
<1>12. Len(v) = Len(w) /\ v \in Seq(Chars) /\ w \in Seq(Chars)
  BY <1>9, <1>10, <1>11
<1>13. \A i \in 1..Len(v) : v[i] = w[i]
  BY <1>5, <1>7, <1>8, <1>9, <1>10, <1>11
<1>14. v = w
  BY <1>12, <1>13, SeqEqual
<1>. QED BY <1>6, <1>11, <1>14 DEF e

\* A text of which nothing is cut.
LEMMA WholeString ==
  ASSUME NEW s \in Texts, NEW b \in [1..Size -> Chars], Holds(b, s, 1)
  PROVE  String(b, 1) = s
<1>1. Len(s) \in Nat /\ s \in Seq(Chars)
  BY OfText
<1>2. Ends(s, 1) = {}
  BY DEF Ends
<1>3. b[Len(s) + 1] = Nul
  BY DEF Holds
<1>4. 1 \in 1..(Len(s) + 1) /\ Len(s) + 1 \in 1..(Len(s) + 1) /\ (Len(s) + 1) - 1 = Len(s)
  BY <1>1
<1>5. String(b, 1) = SubSeq(s, 1, (Len(s) + 1) - 1)
  BY <1>2, <1>3, <1>4, StringIs
<1>. QED
  BY <1>1, <1>4, <1>5, SubSeqFull

-----------------------------------------------------------------------------
(* strtok on a text. *)

\* The token that strtok finds from p on is the next one of the text.
LEMMA FindsNext ==
  ASSUME NEW s \in Texts, NEW b \in [1..Size -> Chars], b[Size] = Nul,
         NEW p \in 1..(Len(s) + 1), Holds(b, s, p),
         NEW start, start = Min({i \in p..Size : b[i] # Delim}),
         NEW end, end = Until(b, start, {Delim, Nul})
  PROVE  Found(s, p, start, end) /\ (b[end] # Nul <=> end <= Len(s))
<1>1. Len(s) \in 0..(Size - 1) /\ Size \in Nat \ {0} /\ \A i \in 1..Len(s) : s[i] # Nul
  BY OfText
<1>2. b[Len(s) + 1] = Nul /\ \A i \in p..Len(s) : b[i] = s[i]
  BY <1>1 DEF Holds, Ends
<1>3. Nul # Delim
  BY DEF Nul, Delim
<1>4. PICK S : S = {i \in p..Size : b[i] # Delim}
  OBVIOUS
<1>5. S \subseteq 0..Size /\ Len(s) + 1 \in S
  BY <1>1, <1>2, <1>3, <1>4
<1>6. start \in S /\ \A y \in S : start <= y
  <2>1. start = Min(S) /\ S # {} /\ Size \in Nat
    BY <1>1, <1>4, <1>5
  <2>2. Min(S) \in S /\ \A y \in S : Min(S) <= y
    BY ONLY <1>5, <2>1, Minimum
  <2>. QED BY <2>1, <2>2
<1>7. start \in p..(Len(s) + 1) /\ \A i \in p..(start - 1) : s[i] = Delim
  <2>1. start \in p..(Len(s) + 1)
    BY <1>1, <1>4, <1>5, <1>6
  <2>2. ASSUME NEW i \in p..(start - 1) PROVE s[i] = Delim
    <3>1. i \in p..Size /\ i \in p..Len(s) /\ ~(start <= i)
      BY <1>1, <2>1
    <3>2. i \notin S
      BY <1>6, <3>1
    <3>. QED BY <1>2, <1>4, <3>1, <3>2
  <2>. QED BY <2>1, <2>2
<1>8. start <= Len(s) => s[start] # Delim
  BY <1>1, <1>2, <1>4, <1>6, <1>7
<1>9. Len(b) = Size
  BY <1>1
<1>10. PICK E : E = {i \in start..Size : b[i] \in {Delim, Nul}}
  OBVIOUS
<1>11. E \subseteq 0..Size /\ Len(s) + 1 \in E
  <2>1. start \in Nat /\ Len(s) + 1 \in start..Size
    BY <1>1, <1>7
  <2>2. E \subseteq start..Size
    BY <1>10
  <2>3. b[Len(s) + 1] \in {Delim, Nul}
    BY <1>2
  <2>4. Len(s) + 1 \in E
    BY <1>10, <2>1, <2>3
  <2>. QED BY <2>1, <2>2, <2>4
<1>12. end \in E /\ \A y \in E : end <= y
  <2>1. end = Min(E) /\ E # {} /\ Size \in Nat
    BY <1>1, <1>9, <1>10, <1>11 DEF Until
  <2>2. Min(E) \in E /\ \A y \in E : Min(E) <= y
    BY ONLY <1>11, <2>1, Minimum
  <2>. QED BY <2>1, <2>2
<1>13. end \in start..(Len(s) + 1) /\ b[end] \in {Delim, Nul}
  <2>1. end \in start..Size /\ b[end] \in {Delim, Nul}
    BY <1>10, <1>12
  <2>2. end <= Len(s) + 1
    BY <1>11, <1>12
  <2>. QED BY <1>1, <1>7, <2>1, <2>2
<1>14. \A i \in start..(end - 1) : s[i] # Delim
  <2>. SUFFICES ASSUME NEW i \in start..(end - 1), s[i] = Delim PROVE FALSE
    OBVIOUS
  <2>1. i \in p..Len(s) /\ i \in start..Size
    BY <1>1, <1>7, <1>13
  <2>2. b[i] = Delim
    BY <1>2, <2>1
  <2>3. i \in E
    BY <1>10, <2>1, <2>2
  <2>4. end <= i
    BY <1>12, <2>3
  <2>. QED BY <2>4, <1>7, <1>13
<1>15. end <= Len(s) => s[end] = Delim /\ b[end] # Nul
  <2>. HAVE end <= Len(s)
  <2>1. end \in p..Len(s) /\ end \in 1..Len(s)
    BY <1>1, <1>7, <1>13
  <2>. QED BY <1>1, <1>2, <1>13, <2>1
<1>16. end > Len(s) => b[end] = Nul
  BY <1>1, <1>2, <1>7, <1>13
<1>17. start <= Len(s) => start < end
  <2>. HAVE start <= Len(s)
  <2>1. end # start
    BY <1>8, <1>15
  <2>. QED BY <1>7, <1>13, <2>1
<1>18. start \in Int /\ end \in Int /\ Len(s) \in Int
  BY <1>1, <1>7, <1>13
<1>19. Found(s, p, start, end)
  BY <1>7, <1>13, <1>14, <1>15, <1>17 DEF Found
<1>20. b[end] # Nul <=> end <= Len(s)
  BY <1>15, <1>16, <1>18
<1>. QED BY <1>19, <1>20

\* What lies between two places where strtok goes on: idle delimiters, one token
\* and perhaps the delimiter that ends it.
LEMMA EndsGrow ==
  ASSUME NEW s \in Texts, NEW p \in 1..(Len(s) + 1), p = 1 \/ p = Len(s) + 1 \/ s[p - 1] = Delim,
         NEW start, NEW end, Found(s, p, start, end),
         NEW q, q = IF end <= Len(s) THEN end + 1 ELSE end
  PROVE  Ends(s, q) = Ends(s, p) \cup (IF end <= Len(s) THEN {end} ELSE {})
<1>1. Len(s) \in Nat
  BY OfText
<1>2. start \in p..(Len(s) + 1) /\ end \in start..(Len(s) + 1) /\ q \in p..(Len(s) + 1)
  BY <1>1 DEF Found
<1>3. ASSUME NEW i \in p..(start - 1) PROVE i \notin Ends(s, q)
  <2>1. i = 1 \/ (i = p /\ p > 1) \/ i - 1 \in p..(start - 1)
    BY <1>1, <1>2
  <2>2. CASE i = 1
    BY <2>2 DEF Ends
  <2>3. CASE i = p /\ p > 1
    <3>1. s[i - 1] = Delim
      BY <1>1, <1>2, <2>3
    <3>. QED BY <3>1 DEF Ends
  <2>4. CASE i - 1 \in p..(start - 1)
    BY <2>4 DEF Ends, Found
  <2>. QED BY <2>1, <2>2, <2>3, <2>4
<1>4. ASSUME NEW i \in start..(end - 1) PROVE i \notin Ends(s, q)
  BY DEF Ends, Found
<1>5. ASSUME end <= Len(s) PROVE end \in Ends(s, q)
  <2>1. start < end /\ s[end] = Delim
    BY <1>1, <1>2, <1>5 DEF Found
  <2>2. end - 1 \in start..(end - 1) /\ end > 1 /\ end \in 1..(q - 1)
    BY <1>1, <1>2, <1>5, <2>1
  <2>3. s[end - 1] # Delim
    BY <2>2 DEF Found
  <2>. QED BY <2>1, <2>2, <2>3 DEF Ends
<1>6. ASSUME NEW i PROVE i \in Ends(s, q) <=> i \in Ends(s, p) \/ (end <= Len(s) /\ i = end)
  <2>1. CASE i \in 1..(p - 1)
    BY <1>1, <1>2, <2>1 DEF Ends
  <2>2. CASE i \in p..(q - 1)
    <3>1. i \in p..(start - 1) \/ i \in start..(end - 1) \/ (end <= Len(s) /\ i = end)
      BY <1>1, <1>2, <2>2
    <3>2. i \notin Ends(s, p)
      BY <1>1, <2>2 DEF Ends
    <3>3. end <= Len(s) => end \notin start..(end - 1) /\ end \notin p..(start - 1)
      BY <1>1, <1>2
    <3>. QED BY <1>3, <1>4, <1>5, <3>1, <3>2, <3>3
  <2>3. CASE i \notin 1..(q - 1)
    <3>1. i \notin Ends(s, q)
      BY <2>3 DEF Ends
    <3>2. i \notin Ends(s, p)
      BY <1>1, <1>2, <2>3 DEF Ends
    <3>3. end <= Len(s) => end \in 1..(q - 1)
      BY <1>1, <1>2
    <3>. QED BY <2>3, <3>1, <3>2, <3>3
  <2>. QED BY <1>1, <1>2, <2>1, <2>2, <2>3
<1>. QED
  BY <1>6

\* The cut of a token leaves the buffer as it is at the place where strtok goes on.
LEMMA CutHolds ==
  ASSUME NEW s \in Texts, NEW b \in [1..Size -> Chars],
         NEW p \in 1..(Len(s) + 1), p = 1 \/ p = Len(s) + 1 \/ s[p - 1] = Delim,
         Holds(b, s, p), NEW start, NEW end, Found(s, p, start, end),
         NEW q, q = IF end <= Len(s) THEN end + 1 ELSE end,
         NEW c, c = IF end <= Len(s) THEN [b EXCEPT ![end] = Nul] ELSE b
  PROVE  Holds(c, s, q)
<1>1. Len(s) \in 0..(Size - 1) /\ Size \in Nat
  BY OfText
<1>2. end \in 1..(Len(s) + 1)
  BY <1>1 DEF Found
<1>3. Ends(s, q) = Ends(s, p) \cup (IF end <= Len(s) THEN {end} ELSE {})
  BY EndsGrow
<1>4. b[Len(s) + 1] = Nul /\ \A i \in 1..Len(s) : b[i] = IF i \in Ends(s, p) THEN Nul ELSE s[i]
  BY DEF Holds
<1>5. CASE end <= Len(s)
  <2>1. \A i \in 1..Size : c[i] = IF i = end THEN Nul ELSE b[i]
    BY <1>5
  <2>2. \A i \in 1..Size : i \in Ends(s, q) <=> i \in Ends(s, p) \/ i = end
    BY <1>3, <1>5
  <2>3. c[Len(s) + 1] = Nul
    BY <1>1, <1>4, <1>5, <2>1
  <2>4. \A i \in 1..Len(s) : c[i] = IF i \in Ends(s, q) THEN Nul ELSE s[i]
    BY <1>1, <1>4, <2>1, <2>2
  <2>. QED BY <2>3, <2>4 DEF Holds
<1>6. CASE ~(end <= Len(s))
  <2>1. c = b /\ Ends(s, q) = Ends(s, p)
    BY <1>3, <1>6
  <2>. QED BY <1>4, <2>1 DEF Holds
<1>. QED BY <1>5, <1>6

\* The delimiters are finitely many, and not all of them need end a token.
LEMMA EndsFinite ==
  ASSUME NEW s \in Texts, NEW p \in 1..(Len(s) + 1)
  PROVE  /\ Ends(s, p) \subseteq Dots(s) /\ IsFiniteSet(Dots(s)) /\ IsFiniteSet(Ends(s, p))
         /\ Cardinality(Dots(s)) \in Nat /\ Cardinality(Ends(s, p)) \in Nat
         /\ Cardinality(Ends(s, p)) <= Cardinality(Dots(s))
         /\ Cardinality(Ends(s, p)) = Cardinality(Dots(s)) => Ends(s, p) = Dots(s)
<1>1. Len(s) \in Nat
  BY OfText
<1>2. Ends(s, p) \subseteq Dots(s)
  BY <1>1 DEF Ends, Dots
<1>3. PICK D, E : D = Dots(s) /\ E = Ends(s, p)
  OBVIOUS
<1>4. D \subseteq 1..Len(s) /\ E \subseteq D
  BY <1>2, <1>3 DEF Dots
<1>5. IsFiniteSet(1..Len(s))
  BY <1>1, FS_Interval
<1>6. IsFiniteSet(D)
  BY <1>4, <1>5, FS_Subset
<1>7. /\ IsFiniteSet(E) /\ Cardinality(E) <= Cardinality(D)
      /\ Cardinality(E) = Cardinality(D) => E = D
  BY <1>4, <1>6, FS_Subset
<1>8. Cardinality(D) \in Nat /\ Cardinality(E) \in Nat
  BY <1>6, <1>7, FS_CardinalityType
<1>. QED BY <1>2, <1>3, <1>6, <1>7, <1>8

\* Where strtok goes on is where it began, the end of the text, or behind a delimiter.
LEMMA TokensPlace ==
  ASSUME NEW s \in Texts, NEW p, NEW toks, Tokens(s, p, toks)
  PROVE  p \in 1..(Len(s) + 1) /\ (p = 1 \/ p = Len(s) + 1 \/ s[p - 1] = Delim)
<1>1. p \in 1..(Len(s) + 1) /\ (p > 1 => p - 1 \in Ends(s, p) \/ p = Len(s) + 1)
  BY DEF Tokens
<1>2. p - 1 \in Ends(s, p) => s[p - 1] = Delim
  BY DEF Ends
<1>. QED BY <1>1, <1>2, OfText

\* The array has room for the token and the null.
LEMMA TokenFits ==
  ASSUME NEW s \in Texts, NEW p, NEW toks, Tokens(s, p, toks),
         NEW start, NEW end, Found(s, p, start, end), start < end
  PROVE  Len(toks) < Allocated(s)
<1>1. Len(s) \in Nat /\ p \in 1..(Len(s) + 1)
  BY OfText, TokensPlace
<1>2. start \in p..(Len(s) + 1) /\ end <= Len(s) + 1 /\ end \in Int
  BY <1>1 DEF Found
<1>3. p > 1 => s[p - 1] = Delim
  <2>1. p # Len(s) + 1
    BY <1>1, <1>2
  <2>. QED BY <2>1, TokensPlace
<1>4. Len(toks) = Cardinality(Ends(s, p))
  <2>1. Len(toks) = Cardinality(Ends(s, p)) + (IF p > 1 /\ s[p - 1] # Delim THEN 1 ELSE 0)
    BY DEF Tokens
  <2>2. Cardinality(Ends(s, p)) \in Nat
    BY <1>1, EndsFinite
  <2>. QED BY <1>3, <2>1, <2>2
<1>5. /\ Cardinality(Ends(s, p)) \in Nat /\ Cardinality(Dots(s)) \in Nat
      /\ Cardinality(Ends(s, p)) <= Cardinality(Dots(s))
  BY <1>1, EndsFinite
<1>. QED BY <1>4, <1>5 DEF Allocated

\* One token more in a sequence that joins to r.
LEMMA JoinsOn ==
  ASSUME NEW toks \in Seq(Seq(Chars)), Len(toks) \in Nat \ {0}, NEW tok \in Seq(Chars),
         NEW r, JoinsTo(toks, r), NEW x, x = (r \o <<Delim>>) \o tok, x \in Seq(Chars)
  PROVE  JoinsTo(Append(toks, tok), x)
<1>. DEFINE n == Len(toks)
<1>1. PICK j \in [1..n -> Seq(Chars)] :
        j[1] = toks[1] /\ j[n] = r /\ \A i \in 2..n : j[i] = j[i - 1] \o <<Delim>> \o toks[i]
  BY DEF JoinsTo
<1>2. PICK ts : ts = Append(toks, tok)
  OBVIOUS
<1>3. Len(ts) = n + 1 /\ (\A i \in 1..n : ts[i] = toks[i]) /\ ts[n + 1] = tok
  BY <1>2, AppendProperties
<1>. HIDE DEF n
<1>4. n \in Nat \ {0}
  BY DEF n
<1>5. PICK k : k = [i \in 1..(n + 1) |-> IF i = n + 1 THEN x ELSE j[i]]
  OBVIOUS
<1>6. k \in [1..(n + 1) -> Seq(Chars)]
  BY <1>4, <1>5
<1>7. k[n + 1] = x /\ \A i \in 1..n : k[i] = j[i]
  BY <1>4, <1>5
<1>8. k[1] = ts[1]
  BY <1>1, <1>3, <1>4, <1>7
<1>9. ASSUME NEW i \in 2..(n + 1) PROVE k[i] = k[i - 1] \o <<Delim>> \o ts[i]
  <2>1. CASE i = n + 1
    <3>1. i - 1 = n /\ n \in 1..n
      BY <1>4, <2>1
    <3>2. k[i] = x /\ k[i - 1] = r /\ ts[i] = tok
      BY <1>1, <1>3, <1>7, <2>1, <3>1
    <3>. QED BY <3>2
  <2>2. CASE i # n + 1
    <3>1. i \in 2..n /\ i \in 1..n /\ i - 1 \in 1..n
      BY <1>4, <2>2
    <3>. QED BY <1>1, <1>3, <1>7, <3>1
  <2>. QED BY <2>1, <2>2
<1>10. \A i \in 2..Len(ts) : k[i] = k[i - 1] \o <<Delim>> \o ts[i]
  BY <1>3, <1>9
<1>11. JoinsTo(ts, x)
  BY <1>3, <1>6, <1>7, <1>8, <1>10 DEF JoinsTo
<1>. QED BY <1>2, <1>11

LEMMA JoinsOne ==
  ASSUME NEW tok \in Seq(Chars)
  PROVE  JoinsTo(Append(<<>>, tok), tok)
<1>1. PICK ts : ts = Append(<<>>, tok)
  OBVIOUS
<1>2. Len(ts) = 1 /\ ts[1] = tok
  BY <1>1
<1>3. PICK k : k = [i \in 1..1 |-> tok]
  OBVIOUS
<1>4. k \in [1..1 -> Seq(Chars)] /\ k[1] = tok
  BY <1>3
<1>5. \A i \in 2..1 : k[i] = k[i - 1] \o <<Delim>> \o ts[i]
  OBVIOUS
<1>. QED BY <1>1, <1>2, <1>4, <1>5 DEF JoinsTo

\* Join of the tokens is what they join to.
LEMMA JoinIs ==
  ASSUME NEW toks \in Seq(Seq(Chars)), Len(toks) \in Nat \ {0}, NEW r, JoinsTo(toks, r)
  PROVE  Join(toks) = r
<1>1. PICK n : n = Len(toks)
  OBVIOUS
<1>2. PICK j \in [1..n -> Seq(Chars)] :
        j[1] = toks[1] /\ j[n] = r /\ \A i \in 2..n : j[i] = j[i - 1] \o <<Delim>> \o toks[i]
  BY <1>1 DEF JoinsTo
<1>3. n \in Nat \ {0}
  BY <1>1
<1>. DEFINE Joins(g) == g = [i \in 0..n |-> IF i = 0 THEN <<>> ELSE IF i = 1 THEN toks[1]
                                            ELSE g[i - 1] \o <<Delim>> \o toks[i]]
            joined == CHOOSE g : Joins(g)
<1>4. Join(toks) = joined[n]
  BY <1>1 DEF Join
<1>5. PICK e : e = [i \in 0..n |-> IF i = 0 THEN <<>> ELSE j[i]]
  OBVIOUS
<1>6. ASSUME NEW i \in 0..n
      PROVE  e[i] = IF i = 0 THEN <<>> ELSE IF i = 1 THEN toks[1]
                    ELSE e[i - 1] \o <<Delim>> \o toks[i]
  <2>1. CASE i \in {0, 1}
    BY <1>2, <1>5, <2>1
  <2>2. CASE i \notin {0, 1}
    <3>1. i \in 2..n /\ i - 1 \in 0..n /\ i - 1 # 0
      BY <1>3, <2>2
    <3>2. e[i] = j[i] /\ e[i - 1] = j[i - 1]
      BY <1>5, <2>2, <3>1
    <3>. QED BY <1>2, <2>2, <3>1, <3>2
  <2>. QED BY <2>1, <2>2
<1>7. Joins(e)
  <2>1. e = [i \in 0..n |-> e[i]]
    BY <1>5
  <2>. QED BY <1>6, <2>1
<1>8. Joins(joined)
  <2> HIDE DEF Joins
  <2> QED BY <1>7
<1>9. PICK g : g = joined
  OBVIOUS
<1>. HIDE DEF joined
<1>10. g = [i \in 0..n |-> IF i = 0 THEN <<>> ELSE IF i = 1 THEN toks[1]
                           ELSE g[i - 1] \o <<Delim>> \o toks[i]]
  BY <1>8, <1>9
<1>. HIDE DEF Joins
<1>11. PICK T : T = {i \in 0..n : i = 0 \/ g[i] = j[i]}
  OBVIOUS
<1>12. ASSUME NEW k \in 0..(n - 1), k \in T PROVE k + 1 \in T
  <2>1. k + 1 \in 0..n /\ (k + 1) - 1 = k /\ k + 1 # 0
    BY <1>3
  <2>2. g[k + 1] = IF k + 1 = 1 THEN toks[1] ELSE g[(k + 1) - 1] \o <<Delim>> \o toks[k + 1]
    BY <1>10, <2>1
  <2>3. CASE k = 0
    BY <1>2, <1>11, <2>1, <2>2, <2>3
  <2>4. CASE k # 0
    <3>1. k + 1 \in 2..n /\ k + 1 # 1
      BY <1>3, <2>1, <2>4
    <3>2. g[k] = j[k]
      BY <1>11, <1>12, <2>4
    <3>3. j[k + 1] = j[k] \o <<Delim>> \o toks[k + 1]
      BY <1>2, <2>1, <3>1
    <3>4. g[k + 1] = j[k + 1]
      BY <2>1, <2>2, <3>1, <3>2, <3>3
    <3>. QED BY <1>11, <2>1, <3>4
  <2>. QED BY <2>3, <2>4
<1>13. n \in T
  <2>1. 0 \in T /\ \A k \in 0..(n - 1) : k \in T => k + 1 \in T
    BY <1>3, <1>11, <1>12
  <2>2. 0..n \subseteq T
    BY <1>3, <2>1, InductionUpTo
  <2>. QED BY <1>3, <2>2
<1>. QED BY <1>2, <1>3, <1>4, <1>9, <1>11, <1>13

\* A token more: the parts of Tokens at the place behind it.
LEMMA TokensJoin ==
  ASSUME NEW s \in Texts, NEW p, NEW toks \in Seq(Seq(Chars)), Tokens(s, p, toks),
         NEW start, NEW end, Found(s, p, start, end), start < end,
         NEW q, q = IF end <= Len(s) THEN end + 1 ELSE end, Clean(s, q),
         NEW tok, tok = SubSeq(s, start, end - 1)
  PROVE  JoinsTo(Append(toks, tok), SubSeq(s, 1, end - 1))
<1>1. /\ Len(s) \in Nat /\ s \in Seq(Chars) /\ (\A i \in 1..Len(s) : s[i] \in Chars)
      /\ p \in 1..(Len(s) + 1) /\ (p = 1 \/ p = Len(s) + 1 \/ s[p - 1] = Delim)
  BY OfText, TokensPlace
<1>2. start \in p..(Len(s) + 1) /\ end \in start..(Len(s) + 1) /\ p # Len(s) + 1 /\ start <= Len(s)
  BY <1>1 DEF Found
<1>3. Ends(s, q) = Ends(s, p) \cup (IF end <= Len(s) THEN {end} ELSE {})
  BY <1>1, EndsGrow
<1>4. start = p
  <2>. SUFFICES ASSUME start # p PROVE FALSE
    OBVIOUS
  <2>1. p \in p..(start - 1) /\ p \in 1..(q - 1) /\ p # end
    BY <1>1, <1>2
  <2>2. s[p] = Delim
    BY <2>1 DEF Found
  <2>3. p \in Ends(s, q)
    BY <2>1, <2>2 DEF Clean
  <2>4. p \in Ends(s, p)
    BY <1>3, <2>1, <2>3
  <2>. QED BY <1>1, <2>4 DEF Ends
<1>5. /\ tok \in Seq(Chars) /\ SubSeq(s, 1, end - 1) \in Seq(Chars)
      /\ SubSeq(s, 1, p - 2) \in Seq(Chars)
  <2>1. /\ \A i \in start..(end - 1) : s[i] \in Chars
        /\ \A i \in 1..(end - 1) : s[i] \in Chars
        /\ \A i \in 1..(p - 2) : s[i] \in Chars
    BY <1>1, <1>2
  <2>2. start \in Int /\ end - 1 \in Int /\ p - 2 \in Int /\ 1 \in Int
    BY <1>1, <1>2
  <2>3. PICK e, f : e = end - 1 /\ f = p - 2
    OBVIOUS
  <2>. QED BY <2>1, <2>2, <2>3, SubSeqProperties
<1>6. CASE p = 1
  <2>1. toks = <<>> /\ SubSeq(s, 1, end - 1) = tok
    BY <1>4, <1>6 DEF Tokens
  <2>. QED BY <1>5, <2>1, JoinsOne
<1>7. CASE p # 1
  <2>1. p > 1 /\ s[p - 1] = Delim
    BY <1>1, <1>2, <1>7
  <2>2. Clean(s, p)
    <3>1. \A i \in 1..(p - 1) : i \in 1..(q - 1) /\ (end <= Len(s) => i # end)
      BY <1>1, <1>2
    <3>. QED BY <1>3, <3>1 DEF Clean
  <2>3. JoinsTo(toks, SubSeq(s, 1, p - 2))
    BY <2>1, <2>2 DEF Tokens
  <2>4. Len(toks) \in Nat \ {0}
    <3>1. toks # <<>>
      BY <1>7 DEF Tokens
    <3>. QED BY <3>1, EmptySeq
  <2>5. SubSeq(s, 1, end - 1) = (SubSeq(s, 1, p - 2) \o <<Delim>>) \o tok
    <3>1. PICK e, f : e = end - 1 /\ f = p - 1
      OBVIOUS
    <3>2. e \in f..Len(s) /\ f \in 1..Len(s) /\ f + 1 = p /\ f - 1 = p - 2
      BY <1>1, <1>2, <1>4, <2>1, <3>1
    <3>3. SubSeq(s, 1, f) \o SubSeq(s, f + 1, e) = SubSeq(s, 1, e)
      <4>1. 1 \in 1..(Len(s) + 1) /\ f \in (1 - 1)..Len(s) /\ e \in f..Len(s)
        BY <1>1, <3>2
      <4>. QED BY <1>1, <4>1, ConcatAdjacentSubSeq
    <3>4. SubSeq(s, 1, f) = SubSeq(s, 1, f - 1) \o <<s[f]>>
      <4>1. 1 \in 1..Len(s) /\ f \in 1..Len(s)
        BY <1>1, <3>2
      <4>. QED BY <1>1, <4>1, SubSeqRecursiveSecond
    <3>5. s[f] = Delim
      BY <2>1, <3>1
    <3>. QED BY <1>4, <3>1, <3>2, <3>3, <3>4, <3>5
  <2>. QED BY <1>5, <2>3, <2>4, <2>5, JoinsOn
<1>. QED BY <1>6, <1>7

LEMMA TokensFirst ==
  ASSUME NEW s \in Texts, NEW p, NEW toks \in Seq(Seq(Chars)), Tokens(s, p, toks),
         NEW start, NEW end, Found(s, p, start, end), start < end,
         NEW q, q = IF end <= Len(s) THEN end + 1 ELSE end, s[1] # Delim,
         NEW tok \in Seq(Chars), tok = SubSeq(s, start, end - 1),
         NEW ts, ts = Append(toks, tok)
  PROVE  FirstStored(s, q, ts)
<1>1. /\ Len(s) \in Nat
      /\ p \in 1..(Len(s) + 1) /\ (p = 1 \/ p = Len(s) + 1 \/ s[p - 1] = Delim)
  BY OfText, TokensPlace
<1>2. start \in p..(Len(s) + 1) /\ end \in start..(Len(s) + 1) /\ p # Len(s) + 1 /\ start <= Len(s)
  BY <1>1 DEF Found
<1>3. Ends(s, q) = Ends(s, p) \cup (IF end <= Len(s) THEN {end} ELSE {})
  BY <1>1, EndsGrow
<1>4. CASE p = 1
  <2>1. start = 1
    <3>. SUFFICES ASSUME start # 1 PROVE FALSE
      OBVIOUS
    <3>1. 1 \in p..(start - 1)
      BY <1>2, <1>4
    <3>. QED BY <3>1 DEF Found
  <2>2. toks = <<>>
    BY <1>4 DEF Tokens
  <2>3. ts[1] = SubSeq(s, 1, end - 1)
    BY <2>1, <2>2
  <2>4. end \in 2..q
    BY <1>1, <1>2, <2>1
  <2>5. FirstEnds(s, q, end)
    <3>1. \A i \in 1..(end - 1) : s[i] # Delim
      BY <2>1 DEF Found
    <3>2. end \in Ends(s, q) \/ (end = q /\ q = Len(s) + 1)
      <4>1. CASE end <= Len(s)
        BY <1>3, <4>1
      <4>2. CASE ~(end <= Len(s))
        <5>1. q = end
          BY <4>2
        <5>2. end = Len(s) + 1
          BY ONLY <1>1, <1>2, <4>2
        <5>. QED BY <5>1, <5>2
      <4>. QED BY <4>1, <4>2
    <3>. QED BY <3>1, <3>2 DEF FirstEnds
  <2>. QED BY <2>3, <2>4, <2>5 DEF FirstStored
<1>5. CASE p # 1
  <2>1. PICK e \in 2..p : FirstEnds(s, p, e) /\ toks[1] = SubSeq(s, 1, e - 1)
    <3>1. p > 1
      BY <1>1, <1>5
    <3>. QED BY <3>1 DEF Tokens, FirstStored
  <2>2. toks # <<>>
    BY <1>5 DEF Tokens
  <2>3. Len(toks) \in Nat \ {0}
    BY <2>2, EmptySeq
  <2>4. ts[1] = toks[1]
    BY <2>3, AppendProperties
  <2>5. e \in Ends(s, p)
    <3>1. ~(e = p /\ p = Len(s) + 1)
      BY <1>1, <1>2
    <3>. QED BY <2>1, <3>1 DEF FirstEnds
  <2>6. FirstEnds(s, q, e)
    BY <1>3, <2>1, <2>5 DEF FirstEnds
  <2>7. e \in 2..q
    BY <1>1, <1>2
  <2>. QED BY <2>1, <2>4, <2>6, <2>7 DEF FirstStored
<1>. QED BY <1>4, <1>5

LEMMA TokensGrow ==
  ASSUME NEW s \in Texts, NEW p, NEW toks \in Seq(Seq(Chars)), Tokens(s, p, toks),
         NEW start, NEW end, Found(s, p, start, end), start < end,
         NEW q, q = IF end <= Len(s) THEN end + 1 ELSE end,
         NEW tok \in Seq(Chars), tok = SubSeq(s, start, end - 1)
  PROVE  Tokens(s, q, Append(toks, tok))
<1>1. /\ Len(s) \in Nat
      /\ p \in 1..(Len(s) + 1) /\ (p = 1 \/ p = Len(s) + 1 \/ s[p - 1] = Delim)
  BY OfText, TokensPlace
<1>2. /\ start \in p..(Len(s) + 1) /\ end \in start..(Len(s) + 1) /\ p # Len(s) + 1
      /\ start <= Len(s) /\ q \in 2..(Len(s) + 1)
  BY <1>1 DEF Found
<1>3. Ends(s, q) = Ends(s, p) \cup (IF end <= Len(s) THEN {end} ELSE {})
  BY <1>1, EndsGrow
<1>4. PICK ts : ts = Append(toks, tok)
  OBVIOUS
<1>5. Len(toks) \in Nat /\ Len(ts) = Len(toks) + 1 /\ ts # <<>>
  <2>1. Len(toks) \in Nat /\ Len(ts) = Len(toks) + 1
    BY <1>4, AppendProperties, LenProperties
  <2>. QED BY <2>1
<1>6. s[q - 1] = Delim <=> end <= Len(s)
  <2>1. CASE end <= Len(s)
    <3>1. q - 1 = end
      BY <1>2, <2>1
    <3>. QED BY <2>1, <3>1 DEF Found
  <2>2. CASE ~(end <= Len(s))
    <3>1. q - 1 \in start..(end - 1)
      BY <1>2, <2>2
    <3>. QED BY <2>2, <3>1 DEF Found
  <2>. QED BY <2>1, <2>2
<1>7. q - 1 \in Ends(s, q) \/ (q = Len(s) + 1 /\ s[q - 1] # Delim)
  <2>1. CASE end <= Len(s)
    <3>1. q - 1 = end
      BY <1>2, <2>1
    <3>. QED BY <1>3, <2>1, <3>1
  <2>2. CASE ~(end <= Len(s))
    BY <1>1, <1>2, <1>6, <2>2
  <2>. QED BY <2>1, <2>2
<1>8. Len(ts) = Cardinality(Ends(s, q)) + (IF q > 1 /\ s[q - 1] # Delim THEN 1 ELSE 0)
  <2>1. Len(toks) = Cardinality(Ends(s, p))
    <3>1. p > 1 => s[p - 1] = Delim
      BY <1>1, <1>2
    <3>2. Len(toks) = Cardinality(Ends(s, p)) + (IF p > 1 /\ s[p - 1] # Delim THEN 1 ELSE 0)
      BY DEF Tokens
    <3>3. Cardinality(Ends(s, p)) \in Nat
      BY <1>1, EndsFinite
    <3>. QED BY <3>1, <3>2, <3>3
  <2>2. CASE end <= Len(s)
    <3>1. end \notin Ends(s, p)
      BY <1>1, <1>2 DEF Ends
    <3>2. IsFiniteSet(Ends(s, p))
      BY <1>1, EndsFinite
    <3>3. Cardinality(Ends(s, p) \cup {end}) = Cardinality(Ends(s, p)) + 1
      BY <3>1, <3>2, FS_AddElement
    <3>4. Ends(s, q) = Ends(s, p) \cup {end} /\ s[q - 1] = Delim
      BY <1>3, <1>6, <2>2
    <3>5. Cardinality(Ends(s, q)) = Len(toks) + 1
      BY <2>1, <3>3, <3>4
    <3>. QED BY <1>5, <3>4, <3>5
  <2>3. CASE ~(end <= Len(s))
    <3>1. Ends(s, q) = Ends(s, p) /\ s[q - 1] # Delim
      BY <1>3, <1>6, <2>3
    <3>2. Cardinality(Ends(s, q)) = Len(toks)
      BY <2>1, <3>1
    <3>. QED BY <1>2, <1>5, <3>1, <3>2
  <2>. QED BY <2>2, <2>3
<1>9. Clean(s, q) => JoinsTo(ts, SubSeq(s, 1, IF s[q - 1] = Delim THEN q - 2 ELSE q - 1))
  <2>. HAVE Clean(s, q)
  <2>1. (IF s[q - 1] = Delim THEN q - 2 ELSE q - 1) = end - 1
    BY <1>2, <1>6
  <2>2. JoinsTo(ts, SubSeq(s, 1, end - 1))
    BY <1>4, TokensJoin
  <2>. QED BY <2>1, <2>2
<1>10. s[1] # Delim => FirstStored(s, q, ts)
  <2>. HAVE s[1] # Delim
  <2>. QED BY <1>4, TokensFirst
<1>11. q \in 1..(Len(s) + 1) /\ q # 1
  BY <1>1, <1>2
<1>12. Tokens(s, q, ts)
  BY <1>5, <1>7, <1>8, <1>9, <1>10, <1>11 DEF Tokens
<1>. QED BY <1>4, <1>12

-----------------------------------------------------------------------------
(* The end of a text. *)

\* There is no token left only behind the last delimiter, and all of them ended
\* tokens exactly if the text has no empty element.
LEMMA AllCounted ==
  ASSUME NEW s \in Texts, NEW p, NEW toks \in Seq(Seq(Chars)), Tokens(s, p, toks),
         NEW start, Found(s, p, start, start), Len(toks) = Allocated(s) - 1
  PROVE  p = Len(s) + 1 /\ p > 1 /\ Ends(s, p) = Dots(s)
<1>1. /\ Len(s) \in Nat
      /\ p \in 1..(Len(s) + 1) /\ (p = 1 \/ p = Len(s) + 1 \/ s[p - 1] = Delim)
  BY OfText, TokensPlace
<1>2. start = Len(s) + 1 /\ \A i \in p..Len(s) : s[i] = Delim
  BY <1>1 DEF Found
<1>3. PICK d, e : d = Cardinality(Dots(s)) /\ e = Cardinality(Ends(s, p))
  OBVIOUS
<1>4. d \in Nat /\ e \in Nat /\ e <= d /\ (e = d => Ends(s, p) = Dots(s))
  BY <1>1, <1>3, EndsFinite
<1>5. Len(toks) = e + (IF p > 1 /\ s[p - 1] # Delim THEN 1 ELSE 0)
  BY <1>3 DEF Tokens
<1>6. Len(toks) = d + (IF Len(s) = 0 \/ s[Len(s)] # Delim THEN 1 ELSE 0)
  BY <1>3, <1>4 DEF Allocated
<1>7. (p > 1 /\ s[p - 1] # Delim) => p = Len(s) + 1
  BY <1>1
<1>8. (Len(s) > 0 /\ s[Len(s)] = Delim) \/ p = Len(s) + 1
  <2>1. CASE p = Len(s) + 1
    BY <2>1
  <2>2. CASE p # Len(s) + 1
    <3>1. Len(s) \in p..Len(s) /\ Len(s) > 0
      BY <1>1, <2>2
    <3>. QED BY <1>2, <3>1
  <2>. QED BY <2>1, <2>2
<1>9. p > 1
  <2>. SUFFICES ASSUME p = 1 PROVE FALSE
    BY <1>1
  <2>1. e = 0
    <3>1. Ends(s, p) = {}
      BY DEF Ends
    <3>. QED BY <1>3, <3>1, FS_EmptySet
  <2>2. Len(toks) = 0
    <3>1. ~(p > 1 /\ s[p - 1] # Delim)
      OBVIOUS
    <3>. QED BY ONLY <1>5, <2>1, <3>1
  <2>3. d = 0 /\ Len(s) # 0 /\ s[Len(s)] = Delim
    BY <1>4, <1>6, <2>2
  <2>4. Dots(s) = {}
    <3>1. Ends(s, p) = {}
      BY DEF Ends
    <3>. QED BY <1>4, <2>1, <2>3, <3>1
  <2>5. Len(s) \in Dots(s)
    BY <1>1, <2>3 DEF Dots
  <2>. QED BY <2>4, <2>5
<1>10. Len(s) # 0 /\ (s[Len(s)] # Delim <=> p > 1 /\ s[p - 1] # Delim)
  <2>1. Len(s) # 0
    BY <1>1, <1>9
  <2>2. CASE p = Len(s) + 1
    <3>1. p - 1 = Len(s)
      BY <1>1, <2>2
    <3>. QED BY <1>9, <2>1, <3>1
  <2>3. CASE p # Len(s) + 1
    BY <1>1, <1>8, <2>1, <2>3
  <2>. QED BY <2>2, <2>3
<1>11. e = d
  <2>1. CASE p > 1 /\ s[p - 1] # Delim
    BY <1>4, <1>5, <1>6, <1>10, <2>1
  <2>2. CASE ~(p > 1 /\ s[p - 1] # Delim)
    BY <1>4, <1>5, <1>6, <1>10, <2>2
  <2>. QED BY <2>1, <2>2
<1>12. p = Len(s) + 1
  <2>. SUFFICES ASSUME p # Len(s) + 1 PROVE FALSE
    OBVIOUS
  <2>1. p \in p..Len(s) /\ p \in 1..Len(s)
    BY <1>1
  <2>2. p \in Dots(s)
    BY <1>2, <2>1 DEF Dots
  <2>3. p \notin Ends(s, p)
    BY <1>1 DEF Ends
  <2>. QED BY <1>4, <1>11, <2>2, <2>3
<1>. QED BY <1>4, <1>9, <1>11, <1>12

\* And if all of them ended tokens, the tokens join to the text.
LEMMA AllEnds ==
  ASSUME NEW s \in Texts, NEW p, p = Len(s) + 1, p > 1, Ends(s, p) = Dots(s)
  PROVE  Splittable(s) /\ Clean(s, p)
<1>1. Len(s) \in Nat \ {0}
  BY OfText
<1>2. \A i \in 1..Len(s) : s[i] = Delim => i > 1 /\ s[i - 1] # Delim
  <2>. SUFFICES ASSUME NEW i \in 1..Len(s), s[i] = Delim PROVE i > 1 /\ s[i - 1] # Delim
    OBVIOUS
  <2>1. i \in Ends(s, p)
    BY DEF Dots
  <2>. QED BY <2>1 DEF Ends
<1>3. s # <<>> /\ s[1] # Delim
  BY <1>1, <1>2
<1>4. ASSUME NEW i \in 1..(Len(s) - 1) PROVE ~(s[i] = Delim /\ s[i + 1] = Delim)
  <2>1. i + 1 \in 1..Len(s) /\ (i + 1) - 1 = i
    BY <1>1
  <2>. QED BY <1>2, <2>1
<1>5. Clean(s, p)
  <2>1. p - 1 = Len(s)
    BY <1>1
  <2>. QED BY <2>1 DEF Clean, Dots
<1>. QED BY <1>3, <1>4, <1>5 DEF Splittable

\* A text without an empty element is counted right.
LEMMA SplittableCounted ==
  ASSUME NEW s \in Texts, NEW p, NEW toks \in Seq(Seq(Chars)), Tokens(s, p, toks),
         NEW start, Found(s, p, start, start), Splittable(s)
  PROVE  Len(toks) = Allocated(s) - 1
<1>1. /\ Len(s) \in Nat
      /\ p \in 1..(Len(s) + 1) /\ (p = 1 \/ p = Len(s) + 1 \/ s[p - 1] = Delim)
  BY OfText, TokensPlace
<1>2. start = Len(s) + 1 /\ \A i \in p..Len(s) : s[i] = Delim
  BY <1>1 DEF Found
<1>3. Len(s) # 0 /\ s[1] # Delim
  <2>1. s # <<>> /\ s[1] # Delim
    BY DEF Splittable
  <2>2. s \in Seq(Chars)
    BY OfText
  <2>. QED BY <2>1, <2>2, EmptySeq
<1>4. p = Len(s) + 1
  <2>. SUFFICES ASSUME p # Len(s) + 1 PROVE FALSE
    OBVIOUS
  <2>1. p \in p..Len(s)
    BY <1>1
  <2>2. p # 1
    BY <1>2, <1>3, <2>1
  <2>3. p - 1 \in 1..(Len(s) - 1) /\ (p - 1) + 1 = p
    BY <1>1, <2>1, <2>2
  <2>4. s[p - 1] = Delim /\ s[p] = Delim
    BY <1>1, <1>2, <2>1, <2>2
  <2>. QED BY <2>3, <2>4 DEF Splittable
<1>5. Ends(s, p) = Dots(s)
  <2>1. ASSUME NEW i \in 1..Len(s), s[i] = Delim PROVE i \in Ends(s, p)
    <3>1. i # 1
      BY <1>3, <2>1
    <3>2. i - 1 \in 1..(Len(s) - 1) /\ (i - 1) + 1 = i /\ i > 1 /\ i \in 1..(p - 1)
      BY <1>1, <1>4, <3>1
    <3>3. s[i - 1] # Delim
      BY <2>1, <3>2 DEF Splittable
    <3>. QED BY <2>1, <3>2, <3>3 DEF Ends
  <2>. QED BY <1>1, <2>1, EndsFinite DEF Dots
<1>6. Len(toks) = Cardinality(Dots(s)) + (IF p > 1 /\ s[p - 1] # Delim THEN 1 ELSE 0)
  BY <1>5 DEF Tokens
<1>7. p > 1 /\ p - 1 = Len(s)
  BY <1>1, <1>3, <1>4
<1>8. Cardinality(Dots(s)) \in Nat
  BY <1>1, EndsFinite
<1>. QED BY <1>3, <1>6, <1>7, <1>8 DEF Allocated

\* What is left of a text that was split: its tokens join to it, the buffer keeps
\* the first one.
LEMMA SplitIs ==
  ASSUME NEW s \in Texts, NEW p, NEW toks \in Seq(Seq(Chars)), Tokens(s, p, toks),
         NEW start, Found(s, p, start, start), Len(toks) = Allocated(s) - 1,
         NEW b \in [1..Size -> Chars], Holds(b, s, Len(s) + 1)
  PROVE  /\ s \in {Join(toks), Append(Join(toks), Delim)}
         /\ String(b, 1) = toks[1] /\ Splittable(s)
<1>1. Len(s) \in Nat /\ s \in Seq(Chars) /\ \A i \in 1..Len(s) : s[i] \in Chars
  BY OfText
<1>2. p = Len(s) + 1 /\ p > 1 /\ Ends(s, p) = Dots(s)
  BY AllCounted
<1>3. Splittable(s) /\ Clean(s, p)
  BY <1>2, AllEnds
<1>4. Len(toks) \in Nat \ {0}
  <2>1. toks # <<>>
    BY <1>2 DEF Tokens
  <2>. QED BY <2>1, EmptySeq
<1>5. p - 1 = Len(s) /\ p - 2 = Len(s) - 1 /\ Len(s) \in 1..Len(s) /\ 1 \in 1..Len(s)
  BY <1>1, <1>2
<1>6. JoinsTo(toks, SubSeq(s, 1, IF s[Len(s)] = Delim THEN Len(s) - 1 ELSE Len(s)))
  BY <1>2, <1>3, <1>5 DEF Tokens
<1>7. s \in {Join(toks), Append(Join(toks), Delim)}
  <2>1. CASE s[Len(s)] # Delim
    <3>1. Join(toks) = SubSeq(s, 1, Len(s))
      BY <1>4, <1>6, <2>1, JoinIs
    <3>. QED BY <1>1, <3>1, SubSeqFull
  <2>2. CASE s[Len(s)] = Delim
    <3>1. Join(toks) = SubSeq(s, 1, Len(s) - 1)
      BY <1>4, <1>6, <2>2, JoinIs
    <3>2. SubSeq(s, 1, Len(s)) = SubSeq(s, 1, Len(s) - 1) \o <<s[Len(s)]>>
      BY <1>1, <1>5, SubSeqRecursiveSecond
    <3>3. s = Join(toks) \o <<Delim>>
      BY <1>1, <2>2, <3>1, <3>2, SubSeqFull
    <3>4. Join(toks) \in Seq(Chars)
      <4>1. PICK f : f = Len(s) - 1
        OBVIOUS
      <4>2. f \in Int /\ \A i \in 1..f : s[i] \in Chars
        BY <1>1, <4>1
      <4>3. SubSeq(s, 1, f) \in Seq(Chars)
        BY <4>2, SubSeqProperties
      <4>. QED BY <3>1, <4>1, <4>3
    <3>5. Append(Join(toks), Delim) = Join(toks) \o <<Delim>>
      <4>1. Delim \in Chars
        BY <1>1, <1>5, <2>2
      <4>. QED BY <3>4, <4>1, AppendIsConcat
    <3>. QED BY <3>3, <3>5
  <2>. QED BY <2>1, <2>2
<1>8. String(b, 1) = toks[1]
  <2>1. s[1] # Delim
    BY <1>3 DEF Splittable
  <2>2. PICK e \in 2..p : FirstEnds(s, p, e) /\ toks[1] = SubSeq(s, 1, e - 1)
    BY <1>2, <2>1 DEF Tokens, FirstStored
  <2>3. b[e] = Nul
    <3>1. CASE e \in Ends(s, p)
      <4>1. e \in 1..Len(s)
        BY <1>2, <3>1 DEF Dots
      <4>. QED BY <1>2, <3>1, <4>1 DEF Holds
    <3>2. CASE e = Len(s) + 1
      BY <3>2 DEF Holds
    <3>. QED BY <1>2, <2>2, <3>1, <3>2 DEF FirstEnds
  <2>4. \A i \in 1..(e - 1) : i \notin Ends(s, p)
    BY <2>2 DEF FirstEnds, Ends
  <2>5. 1 \in 1..(Len(s) + 1) /\ e \in 1..(Len(s) + 1) /\ Holds(b, s, p)
    BY <1>1, <1>2
  <2>6. String(b, 1) = SubSeq(s, 1, e - 1)
    BY <2>3, <2>4, <2>5, StringIs
  <2>. QED BY <2>2, <2>6
<1>. QED BY <1>3, <1>7, <1>8

\* How many elements str_split counts.
LEMMA CountsElements ==
  ASSUME NEW s \in Texts, NEW c, c = Cardinality(Dots(s)),
         NEW l, l = IF Dots(s) = {} THEN 0 ELSE Max(Dots(s))
  PROVE  c + (IF l = 0 \/ l < Len(s) THEN 1 ELSE 0) + 1 = Allocated(s)
<1>1. Len(s) \in Nat
  BY OfText
<1>2. l = 0 \/ l < Len(s) <=> Len(s) = 0 \/ s[Len(s)] # Delim
  <2>1. CASE Dots(s) = {}
    <3>1. Len(s) \notin Dots(s)
      BY <2>1
    <3>2. Len(s) = 0 \/ s[Len(s)] # Delim
      BY <1>1, <3>1 DEF Dots
    <3>. QED BY <2>1, <3>2
  <2>2. CASE Dots(s) # {}
    <3>1. PICK D : D = Dots(s)
      OBVIOUS
    <3>2. D \subseteq 0..Len(s) /\ D # {}
      BY <1>1, <2>2, <3>1 DEF Dots
    <3>3. Max(D) \in D /\ \A y \in D : y <= Max(D)
      BY <1>1, <3>2, Maximum
    <3>4. l = Max(D)
      BY <2>2, <3>1
    <3>5. l \in 1..Len(s)
      BY <3>1, <3>3, <3>4 DEF Dots
    <3>6. l = Len(s) <=> s[Len(s)] = Delim
      <4>1. l = Len(s) => s[Len(s)] = Delim
        BY <3>1, <3>3, <3>4 DEF Dots
      <4>2. s[Len(s)] = Delim => Len(s) \in D
        BY <1>1, <3>1, <3>5 DEF Dots
      <4>3. Len(s) \in D => Len(s) <= l
        BY <3>3, <3>4
      <4>. QED BY <1>1, <3>5, <4>1, <4>2, <4>3
    <3>. QED BY <1>1, <3>5, <3>6
  <2>. QED BY <2>1, <2>2
<1>. QED BY <1>2 DEF Allocated

-----------------------------------------------------------------------------
(* The steps of a thread, which know nothing of the others. *)

LEMMA ThreadType ==
  ASSUME IInv, NEW t \in Threads
  PROVE  /\ text[t] \in Texts /\ Of[t] \in Buffers
         /\ mem[Of[t]] \in [1..Size -> Chars] /\ mem[Of[t]][Size] = Nul
         /\ tokens[t] \in Seq(Seq(Chars)) /\ count[t] \in Nat
         /\ at[t] \in [buffer : Buffers, start : 1..Size, end : 1..Size, cut : BOOLEAN]
  BY OfAssumption DEF IInv, TypeOK

LEMMA CountInPhase == ASSUME IInv, NEW t \in Threads, Phase(t), Count(t) PROVE Phase(t)'
<1>1. PICK s, b : s = text[t] /\ b = mem[Of[t]]
  OBVIOUS
<1>2. s \in Texts /\ b \in [1..Size -> Chars]
  BY <1>1, ThreadType
<1>3. pc[t] = "count"
  BY DEF Count
<1>4. Holds(b, s, 1) /\ tokens[t] = <<>>
  BY <1>1, <1>3 DEF Phase
<1>5. String(mem[Of[t]], 1) = s
  BY <1>1, <1>2, <1>4, WholeString
<1>6. /\ count'[t] = Cardinality(Dots(s))
      /\ last'[t] = IF Dots(s) = {} THEN 0 ELSE Max(Dots(s))
      /\ pc'[t] = "allocate"
  <2>1. Dots(s) = {i \in 1..Len(String(mem[Of[t]], 1)) : String(mem[Of[t]], 1)[i] = Delim}
    BY <1>5 DEF Dots
  <2>. QED BY <2>1 DEF Count, IInv, TypeOK
<1>7. text'[t] = s /\ mem'[Of[t]] = b /\ tokens'[t] = <<>>
  BY <1>1, <1>4 DEF Count
<1>. QED
  BY <1>4, <1>6, <1>7 DEF Phase

LEMMA AllocateInPhase == ASSUME IInv, NEW t \in Threads, Phase(t), Allocate(t) PROVE Phase(t)'
<1>1. PICK s, b : s = text[t] /\ b = mem[Of[t]]
  OBVIOUS
<1>2. s \in Texts /\ b \in [1..Size -> Chars]
  BY <1>1, ThreadType
<1>3. pc[t] = "allocate"
  BY DEF Allocate
<1>4. Holds(b, s, 1) /\ tokens[t] = <<>>
  BY <1>1, <1>3 DEF Phase
<1>5. String(mem[Of[t]], 1) = s
  BY <1>1, <1>2, <1>4, WholeString
<1>6. count[t] = Cardinality(Dots(s)) /\ last[t] = IF Dots(s) = {} THEN 0 ELSE Max(Dots(s))
  BY <1>1, <1>3 DEF Phase
<1>7. count[t] + (IF last[t] = 0 \/ last[t] < Len(s) THEN 1 ELSE 0) + 1 = Allocated(s)
  BY <1>2, <1>6, CountsElements
<1>8. Trailing(t) <=> last[t] = 0 \/ last[t] < Len(s)
  BY <1>5 DEF Trailing
<1>9. count'[t] = Allocated(s) /\ pc'[t] = "first"
  <2>1. count'[t] = count[t] + (IF Trailing(t) THEN 1 ELSE 0) + 1 /\ pc'[t] = "first"
    BY DEF Allocate, IInv, TypeOK
  <2>. QED BY <1>7, <1>8, <2>1
<1>10. text'[t] = s /\ mem'[Of[t]] = b /\ tokens'[t] = <<>>
  BY <1>1, <1>4 DEF Allocate
<1>. QED
  BY <1>4, <1>9, <1>10 DEF Phase

LEMMA NoTokens == ASSUME NEW s \in Texts PROVE Tokens(s, 1, <<>>)
<1>1. Ends(s, 1) = {}
  BY DEF Ends
<1>2. Cardinality(Ends(s, 1)) = 0
  BY <1>1, FS_EmptySet
<1>3. 1 \in 1..(Len(s) + 1)
  BY OfText
<1>. QED BY <1>2, <1>3 DEF Tokens

LEMMA FindInPhase == ASSUME IInv, NEW t \in Threads, Phase(t), Find(t) PROVE Phase(t)'
<1>1. PICK s, b : s = text[t] /\ b = mem[Of[t]]
  OBVIOUS
<1>2. s \in Texts /\ b \in [1..Size -> Chars] /\ b[Size] = Nul
  BY <1>1, ThreadType
<1>3. pc[t] \in {"first", "next"}
  BY DEF Find
<1>4. PICK p : p = From(t)[2]
  OBVIOUS
<1>5. From(t)[1] = Of[t] /\ Holds(b, s, p) /\ Tokens(s, p, tokens[t])
  <2>1. CASE pc[t] = "first"
    <3>1. From(t)[1] = Of[t] /\ p = 1
      BY <1>4, <2>1 DEF From
    <3>2. Holds(b, s, 1) /\ tokens[t] = <<>>
      BY <1>1, <2>1 DEF Phase
    <3>. QED BY <1>2, <3>1, <3>2, NoTokens
  <2>2. CASE pc[t] = "next"
    <3>1. From(t) = olds
      BY <2>2 DEF From
    <3>. QED BY <1>1, <1>4, <2>2, <3>1 DEF Phase
  <2>. QED BY <1>3, <2>1, <2>2
<1>6. PICK start : start = Min({i \in p..Size : b[i] # Delim})
  OBVIOUS
<1>7. PICK end : end = Until(b, start, {Delim, Nul})
  OBVIOUS
<1>8. p \in 1..(Len(s) + 1)
  BY <1>2, <1>5, TokensPlace
<1>9. Found(s, p, start, end) /\ (b[end] # Nul <=> end <= Len(s))
  BY <1>2, <1>5, <1>6, <1>7, <1>8, FindsNext
<1>10. at'[t] = [buffer |-> Of[t], start |-> start, end |-> end, cut |-> b[end] # Nul]
       /\ pc'[t] = "cut"
  BY <1>1, <1>4, <1>5, <1>6, <1>7 DEF Find, IInv, TypeOK
<1>11. text'[t] = s /\ mem'[Of[t]] = b /\ tokens'[t] = tokens[t] /\ count'[t] = Allocated(s)
  BY <1>1, <1>3 DEF Find, Phase
<1>12. /\ at'[t].buffer = Of[t] /\ (at'[t].cut <=> at'[t].end <= Len(s))
       /\ Found(s, p, at'[t].start, at'[t].end)
  <2>1. at'[t].buffer = Of[t] /\ at'[t].start = start /\ at'[t].end = end
    BY <1>10
  <2>2. at'[t].cut <=> b[end] # Nul
    <3>1. PICK c \in BOOLEAN : c = (b[end] # Nul)
      OBVIOUS
    <3>2. at'[t] = [buffer |-> Of[t], start |-> start, end |-> end, cut |-> c]
      BY ONLY <1>10, <3>1, Zenon
    <3>3. at'[t].cut = c
      BY ONLY <3>2
    <3>. QED BY <3>1, <3>3
  <2>. QED BY <1>9, <2>1, <2>2
<1>. QED
  BY <1>5, <1>8, <1>10, <1>11, <1>12 DEF Phase

\* Where strtok has found something.
LEMMA FoundPhase ==
  ASSUME IInv, NEW t \in Threads, Phase(t), pc[t] \in {"cut", "save", "store", "end"},
         NEW s, s = text[t], NEW b, b = mem[Of[t]]
  PROVE  /\ s \in Texts /\ b \in [1..Size -> Chars] /\ count[t] = Allocated(s)
         /\ at[t].buffer = Of[t]
         /\ After(at[t]) = IF at[t].end <= Len(s) THEN at[t].end + 1 ELSE at[t].end
         /\ \E p \in 1..(Len(s) + 1) :
              /\ Tokens(s, p, tokens[t]) /\ Found(s, p, at[t].start, at[t].end)
              /\ Holds(b, s, IF pc[t] = "cut" THEN p ELSE After(at[t]))
              /\ (p = 1 \/ p = Len(s) + 1 \/ s[p - 1] = Delim)
<1>1. s \in Texts /\ b \in [1..Size -> Chars]
  BY ThreadType
<1>2. at[t].buffer = Of[t] /\ (at[t].cut <=> at[t].end <= Len(s)) /\ count[t] = Allocated(s)
  BY DEF Phase
<1>3. PICK p \in 1..(Len(s) + 1) :
        /\ Tokens(s, p, tokens[t]) /\ Found(s, p, at[t].start, at[t].end)
        /\ Holds(b, s, IF pc[t] = "cut" THEN p ELSE After(at[t]))
  BY DEF Phase
<1>4. p = 1 \/ p = Len(s) + 1 \/ s[p - 1] = Delim
  BY <1>1, <1>3, TokensPlace
<1>. QED
  BY <1>1, <1>2, <1>3, <1>4 DEF After

LEMMA CutInPhase == ASSUME IInv, NEW t \in Threads, Phase(t), Cut(t) PROVE Phase(t)'
<1>1. PICK s, b, a : s = text[t] /\ b = mem[Of[t]] /\ a = at[t]
  OBVIOUS
<1>2. pc[t] = "cut" /\ (a.cut <=> a.end <= Len(s))
  BY <1>1 DEF Cut, Phase
<1>3. /\ s \in Texts /\ b \in [1..Size -> Chars] /\ count[t] = Allocated(s) /\ a.buffer = Of[t]
      /\ After(a) = IF a.end <= Len(s) THEN a.end + 1 ELSE a.end
  BY <1>1, <1>2, FoundPhase
<1>4. PICK p \in 1..(Len(s) + 1) : /\ Tokens(s, p, tokens[t]) /\ Found(s, p, a.start, a.end)
                                   /\ Holds(b, s, p)
                                   /\ (p = 1 \/ p = Len(s) + 1 \/ s[p - 1] = Delim)
  BY <1>1, <1>2, FoundPhase
<1>5. mem'[Of[t]] = IF a.end <= Len(s) THEN [b EXCEPT ![a.end] = Nul] ELSE b
  BY <1>1, <1>2, <1>3, ThreadType DEF Cut, IInv, TypeOK
<1>6. Holds(mem'[Of[t]], s, After(a))
  BY <1>3, <1>4, <1>5, CutHolds
<1>7. /\ text'[t] = s /\ at'[t] = a /\ tokens'[t] = tokens[t] /\ count'[t] = Allocated(s)
      /\ pc'[t] = "save"
  BY <1>1, <1>3 DEF Cut, IInv, TypeOK
<1>. QED
  BY <1>2, <1>3, <1>4, <1>6, <1>7 DEF Phase

LEMMA SaveInPhase == ASSUME IInv, NEW t \in Threads, Phase(t), Save(t) PROVE Phase(t)'
<1>1. PICK s, b, a : s = text[t] /\ b = mem[Of[t]] /\ a = at[t]
  OBVIOUS
<1>2. pc[t] = "save" /\ (a.cut <=> a.end <= Len(s))
  BY <1>1 DEF Save, Phase
<1>3. s \in Texts /\ count[t] = Allocated(s) /\ a.buffer = Of[t]
  BY <1>1, <1>2, FoundPhase
<1>4. PICK p \in 1..(Len(s) + 1) : /\ Tokens(s, p, tokens[t]) /\ Found(s, p, a.start, a.end)
                                   /\ Holds(b, s, After(a))
  BY <1>1, <1>2, FoundPhase
<1>5. a.end \in a.start..(Len(s) + 1) /\ a.start \in 1..Size /\ a.end \in 1..Size
  BY <1>1, <1>4, ThreadType DEF Found
<1>6. /\ text'[t] = s /\ mem'[Of[t]] = b /\ at'[t] = a /\ tokens'[t] = tokens[t]
      /\ count'[t] = Allocated(s) /\ olds' = <<Of[t], After(a)>>
      /\ pc'[t] = IF a.start = a.end THEN "end" ELSE "store"
  BY <1>1, <1>3 DEF Save, After, IInv, TypeOK
<1>7. a.start # a.end => a.start < a.end
  BY <1>5
<1>. QED
  BY <1>2, <1>3, <1>4, <1>6, <1>7 DEF Phase

LEMMA StoreInPhase == ASSUME IInv, NEW t \in Threads, Phase(t), Store(t) PROVE Phase(t)'
<1>1. PICK s, b, a, q : s = text[t] /\ b = mem[Of[t]] /\ a = at[t] /\ q = After(a)
  OBVIOUS
<1>2. pc[t] = "store"
  BY DEF Store
<1>3. /\ s \in Texts /\ b \in [1..Size -> Chars] /\ count[t] = Allocated(s) /\ a.buffer = Of[t]
      /\ q = IF a.end <= Len(s) THEN a.end + 1 ELSE a.end
  BY <1>1, <1>2, FoundPhase
<1>4. PICK p \in 1..(Len(s) + 1) : /\ Tokens(s, p, tokens[t]) /\ Found(s, p, a.start, a.end)
                                   /\ Holds(b, s, q)
                                   /\ (p = 1 \/ p = Len(s) + 1 \/ s[p - 1] = Delim)
  BY <1>1, <1>2, FoundPhase
<1>5. a.start < a.end /\ olds = <<Of[t], q>>
  BY <1>1, <1>2 DEF Phase
<1>6. tokens[t] \in Seq(Seq(Chars)) /\ Len(s) \in Nat
  BY <1>3, ThreadType, OfText
<1>7. Len(tokens[t]) < count[t]
  BY <1>3, <1>4, <1>5, TokenFits
<1>8. PICK tok : tok = SubSeq(s, a.start, a.end - 1)
  OBVIOUS
<1>9. String(b, a.start) = tok
  <2>1. a.start \in 1..(Len(s) + 1) /\ a.end \in a.start..(Len(s) + 1)
    BY <1>6, <1>4 DEF Found
  <2>2. b[a.end] = Nul
    <3>1. CASE a.end <= Len(s)
      <4>1. a.end \in Ends(s, q)
        <5>1. Ends(s, q) = Ends(s, p) \cup (IF a.end <= Len(s) THEN {a.end} ELSE {})
          BY <1>3, <1>4, EndsGrow
        <5>. QED BY <3>1, <5>1
      <4>2. a.end \in 1..Len(s)
        BY <1>6, <2>1, <3>1
      <4>. QED BY <1>4, <4>1, <4>2 DEF Holds
    <3>2. CASE ~(a.end <= Len(s))
      <4>1. a.end = Len(s) + 1
        BY <1>6, <2>1, <3>2
      <4>. QED BY <1>4, <4>1 DEF Holds
    <3>. QED BY <3>1, <3>2
  <2>3. \A i \in a.start..(a.end - 1) : i \notin Ends(s, q)
    BY <1>4 DEF Found, Ends
  <2>4. PICK start, end : start = a.start /\ end = a.end
    OBVIOUS
  <2>5. /\ start \in 1..(Len(s) + 1) /\ end \in start..(Len(s) + 1) /\ b[end] = Nul
        /\ \A i \in start..(end - 1) : i \notin Ends(s, q)
    BY <2>1, <2>2, <2>3, <2>4
  <2>6. String(b, start) = SubSeq(s, start, end - 1)
    <3>1. s \in Texts /\ b \in [1..Size -> Chars] /\ Holds(b, s, q)
      BY <1>3, <1>4
    <3>2. /\ start \in 1..(Len(s) + 1) /\ end \in start..(Len(s) + 1) /\ b[end] = Nul
          /\ \A i \in start..(end - 1) : i \notin Ends(s, q)
      BY <2>5
    <3>. QED BY ONLY <3>1, <3>2, StringIs, ZenonT(30)
  <2>. QED BY <1>8, <2>4, <2>6
<1>10. tok \in Seq(Chars)
  <2>1. Size \in Nat /\ a.start \in 1..Size /\ b[Size] = Nul
    BY <1>1, ThreadType, TextsAssumption
  <2>. QED BY <1>3, <1>9, <2>1, StringType
<1>11. Tokens(s, q, Append(tokens[t], tok))
  BY <1>3, <1>4, <1>5, <1>6, <1>8, <1>10, TokensGrow
<1>12. tokens'[t] = Append(tokens[t], tok) /\ pc'[t] = "next"
  BY <1>1, <1>3, <1>7, <1>9 DEF Store, IInv, TypeOK
<1>13. /\ text'[t] = s /\ mem'[Of[t]] = b /\ count'[t] = Allocated(s)
       /\ olds'[1] = Of[t] /\ olds'[2] = q
  BY <1>1, <1>3, <1>5 DEF Store
<1>. QED
  BY <1>4, <1>11, <1>12, <1>13 DEF Phase

LEMMA EndInPhase == ASSUME IInv, NEW t \in Threads, Phase(t), End(t) PROVE Phase(t)'
<1>1. PICK s, b, a : s = text[t] /\ b = mem[Of[t]] /\ a = at[t]
  OBVIOUS
<1>2. pc[t] = "end"
  BY DEF End
<1>3. /\ s \in Texts /\ b \in [1..Size -> Chars] /\ count[t] = Allocated(s)
      /\ After(a) = IF a.end <= Len(s) THEN a.end + 1 ELSE a.end
  BY <1>1, <1>2, FoundPhase
<1>4. PICK p \in 1..(Len(s) + 1) : /\ Tokens(s, p, tokens[t]) /\ Found(s, p, a.start, a.end)
                                   /\ Holds(b, s, After(a))
  BY <1>1, <1>2, FoundPhase
<1>5. a.end = a.start
  BY <1>1, <1>2 DEF Phase
<1>6. tokens[t] \in Seq(Seq(Chars)) /\ Len(s) \in Nat
  BY <1>3, ThreadType, OfText
<1>7. Found(s, p, a.start, a.start)
  BY <1>4, <1>5
<1>8. After(a) = Len(s) + 1
  <2>1. a.start = Len(s) + 1
    BY <1>6, <1>7 DEF Found
  <2>. QED BY <1>3, <1>5, <1>6, <2>1
<1>9. /\ text'[t] = s /\ mem'[Of[t]] = b /\ tokens'[t] = tokens[t]
      /\ pc'[t] = IF Len(tokens[t]) = Allocated(s) - 1 THEN "done" ELSE "aborted"
  BY <1>1, <1>3 DEF End, IInv, TypeOK
<1>10. CASE Len(tokens[t]) = Allocated(s) - 1
  <2>1. /\ s \in {Join(tokens[t]), Append(Join(tokens[t]), Delim)}
        /\ String(b, 1) = tokens[t][1] /\ Splittable(s)
    BY <1>3, <1>4, <1>6, <1>7, <1>8, <1>10, SplitIs
  <2>. QED BY <1>9, <1>10, <2>1 DEF Phase
<1>11. CASE Len(tokens[t]) # Allocated(s) - 1
  <2>1. ~Splittable(s)
    BY <1>3, <1>4, <1>6, <1>7, <1>11, SplittableCounted
  <2>. QED BY <1>9, <1>11, <2>1 DEF Phase
<1>. QED BY <1>10, <1>11

LEMMA AgainInPhase == ASSUME IInv, NEW t \in Threads, Again(t) PROVE Phase(t)'
<1>1. PICK s \in Texts : /\ text' = [text EXCEPT ![t] = s]
                         /\ mem' = [mem EXCEPT ![Of[t]] = Copied(@, s)]
  BY DEF Again
<1>2. text'[t] = s /\ mem'[Of[t]] = Copied(mem[Of[t]], s)
  BY <1>1, ThreadType DEF IInv, TypeOK
<1>3. Holds(mem'[Of[t]], s, 1)
  BY <1>2, CopiedHolds
<1>4. tokens'[t] = <<>> /\ pc'[t] = "count"
  BY DEF Again, IInv, TypeOK
<1>. QED
  BY <1>2, <1>3, <1>4 DEF Phase

LEMMA PhaseKeeps == ASSUME IInv, NEW t \in Threads, Phase(t), Step(t) PROVE Phase(t)'
  BY CountInPhase, AllocateInPhase, FindInPhase, CutInPhase, SaveInPhase, StoreInPhase,
     EndInPhase, AgainInPhase DEF Step

LEMMA InitAlone == Init => AloneInv
<1>. SUFFICES ASSUME Init, NEW t \in Threads PROVE Phase(t)
  BY DEF AloneInv
<1>1. PICK u : u = CHOOSE v \in Threads : Of[v] = Of[t]
  OBVIOUS
<1>2. u \in Threads /\ Of[u] = Of[t] /\ Of[t] \in Buffers
  BY <1>1, OfAssumption
<1>3. text[u] = text[t] /\ text[t] \in Texts
  BY <1>2 DEF Init
<1>4. mem[Of[t]] = Copied([i \in 1..Size |-> Nul], text[t])
  BY <1>1, <1>2, <1>3 DEF Init
<1>5. Holds(mem[Of[t]], text[t], 1)
  BY <1>3, <1>4, CopiedHolds
<1>6. pc[t] = "count" /\ tokens[t] = <<>>
  BY DEF Init
<1>. QED
  BY <1>5, <1>6 DEF Phase

\* A thread that is alone after a step took that step, for the others begin with theirs.
LEMMA AloneStep ==
  ASSUME IInv, NEW t \in Threads, Step(t), NEW u \in Threads, Alone(u)'
  PROVE  u = t /\ Alone(t)
<1>1. Begun(t)'
  <2>1. t \in DOMAIN pc /\ t \in DOMAIN calls /\ calls[t] \in Nat \ {0}
    <3>1. t \in DOMAIN pc
      BY DEF IInv, TypeOK
    <3>2. calls \in [Threads -> 1..MaxCalls]
      BY DEF IInv, TypeOK
    <3>. QED BY <3>1, <3>2, TextsAssumption
  <2>2. pc'[t] # "count" \/ calls'[t] > 1
    <3>1. CASE Count(t) \/ Allocate(t) \/ Find(t) \/ Cut(t)
      BY <2>1, <3>1 DEF Count, Allocate, Find, Cut
    <3>2. CASE Save(t) \/ Store(t) \/ End(t)
      BY <2>1, <3>2 DEF Save, Store, End
    <3>3. CASE Again(t)
      BY <2>1, <3>3 DEF Again
    <3>. QED BY <3>1, <3>2, <3>3 DEF Step
  <2>. QED BY <2>2 DEF Begun
<1>2. u = t
  BY <1>1 DEF Alone
<1>3. ASSUME NEW v \in Threads \ {t} PROVE pc'[v] = pc[v] /\ calls'[v] = calls[v]
  <2>1. CASE Count(t) \/ Allocate(t) \/ Find(t) \/ Cut(t)
    BY <2>1 DEF IInv, TypeOK, Count, Allocate, Find, Cut
  <2>2. CASE Save(t) \/ Store(t) \/ End(t)
    BY <2>2 DEF IInv, TypeOK, Save, Store, End
  <2>3. CASE Again(t)
    BY <2>3 DEF IInv, TypeOK, Again
  <2>. QED BY <2>1, <2>2, <2>3 DEF Step
<1>4. Alone(t)
  BY <1>2, <1>3 DEF Alone, Begun
<1>. QED BY <1>2, <1>4

LEMMA AloneKeeps == IInv /\ AloneInv /\ [Next]_vars => AloneInv'
<1>. SUFFICES ASSUME IInv, AloneInv, [Next]_vars, NEW u \in Threads, Alone(u)'
              PROVE  Phase(u)'
  BY DEF AloneInv
<1>1. ASSUME NEW t \in Threads, Step(t) PROVE Phase(u)'
  <2>1. u = t /\ Alone(t)
    BY <1>1, AloneStep
  <2>2. Phase(t)
    BY <2>1 DEF AloneInv
  <2>. QED BY <1>1, <2>1, <2>2, PhaseKeeps
<1>2. CASE UNCHANGED vars
  <2>1. Alone(u)' <=> Alone(u)
    BY <1>2 DEF vars, Alone, Begun
  <2>2. Phase(u)
    BY <2>1 DEF AloneInv
  <2>. QED BY <1>2, <2>2 DEF vars, Phase, Trailing
<1>. QED
  BY <1>1, <1>2 DEF Next

\* A text split without another thread in strtok comes apart into the tokens that
\* joined give it back (but for a trailing delimiter), its buffer keeps the first
\* of them, and str_split stops the program exactly for a text with an empty element.
THEOREM SplitInverts == Spec => []SplitInvertsJoin
<1>1. AloneInv => SplitInvertsJoin
  BY DEF AloneInv, Alone, Phase, SplitInvertsJoin
<1>. QED
  BY InitEstablishes, StepKeeps, InitAlone, AloneKeeps, <1>1, PTL DEF Spec

-----------------------------------------------------------------------------
(* Threads that take each other's place in strtok, while no buffer is used twice. *)

\* The text s stands in the buffer, some of its delimiters overwritten.
Stands(b, s) ==
  /\ b[Len(s) + 1] = Nul
  /\ \A i \in 1..Len(s) : b[i] = s[i] \/ (b[i] = Nul /\ s[i] = Delim)

\* At p an element of s begins, or strtok finds nothing.
Begins(b, s, p) == p \in 1..(Len(s) + 1) /\ (p = 1 \/ s[p - 1] = Delim \/ b[p] = Nul)

\* What lies from start to before end is an element of s or nothing, and strtok will
\* cut behind it where it must.
Cuts(b, s, start, end, cut) ==
  /\ start \in 1..(Len(s) + 1) /\ end \in start..(Len(s) + 1)
  /\ start < end => Element(s, start, end)
  /\ cut => end <= Len(s) /\ s[end] = Delim
  /\ ~cut => b[end] = Nul

LEMMA FindsElement ==
  ASSUME NEW s \in Texts, NEW b \in [1..Size -> Chars], b[Size] = Nul,
         NEW p, Begins(b, s, p), Stands(b, s),
         NEW start, start = Min({i \in p..Size : b[i] # Delim}),
         NEW end, end = Until(b, start, {Delim, Nul})
  PROVE  Cuts(b, s, start, end, b[end] # Nul)
<1>1. Len(s) \in 0..(Size - 1) /\ Size \in Nat \ {0} /\ \A i \in 1..Len(s) : s[i] # Nul
  BY OfText
<1>2. /\ b[Len(s) + 1] = Nul
      /\ \A i \in 1..Len(s) : b[i] = s[i] \/ (b[i] = Nul /\ s[i] = Delim)
  BY DEF Stands
<1>3. Nul # Delim
  BY DEF Nul, Delim
<1>4. p \in 1..(Len(s) + 1) /\ (p = 1 \/ s[p - 1] = Delim \/ b[p] = Nul)
  BY DEF Begins
<1>5. PICK S : S = {i \in p..Size : b[i] # Delim}
  OBVIOUS
<1>6. S \subseteq 0..Size /\ Len(s) + 1 \in S
  BY <1>1, <1>2, <1>3, <1>4, <1>5
<1>7. start \in S /\ \A y \in S : start <= y
  <2>1. start = Min(S) /\ S # {} /\ Size \in Nat
    BY <1>1, <1>5, <1>6
  <2>2. Min(S) \in S /\ \A y \in S : Min(S) <= y
    BY ONLY <1>6, <2>1, Minimum
  <2>. QED BY <2>1, <2>2
<1>8. start \in p..(Len(s) + 1) /\ b[start] # Delim
  BY <1>1, <1>5, <1>6, <1>7
<1>9. start = 1 \/ s[start - 1] = Delim \/ b[start] = Nul
  <2>1. CASE start = p
    BY <1>4, <2>1
  <2>2. CASE start # p
    <3>1. start - 1 \in p..Size /\ start - 1 \in 1..Len(s) /\ ~(start <= start - 1)
      BY <1>1, <1>4, <1>8, <2>2
    <3>2. start - 1 \notin S
      BY <1>7, <3>1
    <3>3. b[start - 1] = Delim
      BY <1>5, <3>1, <3>2
    <3>. QED BY <1>2, <1>3, <3>1, <3>3
  <2>. QED BY <2>1, <2>2
<1>10. Len(b) = Size
  BY <1>1
<1>11. PICK E : E = {i \in start..Size : b[i] \in {Delim, Nul}}
  OBVIOUS
<1>12. E \subseteq 0..Size /\ Len(s) + 1 \in E
  <2>1. start \in Nat /\ Len(s) + 1 \in start..Size
    BY <1>1, <1>4, <1>8
  <2>2. E \subseteq start..Size
    BY <1>11
  <2>3. b[Len(s) + 1] \in {Delim, Nul}
    BY <1>2
  <2>4. Len(s) + 1 \in E
    BY <1>11, <2>1, <2>3
  <2>. QED BY <2>1, <2>2, <2>4
<1>13. end \in E /\ \A y \in E : end <= y
  <2>1. end = Min(E) /\ E # {} /\ Size \in Nat
    BY <1>1, <1>10, <1>11, <1>12 DEF Until
  <2>2. Min(E) \in E /\ \A y \in E : Min(E) <= y
    BY ONLY <1>12, <2>1, Minimum
  <2>. QED BY <2>1, <2>2
<1>14. end \in start..(Len(s) + 1) /\ b[end] \in {Delim, Nul}
  <2>1. end \in start..Size /\ b[end] \in {Delim, Nul}
    BY <1>11, <1>13
  <2>2. end <= Len(s) + 1
    BY <1>12, <1>13
  <2>. QED BY <1>1, <1>4, <1>8, <2>1, <2>2
<1>15. start \in 1..(Len(s) + 1) /\ start \in Int /\ end \in Int /\ Len(s) \in Nat
  BY <1>1, <1>4, <1>8, <1>14
<1>16. \A k \in start..(end - 1) : k \in 1..Len(s) /\ b[k] # Delim /\ b[k] # Nul
  <2>. SUFFICES ASSUME NEW k \in start..(end - 1)
                PROVE  k \in 1..Len(s) /\ b[k] # Delim /\ b[k] # Nul
    OBVIOUS
  <2>1. k \in 1..Len(s) /\ k \in start..Size /\ ~(end <= k)
    BY <1>1, <1>14, <1>15
  <2>2. k \notin E
    BY <1>13, <2>1
  <2>. QED BY <1>11, <2>1, <2>2
<1>17. \A k \in start..(end - 1) : s[k] # Delim
  BY <1>2, <1>16
<1>18. end = Len(s) + 1 \/ (end \in 1..Len(s) /\ s[end] = Delim)
  <2>1. end = Len(s) + 1 \/ end \in 1..Len(s)
    BY <1>14, <1>15
  <2>2. ASSUME end \in 1..Len(s) PROVE s[end] = Delim
    BY <1>1, <1>2, <1>14, <2>2
  <2>. QED BY <2>1, <2>2
<1>19. start < end => Element(s, start, end)
  <2>. HAVE start < end
  <2>1. start \in start..(end - 1)
    BY <1>15
  <2>2. start \in 1..Len(s) /\ b[start] # Nul
    BY <1>16, <2>1
  <2>3. end \in 1..(Len(s) + 1)
    BY <1>14, <1>15
  <2>. QED BY <1>9, <1>17, <1>18, <2>2, <2>3 DEF Element
<1>20. b[end] # Nul => end <= Len(s) /\ s[end] = Delim
  BY <1>2, <1>15, <1>18
<1>. QED BY <1>14, <1>15, <1>19, <1>20 DEF Cuts

\* Another delimiter overwritten changes none of that.
LEMMA CutLater ==
  ASSUME NEW s \in Texts, NEW b \in [1..Size -> Chars], Stands(b, s),
         NEW e \in 1..Len(s), s[e] = Delim, NEW c, c = [b EXCEPT ![e] = Nul]
  PROVE  /\ Stands(c, s) /\ c[e] = Nul
         /\ \A p : Begins(b, s, p) => Begins(c, s, p)
         /\ \A start, end, cut : Cuts(b, s, start, end, cut) => Cuts(c, s, start, end, cut)
<1>1. Len(s) \in 0..(Size - 1) /\ Size \in Nat \ {0}
  BY OfText
<1>2. c[e] = Nul /\ \A i \in 1..Size : i # e => c[i] = b[i]
  BY <1>1
<1>3. \A i \in 1..(Len(s) + 1) : b[i] = Nul => c[i] = Nul
  BY <1>1, <1>2
<1>4. Stands(c, s)
  BY <1>1, <1>2 DEF Stands
<1>5. ASSUME NEW p, Begins(b, s, p) PROVE Begins(c, s, p)
  BY <1>3, <1>5 DEF Begins
<1>6. ASSUME NEW start, NEW end, NEW cut, Cuts(b, s, start, end, cut)
      PROVE  Cuts(c, s, start, end, cut)
  <2>1. end \in 1..(Len(s) + 1)
    BY <1>1, <1>6 DEF Cuts
  <2>. QED BY <1>3, <1>6, <2>1 DEF Cuts
<1>. QED BY <1>2, <1>4, <1>5, <1>6

\* What strdup copies once the cut is made is the whole element.
LEMMA StoredElement ==
  ASSUME NEW s \in Texts, NEW b \in [1..Size -> Chars], Stands(b, s),
         NEW start \in 1..(Len(s) + 1), NEW end \in start..(Len(s) + 1),
         start < end, Element(s, start, end), b[end] = Nul
  PROVE  ElementOf(String(b, start), s)
<1>1. /\ Len(s) \in 0..(Size - 1) /\ Size \in Nat
      /\ s \in Seq(Chars) /\ \A i \in 1..Len(s) : s[i] \in Chars /\ s[i] # Nul
  BY OfText
<1>2. \A i \in start..(end - 1) : i \in 1..Len(s) /\ b[i] = s[i]
  <2>1. \A i \in start..(end - 1) : i \in 1..Len(s)
    BY <1>1
  <2>2. \A i \in start..(end - 1) : s[i] # Delim
    BY DEF Element
  <2>. QED BY <2>1, <2>2 DEF Stands
<1>3. Until(b, start, {Nul}) = end
  <2>1. \A i \in start..(end - 1) : b[i] \notin {Nul}
    BY <1>1, <1>2
  <2>2. start \in 1..Size /\ end \in start..Size
    BY <1>1
  <2>3. b[end] \in {Nul}
    OBVIOUS
  <2>. QED BY <1>1, <2>1, <2>2, <2>3, UntilIs
<1>4. PICK e : e = end - 1
  OBVIOUS
<1>5. start \in Int /\ e \in Int /\ start <= e
  BY <1>1, <1>4
<1>6. \A i \in start..e : s[i] \in Chars /\ b[i] \in Chars /\ b[i] = s[i]
  BY <1>1, <1>2, <1>4
<1>7. /\ SubSeq(b, start, e) \in Seq(Chars) /\ Len(SubSeq(b, start, e)) = e - start + 1
      /\ \A i \in 1..(e - start + 1) : SubSeq(b, start, e)[i] = b[start + i - 1]
  BY <1>5, <1>6, SubSeqProperties
<1>8. /\ SubSeq(s, start, e) \in Seq(Chars) /\ Len(SubSeq(s, start, e)) = e - start + 1
      /\ \A i \in 1..(e - start + 1) : SubSeq(s, start, e)[i] = s[start + i - 1]
  BY <1>5, <1>6, SubSeqProperties
<1>9. PICK v, w : v = SubSeq(b, start, e) /\ w = SubSeq(s, start, e)
  OBVIOUS
<1>10. Len(v) = Len(w) /\ v \in Seq(Chars) /\ w \in Seq(Chars)
  BY <1>7, <1>8, <1>9
<1>11. \A i \in 1..Len(v) : v[i] = w[i]
  BY <1>5, <1>6, <1>7, <1>8, <1>9
<1>12. v = w
  BY <1>10, <1>11, SeqEqual
<1>13. String(b, start) = SubSeq(s, start, end - 1)
  BY <1>3, <1>4, <1>9, <1>12 DEF String
<1>14. start \in 1..Len(s) /\ end \in 1..(Len(s) + 1)
  BY <1>1
<1>. QED BY <1>13, <1>14 DEF ElementOf

\* No buffer has been used for a second text.
Fresh == \A t \in Threads : calls[t] = 1

\* Threads with one buffer have one text.  Every buffer has its text, and if strtok's
\* pointer is in it, an element begins there or nothing is found.
TextsStand ==
  /\ \A t, u \in Threads : Of[t] = Of[u] => text[t] = text[u]
  /\ \A u \in Threads :
       /\ Stands(mem[Of[u]], text[u])
       /\ olds # Null /\ olds[1] = Of[u] => Begins(mem[Of[u]], text[u], olds[2])

\* What a thread has found is an element of the text in the buffer it found it in,
\* which for its first token is its own.
FoundElement(t) ==
  /\ pc[t] \in {"cut", "save", "store"} =>
       \A u \in Threads : at[t].buffer = Of[u] =>
         /\ Cuts(mem[Of[u]], text[u], at[t].start, at[t].end, at[t].cut)
         /\ pc[t] # "cut" => mem[Of[u]][at[t].end] = Nul
  /\ pc[t] \in {"cut", "save", "store"} /\ tokens[t] = <<>> => at[t].buffer = Of[t]
  /\ pc[t] = "store" => at[t].start < at[t].end
  /\ pc[t] = "next" => tokens[t] # <<>>

StoredElements(t) ==
  \A i \in 1..Len(tokens[t]) :
    /\ \E u \in Threads : ElementOf(tokens[t][i], text[u])
    /\ i = 1 => ElementOf(tokens[t][i], text[t])

MixInv == /\ TextsStand
          /\ \A t \in Threads : FoundElement(t) /\ StoredElements(t)

LEMMA InitStands == Init => MixInv
<1>. SUFFICES ASSUME Init PROVE MixInv
  OBVIOUS
<1>1. ASSUME NEW u \in Threads PROVE Stands(mem[Of[u]], text[u])
  <2>1. PICK v : v = CHOOSE t \in Threads : Of[t] = Of[u]
    OBVIOUS
  <2>2. v \in Threads /\ Of[v] = Of[u]
    BY <2>1
  <2>3. text[v] = text[u] /\ text[u] \in Texts
    BY <2>2 DEF Init
  <2>4. mem[Of[u]] = Copied([i \in 1..Size |-> Nul], text[u])
    BY <2>1, <2>3, OfAssumption DEF Init
  <2>5. Len(text[u]) \in 0..(Size - 1) /\ Size \in Nat
    BY <2>3, OfText
  <2>. QED BY <2>4, <2>5 DEF Copied, Stands
<1>2. TextsStand
  BY <1>1 DEF Init, TextsStand
<1>3. ASSUME NEW t \in Threads PROVE FoundElement(t) /\ StoredElements(t)
  <2>1. pc[t] = "count" /\ tokens[t] = <<>>
    BY DEF Init
  <2>2. 1..Len(tokens[t]) = {}
    BY <2>1
  <2>. QED BY <2>1, <2>2 DEF FoundElement, StoredElements
<1>. QED BY <1>2, <1>3 DEF MixInv

\* The steps outside strtok that store nothing.
LEMMA QuietStands ==
  ASSUME IInv, MixInv, NEW t \in Threads, Count(t) \/ Allocate(t) \/ End(t)
  PROVE  MixInv'
<1>1. /\ pc' = [pc EXCEPT ![t] = pc'[t]] /\ pc'[t] \notin {"cut", "save", "store", "next"}
      /\ UNCHANGED <<mem, olds, at, tokens, calls, text>>
  <2>1. pc \in [Threads -> {"count", "allocate", "first", "cut", "save", "store", "next",
                            "end", "done", "aborted"}]
    BY DEF IInv, TypeOK
  <2>2. CASE Count(t)
    BY <2>1, <2>2 DEF Count
  <2>3. CASE Allocate(t)
    BY <2>1, <2>3 DEF Allocate
  <2>4. CASE End(t)
    BY <2>1, <2>4 DEF End
  <2>. QED BY <2>2, <2>3, <2>4
<1>2. TextsStand'
  BY <1>1 DEF MixInv, TextsStand
<1>3. ASSUME NEW u \in Threads PROVE FoundElement(u)' /\ StoredElements(u)'
  <2>1. FoundElement(u) /\ StoredElements(u)
    BY DEF MixInv
  <2>2. pc'[u] = pc[u] \/ pc'[u] \notin {"cut", "save", "store", "next"}
    <3>1. CASE u = t
      BY <1>1, <3>1
    <3>2. CASE u # t
      BY <1>1, <3>2 DEF IInv, TypeOK
    <3>. QED BY <3>1, <3>2
  <2>3. StoredElements(u)'
    BY <1>1, <2>1 DEF StoredElements
  <2>. QED BY <1>1, <2>1, <2>2, <2>3 DEF FoundElement
<1>. QED BY <1>2, <1>3 DEF MixInv

\* A step of strtok changes neither texts nor tokens, and of the threads only its own.
LEMMA OthersStand ==
  ASSUME MixInv, NEW t \in Threads, NEW u \in Threads, u # t, pc'[u] = pc[u],
         UNCHANGED <<tokens, text>>, at'[u] = at[u],
         \A v \in Threads :
           /\ mem'[Of[v]][at[u].end] = Nul \/ mem[Of[v]][at[u].end] # Nul
           /\ \A start, end, cut : Cuts(mem[Of[v]], text[v], start, end, cut)
                                     => Cuts(mem'[Of[v]], text[v], start, end, cut)
  PROVE  FoundElement(u)'
<1>1. FoundElement(u)
  BY DEF MixInv
<1>. QED BY <1>1 DEF FoundElement

LEMMA FindStands ==
  ASSUME IInv, MixInv, NEW t \in Threads, Find(t)
  PROVE  MixInv'
<1>1. PICK b, p, start, end :
        /\ b = From(t)[1] /\ p = From(t)[2]
        /\ start = Min({i \in p..Size : mem[b][i] # Delim})
        /\ end = Until(mem[b], start, {Delim, Nul})
  OBVIOUS
<1>2. /\ pc[t] \in {"first", "next"} /\ pc' = [pc EXCEPT ![t] = "cut"]
      /\ at' = [at EXCEPT ![t] = [buffer |-> b, start |-> start, end |-> end,
                                  cut |-> mem[b][end] # Nul]]
      /\ UNCHANGED <<mem, olds, tokens, calls, text>>
  BY <1>1 DEF Find
<1>3. ASSUME NEW u \in Threads, b = Of[u]
      PROVE  Begins(mem[Of[u]], text[u], p) /\ Stands(mem[Of[u]], text[u])
  <2>1. Stands(mem[Of[u]], text[u])
    BY DEF MixInv, TextsStand
  <2>2. CASE pc[t] = "first"
    <3>1. p = 1
      BY <1>1, <2>2 DEF From
    <3>2. text[u] \in Texts /\ Len(text[u]) \in Nat
      BY OfText DEF IInv, TypeOK
    <3>. QED BY <2>1, <3>1, <3>2 DEF Begins
  <2>3. CASE pc[t] = "next"
    <3>1. olds # Null /\ olds[1] = b /\ olds[2] = p
      BY <1>1, <2>3 DEF From, IInv, TypeOK
    <3>. QED BY <1>3, <2>1, <3>1 DEF MixInv, TextsStand
  <2>. QED BY <1>2, <2>2, <2>3
<1>4. ASSUME NEW u \in Threads, b = Of[u]
      PROVE  Cuts(mem[Of[u]], text[u], start, end, mem[b][end] # Nul)
  <2>1. /\ text[u] \in Texts /\ mem[Of[u]] \in [1..Size -> Chars] /\ mem[Of[u]][Size] = Nul
    BY ThreadType DEF IInv, TypeOK
  <2>2. PICK m : m = mem[Of[u]]
    OBVIOUS
  <2>3. /\ start = Min({i \in p..Size : m[i] # Delim})
        /\ end = Until(m, start, {Delim, Nul})
    BY <1>1, <1>4, <2>2
  <2>4. PICK s : s = text[u]
    OBVIOUS
  <2>5. /\ s \in Texts /\ m \in [1..Size -> Chars] /\ m[Size] = Nul
        /\ Begins(m, s, p) /\ Stands(m, s)
    BY <1>3, <1>4, <2>1, <2>2, <2>4
  <2>6. Cuts(m, s, start, end, m[end] # Nul)
    BY ONLY <2>3, <2>5, FindsElement
  <2>. QED BY <1>4, <2>2, <2>4, <2>6
<1>5. /\ at'[t].buffer = b /\ at'[t].start = start /\ at'[t].end = end
      /\ at'[t].cut = (mem[b][end] # Nul)
  <2>1. at'[t] = [buffer |-> b, start |-> start, end |-> end, cut |-> mem[b][end] # Nul]
    BY <1>2 DEF IInv, TypeOK
  <2>2. PICK c \in BOOLEAN : c = (mem[b][end] # Nul)
    OBVIOUS
  <2>3. at'[t] = [buffer |-> b, start |-> start, end |-> end, cut |-> c]
    BY ONLY <2>1, <2>2, Zenon
  <2>4. /\ at'[t].buffer = b /\ at'[t].start = start /\ at'[t].end = end /\ at'[t].cut = c
    BY ONLY <2>3
  <2>. QED BY <2>2, <2>4
<1>6. pc'[t] = "cut"
  BY <1>2 DEF IInv, TypeOK
<1>7. tokens[t] = <<>> => b = Of[t]
  <2>1. CASE pc[t] = "first"
    BY <1>1, <2>1 DEF From
  <2>2. CASE pc[t] = "next"
    BY <2>2 DEF MixInv, FoundElement
  <2>. QED BY <1>2, <2>1, <2>2
<1>8. FoundElement(t)'
  <2>1. ASSUME NEW u \in Threads, at'[t].buffer = Of[u]
        PROVE  Cuts(mem'[Of[u]], text'[u], at'[t].start, at'[t].end, at'[t].cut)
    <3>1. Cuts(mem[Of[u]], text[u], start, end, mem[b][end] # Nul)
      BY <1>4, <1>5, <2>1
    <3>. QED BY ONLY <1>2, <1>5, <3>1
  <2>. QED BY <1>2, <1>5, <1>6, <1>7, <2>1 DEF FoundElement
<1>9. ASSUME NEW u \in Threads, u # t PROVE FoundElement(u)'
  <2>1. pc'[u] = pc[u] /\ at'[u] = at[u]
    BY <1>2, <1>9 DEF IInv, TypeOK
  <2>. QED BY <1>2, <1>9, <2>1, OthersStand
<1>10. TextsStand' /\ \A u \in Threads : StoredElements(u)'
  BY <1>2 DEF MixInv, TextsStand, StoredElements
<1>. QED BY <1>8, <1>9, <1>10 DEF MixInv

LEMMA CutStands ==
  ASSUME IInv, MixInv, NEW t \in Threads, Cut(t)
  PROVE  MixInv'
<1>1. /\ pc[t] = "cut" /\ pc' = [pc EXCEPT ![t] = "save"] /\ pc'[t] = "save"
      /\ UNCHANGED <<olds, at, tokens, calls, text>>
  BY DEF Cut, IInv, TypeOK
<1>2. ASSUME NEW u \in Threads, at[t].buffer = Of[u]
      PROVE  Cuts(mem[Of[u]], text[u], at[t].start, at[t].end, at[t].cut)
  BY <1>1, <1>2 DEF MixInv, FoundElement
<1>3. ASSUME NEW u \in Threads
      PROVE  /\ Stands(mem'[Of[u]], text[u])
             /\ at[t].buffer = Of[u] => mem'[Of[u]][at[t].end] = Nul
             /\ \A i \in 1..(Len(text[u]) + 1) : mem[Of[u]][i] = Nul => mem'[Of[u]][i] = Nul
             /\ \A p : Begins(mem[Of[u]], text[u], p) => Begins(mem'[Of[u]], text[u], p)
             /\ \A start, end, cut : Cuts(mem[Of[u]], text[u], start, end, cut)
                                       => Cuts(mem'[Of[u]], text[u], start, end, cut)
  <2>1. /\ text[u] \in Texts /\ mem[Of[u]] \in [1..Size -> Chars] /\ Stands(mem[Of[u]], text[u])
        /\ Of[u] \in Buffers
    BY ThreadType, OfAssumption DEF MixInv, TextsStand, IInv, TypeOK
  <2>2. CASE at[t].cut /\ at[t].buffer = Of[u]
    <3>1. PICK m, c, e : m = mem[Of[u]] /\ c = mem'[Of[u]] /\ e = at[t].end
      OBVIOUS
    <3>2. e \in 1..Len(text[u]) /\ text[u][e] = Delim
      <4>1. Len(text[u]) \in Nat
        BY <2>1, OfText
      <4>. QED BY <1>2, <2>2, <3>1, <4>1 DEF Cuts
    <3>3. c = [m EXCEPT ![e] = Nul]
      BY <2>1, <2>2, <3>1 DEF Cut, IInv, TypeOK
    <3>4. /\ Stands(c, text[u]) /\ c[e] = Nul
          /\ \A p : Begins(m, text[u], p) => Begins(c, text[u], p)
          /\ \A start, end, cut : Cuts(m, text[u], start, end, cut) => Cuts(c, text[u], start, end, cut)
      BY <2>1, <3>1, <3>2, <3>3, CutLater
    <3>5. \A i \in 1..(Len(text[u]) + 1) : m[i] = Nul => c[i] = Nul
      <4>1. Len(text[u]) \in 0..(Size - 1) /\ Size \in Nat
        BY <2>1, OfText
      <4>. QED BY <2>1, <3>1, <3>3, <4>1
    <3>. QED BY <3>1, <3>4, <3>5
  <2>3. CASE ~(at[t].cut /\ at[t].buffer = Of[u])
    <3>1. mem'[Of[u]] = mem[Of[u]]
      BY <2>1, <2>3 DEF Cut, IInv, TypeOK
    <3>2. at[t].buffer = Of[u] => mem[Of[u]][at[t].end] = Nul
      BY <1>2, <2>3 DEF Cuts
    <3>. QED BY <2>1, <3>1, <3>2
  <2>. QED BY <2>2, <2>3
<1>4. TextsStand'
  BY <1>1, <1>3 DEF MixInv, TextsStand
<1>5. FoundElement(t)'
  <2>1. FoundElement(t)
    BY DEF MixInv
  <2>. QED BY <1>1, <1>2, <1>3, <2>1 DEF FoundElement
<1>6. ASSUME NEW u \in Threads, u # t PROVE FoundElement(u)'
  <2>1. pc'[u] = pc[u]
    BY <1>1, <1>6 DEF IInv, TypeOK
  <2>2. FoundElement(u)
    BY DEF MixInv
  <2>3. ASSUME NEW v \in Threads, pc[u] \in {"cut", "save", "store"}, at[u].buffer = Of[v]
        PROVE  /\ Cuts(mem'[Of[v]], text[v], at[u].start, at[u].end, at[u].cut)
               /\ pc[u] # "cut" => mem'[Of[v]][at[u].end] = Nul
    <3>1. /\ Cuts(mem[Of[v]], text[v], at[u].start, at[u].end, at[u].cut)
          /\ pc[u] # "cut" => mem[Of[v]][at[u].end] = Nul
      BY <2>2, <2>3 DEF FoundElement
    <3>2. at[u].end \in 1..(Len(text[v]) + 1)
      <4>1. text[v] \in Texts /\ Len(text[v]) \in Nat
        BY OfText DEF IInv, TypeOK
      <4>. QED BY <3>1, <4>1 DEF Cuts
    <3>. QED BY <1>3, <3>1, <3>2
  <2>. QED BY <1>1, <2>1, <2>2, <2>3 DEF FoundElement
<1>7. \A u \in Threads : StoredElements(u)'
  BY <1>1 DEF MixInv, StoredElements
<1>. QED BY <1>4, <1>5, <1>6, <1>7 DEF MixInv

LEMMA SaveStands ==
  ASSUME IInv, MixInv, NEW t \in Threads, Save(t)
  PROVE  MixInv'
<1>1. /\ pc[t] = "save" /\ pc'[t] = IF at[t].start = at[t].end THEN "end" ELSE "store"
      /\ olds' = <<at[t].buffer, IF at[t].cut THEN at[t].end + 1 ELSE at[t].end>>
      /\ UNCHANGED <<mem, at, tokens, calls, text>>
      /\ \A u \in Threads : u # t => pc'[u] = pc[u]
  BY DEF Save, IInv, TypeOK
<1>2. ASSUME NEW u \in Threads, at[t].buffer = Of[u]
      PROVE  /\ Cuts(mem[Of[u]], text[u], at[t].start, at[t].end, at[t].cut)
             /\ mem[Of[u]][at[t].end] = Nul /\ Len(text[u]) \in Nat
  <2>1. Len(text[u]) \in Nat
    BY OfText DEF IInv, TypeOK
  <2>. QED BY <1>1, <1>2, <2>1 DEF MixInv, FoundElement
<1>3. ASSUME NEW u \in Threads, olds'[1] = Of[u]
      PROVE  Begins(mem[Of[u]], text[u], olds'[2])
  <2>1. at[t].buffer = Of[u]
    BY <1>1, <1>3
  <2>2. CASE at[t].cut
    <3>1. olds'[2] = at[t].end + 1
      BY <1>1, <2>2
    <3>2. at[t].end \in 1..Len(text[u]) /\ text[u][at[t].end] = Delim
      BY <1>2, <2>1, <2>2 DEF Cuts
    <3>3. (at[t].end + 1) - 1 = at[t].end /\ at[t].end + 1 \in 1..(Len(text[u]) + 1)
      BY <1>2, <2>1, <3>2
    <3>. QED BY <3>1, <3>2, <3>3 DEF Begins
  <2>3. CASE ~at[t].cut
    <3>1. olds'[2] = at[t].end
      BY <1>1, <2>3
    <3>2. at[t].end \in 1..(Len(text[u]) + 1)
      BY <1>2, <2>1 DEF Cuts
    <3>. QED BY <1>2, <2>1, <3>1, <3>2 DEF Begins
  <2>. QED BY <2>2, <2>3
<1>4. TextsStand'
  BY <1>1, <1>3 DEF MixInv, TextsStand
<1>5. FoundElement(t)'
  <2>1. at[t].start # at[t].end => at[t].start < at[t].end
    <3>1. PICK u \in Threads : Of[u] = at[t].buffer
      BY OfAssumption DEF IInv, TypeOK
    <3>2. Cuts(mem[Of[u]], text[u], at[t].start, at[t].end, at[t].cut) /\ Len(text[u]) \in Nat
      BY <1>2, <3>1
    <3>. QED BY <3>2 DEF Cuts
  <2>2. FoundElement(t)
    BY DEF MixInv
  <2>. QED BY <1>1, <1>2, <2>1, <2>2 DEF FoundElement
<1>6. ASSUME NEW u \in Threads, u # t PROVE FoundElement(u)'
  <2>1. FoundElement(u)
    BY DEF MixInv
  <2>. QED BY <1>1, <1>6, <2>1 DEF FoundElement
<1>7. \A u \in Threads : StoredElements(u)'
  BY <1>1 DEF MixInv, StoredElements
<1>. QED BY <1>4, <1>5, <1>6, <1>7 DEF MixInv

LEMMA StoreStands ==
  ASSUME IInv, MixInv, NEW t \in Threads, Store(t)
  PROVE  MixInv'
<1>1. /\ pc[t] = "store" /\ UNCHANGED <<mem, olds, at, calls, text>>
      /\ \A u \in Threads : u # t => pc'[u] = pc[u] /\ tokens'[u] = tokens[u]
  <2>1. CASE Len(tokens[t]) < count[t]
    BY <2>1 DEF Store, IInv, TypeOK
  <2>2. CASE ~(Len(tokens[t]) < count[t])
    BY <2>2 DEF Store, IInv, TypeOK
  <2>. QED BY <2>1, <2>2
<1>2. TextsStand'
  BY <1>1 DEF MixInv, TextsStand
<1>3. ASSUME NEW u \in Threads, u # t PROVE FoundElement(u)' /\ StoredElements(u)'
  <2>1. FoundElement(u) /\ StoredElements(u)
    BY DEF MixInv
  <2>2. StoredElements(u)'
    BY <1>1, <1>3, <2>1 DEF StoredElements
  <2>. QED BY <1>1, <1>3, <2>1, <2>2 DEF FoundElement
<1>4. FoundElement(t)' /\ StoredElements(t)'
  <2>. DEFINE tok == String(mem[at[t].buffer], at[t].start)
  <2>1. FoundElement(t) /\ StoredElements(t)
    BY DEF MixInv
  <2>2. PICK u \in Threads : Of[u] = at[t].buffer
    BY OfAssumption DEF IInv, TypeOK
  <2>3. /\ Cuts(mem[Of[u]], text[u], at[t].start, at[t].end, at[t].cut)
        /\ mem[Of[u]][at[t].end] = Nul /\ at[t].start < at[t].end
    BY <1>1, <2>1, <2>2 DEF FoundElement
  <2>4. ElementOf(tok, text[u])
    <3>1. /\ text[u] \in Texts /\ mem[Of[u]] \in [1..Size -> Chars] /\ Stands(mem[Of[u]], text[u])
      BY ThreadType DEF MixInv, TextsStand, IInv, TypeOK
    <3>2. PICK m, i, e : m = mem[Of[u]] /\ i = at[t].start /\ e = at[t].end
      OBVIOUS
    <3>3. /\ i \in 1..(Len(text[u]) + 1) /\ e \in i..(Len(text[u]) + 1) /\ i < e
          /\ Element(text[u], i, e) /\ m[e] = Nul
      BY <2>3, <3>2 DEF Cuts
    <3>4. ElementOf(String(m, i), text[u])
      BY <3>1, <3>2, <3>3, StoredElement
    <3>. QED BY <2>2, <3>2, <3>4
  <2>5. tokens[t] = <<>> => text[u] = text[t]
    <3>. HAVE tokens[t] = <<>>
    <3>1. Of[u] = Of[t]
      BY <1>1, <2>1, <2>2 DEF FoundElement
    <3>. QED BY <3>1 DEF MixInv, TextsStand
  <2>. HIDE DEF tok
  <2>6. CASE Len(tokens[t]) < count[t]
    <3>1. tokens'[t] = Append(tokens[t], tok) /\ pc'[t] = "next"
      BY <2>6 DEF Store, tok, IInv, TypeOK
    <3>2. tokens[t] \in Seq(Seq(Chars)) /\ Len(tokens[t]) \in Nat
      BY DEF IInv, TypeOK
    <3>3. PICK ts, n : ts = tokens[t] /\ n = Len(ts)
      OBVIOUS
    <3>4. /\ Len(Append(ts, tok)) = n + 1 /\ Append(ts, tok)[n + 1] = tok
          /\ \A i \in 1..n : Append(ts, tok)[i] = ts[i]
      BY <3>2, <3>3
    <3>5. n \in Nat /\ (n = 0 => ts = <<>>)
      BY <3>2, <3>3
    <3>6. ASSUME NEW i \in 1..Len(tokens'[t])
          PROVE  /\ \E v \in Threads : ElementOf(tokens'[t][i], text'[v])
                 /\ i = 1 => ElementOf(tokens'[t][i], text'[t])
      <4>1. i \in 1..n \/ i = n + 1
        BY <3>1, <3>3, <3>4, <3>5
      <4>2. CASE i \in 1..n
        BY <1>1, <2>1, <3>1, <3>3, <3>4, <4>2 DEF StoredElements
      <4>3. CASE i = n + 1
        <5>1. tokens'[t][i] = tok
          BY <3>1, <3>3, <3>4, <4>3
        <5>2. i = 1 => text[u] = text[t]
          BY <2>5, <3>3, <3>5, <4>3
        <5>. QED BY <1>1, <2>4, <5>1, <5>2
      <4>. QED BY <4>1, <4>2, <4>3
    <3>7. StoredElements(t)'
      BY <3>6 DEF StoredElements
    <3>8. tokens'[t] # <<>>
      <4>1. Len(tokens'[t]) # 0
        BY <3>1, <3>3, <3>4, <3>5
      <4>. QED BY <4>1
    <3>. QED BY <3>1, <3>7, <3>8 DEF FoundElement
  <2>7. CASE ~(Len(tokens[t]) < count[t])
    <3>1. tokens' = tokens /\ pc'[t] = "aborted"
      BY <2>7 DEF Store, IInv, TypeOK
    <3>2. StoredElements(t)'
      BY <1>1, <2>1, <3>1 DEF StoredElements
    <3>. QED BY <3>1, <3>2 DEF FoundElement
  <2>. QED BY <2>6, <2>7
<1>. QED BY <1>2, <1>3, <1>4 DEF MixInv

LEMMA MixKeeps == IInv /\ (Fresh => MixInv) /\ [Next]_vars => (Fresh => MixInv)'
<1>. SUFFICES ASSUME IInv, Fresh => MixInv, [Next]_vars, Fresh' PROVE MixInv'
  OBVIOUS
<1>1. ASSUME NEW t \in Threads, Step(t) PROVE MixInv'
  <2>1. CASE Again(t)
    <3>1. calls[t] \in 1..MaxCalls /\ calls'[t] = calls[t] + 1 /\ MaxCalls \in Nat
      BY <2>1, TextsAssumption DEF Again, IInv, TypeOK
    <3>2. calls'[t] = 1
      BY DEF Fresh
    <3>. QED BY <3>1, <3>2
  <2>2. CASE ~Again(t)
    <3>1. calls' = calls
      BY <1>1, <2>2 DEF Step, Count, Allocate, Find, Cut, Save, Store, End
    <3>2. MixInv
      BY <3>1 DEF Fresh
    <3>. QED BY <1>1, <2>2, <3>2, QuietStands, FindStands, CutStands, SaveStands, StoreStands
           DEF Step
  <2>. QED BY <2>1, <2>2
<1>2. CASE UNCHANGED vars
  <2>1. UNCHANGED <<mem, olds, pc, at, tokens, calls, text>>
    BY <1>2 DEF vars
  <2>2. MixInv
    BY <2>1 DEF Fresh
  <2>. QED BY <2>1, <2>2 DEF MixInv, TextsStand, FoundElement, StoredElements
<1>. QED
  BY <1>1, <1>2 DEF Next

\* However the threads interleave in strtok, every token stored is a whole element of
\* the text of one of them, and the first of a thread is of its own text, as long as
\* no buffer is used twice.
THEOREM AllTokensAreElements == Spec => []TokensAreElements
<1>1. (Fresh => MixInv) => TokensAreElements
  BY DEF Fresh, MixInv, StoredElements, TokensAreElements
<1>2. Init => (Fresh => MixInv)
  BY InitStands
<1>. QED
  BY InitEstablishes, StepKeeps, MixKeeps, <1>1, <1>2, PTL DEF Spec

=============================================================================
