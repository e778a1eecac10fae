---------------------------- MODULE BinlogProofs ----------------------------
(***************************************************************************)
(* Proofs about Binlog, for any transactions, files, lost connections and  *)
(* restarts, any capacity of the channel and any limit of the offsets:     *)
(* what is delivered is what was committed, and the source is the abstract *)
(* change source the pipeline relies on.                                   *)
(***************************************************************************)
EXTENDS Binlog, TLAPS, SequenceTheorems

(***************************************************************************)
(* Sequences of anything.                                                  *)
(***************************************************************************)

\* A sequence is a function on 1..n.
LEMMA SeqIsFunction ==
    ASSUME NEW s, IsSeq(s)
    PROVE  /\ Len(s) \in Nat /\ DOMAIN s = 1..Len(s)
           /\ s = [i \in 1..Len(s) |-> s[i]]
           /\ s = <<>> <=> Len(s) = 0
  BY DEF IsSeq

LEMMA FunctionIsSeq ==
    ASSUME NEW n \in Nat, NEW f, DOMAIN f = 1..n, f = [i \in 1..n |-> f[i]]
    PROVE  IsSeq(f) /\ Len(f) = n
  BY DEF IsSeq

LEMMA TypedIsSeq ==
    ASSUME NEW S, NEW s \in Seq(S)
    PROVE  IsSeq(s)
<1>1. Len(s) \in Nat /\ DOMAIN s = 1..Len(s) /\ s = [i \in 1..Len(s) |-> s[i]]
  BY LenProperties
<1> QED
  BY <1>1, FunctionIsSeq

LEMMA SameSeq ==
    ASSUME NEW s, NEW t, IsSeq(s), IsSeq(t), Len(s) = Len(t),
           \A i \in 1..Len(s) : s[i] = t[i]
    PROVE  s = t
  BY SeqIsFunction

LEMMA ShortSeqs == IsSeq(<<>>) /\ \A e : IsSeq(<<e>>) /\ Len(<<e>>) = 1 /\ <<e>>[1] = e
  BY DEF IsSeq

LEMMA AppendSeq ==
    ASSUME NEW s, IsSeq(s), NEW e
    PROVE  /\ IsSeq(Append(s, e)) /\ Len(Append(s, e)) = Len(s) + 1
           /\ \A i \in 1..Len(s) : Append(s, e)[i] = s[i]
           /\ Append(s, e)[Len(s) + 1] = e
<1> DEFINE S == {s[i] : i \in DOMAIN s}
<1>1. s \in Seq(S \cup {e}) /\ e \in S \cup {e}
  BY DEF IsSeq
<1>2. Append(s, e) \in Seq(S \cup {e})
  BY <1>1
<1>3. IsSeq(Append(s, e))
  BY <1>2, TypedIsSeq
<1> QED
  BY <1>1, <1>3

LEMMA ConcatSeq ==
    ASSUME NEW s, IsSeq(s), NEW t, IsSeq(t)
    PROVE  /\ IsSeq(s \o t) /\ Len(s \o t) = Len(s) + Len(t)
           /\ \A i \in 1..Len(s) : (s \o t)[i] = s[i]
           /\ \A i \in 1..Len(t) : (s \o t)[Len(s) + i] = t[i]
<1> DEFINE S == {s[i] : i \in DOMAIN s} \cup {t[i] : i \in DOMAIN t}
<1>1. s \in Seq(S) /\ t \in Seq(S)
  BY DEF IsSeq
<1>2. Len(s) \in Nat /\ Len(t) \in Nat
  BY <1>1, LenProperties
<1>3. /\ s \o t \in Seq(S) /\ Len(s \o t) = Len(s) + Len(t)
      /\ \A i \in 1..(Len(s) + Len(t)) :
            (s \o t)[i] = IF i <= Len(s) THEN s[i] ELSE t[i - Len(s)]
  BY <1>1, ConcatProperties
<1>4. \A i \in 1..Len(s) : (s \o t)[i] = s[i]
  BY <1>2, <1>3
<1>5. ASSUME NEW i \in 1..Len(t) PROVE (s \o t)[Len(s) + i] = t[i]
  <2>1. Len(s) + i \in 1..(Len(s) + Len(t)) /\ ~ (Len(s) + i <= Len(s)) /\ Len(s) + i - Len(s) = i
    BY <1>2
  <2> QED
    BY <1>3, <2>1
<1> QED
  BY <1>3, <1>4, <1>5, TypedIsSeq

LEMMA TailSeq ==
    ASSUME NEW s, IsSeq(s), s # <<>>
    PROVE  /\ IsSeq(Tail(s)) /\ Len(Tail(s)) = Len(s) - 1 /\ Len(s) \in Nat \ {0}
           /\ \A i \in 1..(Len(s) - 1) : Tail(s)[i] = s[i + 1]
<1> DEFINE S == {s[i] : i \in DOMAIN s}
<1>1. s \in Seq(S)
  BY DEF IsSeq
<1>2. /\ Tail(s) \in Seq(S) /\ Len(Tail(s)) = Len(s) - 1
      /\ \A i \in 1..Len(Tail(s)) : Tail(s)[i] = s[i + 1]
  BY <1>1, HeadTailProperties
<1>3. Len(s) \in Nat \ {0}
  BY <1>1, EmptySeq
<1> QED
  BY <1>2, <1>3, TypedIsSeq

LEMMA SubSeqSeq ==
    ASSUME NEW s, IsSeq(s), NEW k \in 0..Len(s)
    PROVE  /\ IsSeq(SubSeq(s, 1, k)) /\ Len(SubSeq(s, 1, k)) = k
           /\ \A i \in 1..k : SubSeq(s, 1, k)[i] = s[i]
<1> DEFINE S == {s[i] : i \in DOMAIN s}
<1>1. Len(s) \in Nat /\ DOMAIN s = 1..Len(s)
  BY SeqIsFunction
<1>2. k \in Int /\ 1 \in Int /\ \A i \in 1..k : s[i] \in S
  BY <1>1
<1>3. /\ SubSeq(s, 1, k) \in Seq(S)
      /\ Len(SubSeq(s, 1, k)) = IF 1 <= k THEN k - 1 + 1 ELSE 0
      /\ \A i \in 1..(k - 1 + 1) : SubSeq(s, 1, k)[i] = s[1 + i - 1]
  <2> HIDE DEF S
  <2> QED
    BY <1>2, SubSeqProperties
<1>4. k \in Nat /\ k - 1 + 1 = k /\ \A i \in 1..k : 1 + i - 1 = i
  BY <1>1
<1>5. IsSeq(SubSeq(s, 1, k))
  <2> HIDE DEF S
  <2> QED
    BY <1>3, TypedIsSeq
<1>6. Len(SubSeq(s, 1, k)) = k
  BY <1>3, <1>4
<1>7. \A i \in 1..k : SubSeq(s, 1, k)[i] = s[i]
  BY <1>3, <1>4
<1> QED
  BY <1>5, <1>6, <1>7

\* The sequence u is s, then t.
Joins(s, t, u) ==
    /\ IsSeq(u) /\ Len(u) = Len(s) + Len(t)
    /\ \A i \in 1..Len(s) : u[i] = s[i]
    /\ \A i \in 1..Len(t) : u[Len(s) + i] = t[i]

LEMMA ConcatJoins ==
    ASSUME NEW s, IsSeq(s), NEW t, IsSeq(t), NEW u, u = s \o t
    PROVE  Joins(s, t, u)
<1>1. /\ IsSeq(s \o t) /\ Len(s \o t) = Len(s) + Len(t)
      /\ \A i \in 1..Len(s) : (s \o t)[i] = s[i]
      /\ \A i \in 1..Len(t) : (s \o t)[Len(s) + i] = t[i]
  BY ConcatSeq
<1> QED
  BY <1>1 DEF Joins

\* The sequence t is s between the elements a and z.
Frames(a, s, z, t) ==
    /\ IsSeq(t) /\ Len(t) = Len(s) + 2
    /\ t[1] = a /\ t[Len(s) + 2] = z
    /\ \A k \in 1..Len(s) : t[1 + k] = s[k]

LEMMA FramedSeq ==
    ASSUME NEW a, NEW z, NEW s, IsSeq(s)
    PROVE  Frames(a, s, z, <<a>> \o s \o <<z>>)
<1>1. Len(s) \in Nat
  BY SeqIsFunction
<1>2. IsSeq(<<a>>) /\ Len(<<a>>) = 1 /\ <<a>>[1] = a /\ IsSeq(<<z>>) /\ Len(<<z>>) = 1 /\ <<z>>[1] = z
  BY ShortSeqs
<1>3. PICK A : A = <<a>>
  OBVIOUS
<1>4. PICK Z : Z = <<z>>
  OBVIOUS
<1>5. PICK B : B = A \o s
  OBVIOUS
<1>6. /\ IsSeq(A) /\ Len(A) = 1 /\ A[1] = a
      /\ IsSeq(Z) /\ Len(Z) = 1 /\ Z[1] = z
  BY <1>2, <1>3, <1>4
<1>7. /\ IsSeq(B) /\ Len(B) = Len(A) + Len(s)
      /\ \A i \in 1..Len(A) : B[i] = A[i]
      /\ \A i \in 1..Len(s) : B[Len(A) + i] = s[i]
  <2>1. Joins(A, s, B)
    BY <1>5, <1>6, ConcatJoins
  <2> QED
    BY <2>1 DEF Joins
<1>8. PICK t : t = B \o Z
  OBVIOUS
<1>9. /\ IsSeq(t) /\ Len(t) = Len(B) + Len(Z)
      /\ \A i \in 1..Len(B) : t[i] = B[i]
      /\ \A i \in 1..Len(Z) : t[Len(B) + i] = Z[i]
  <2>1. Joins(B, Z, t)
    BY <1>6, <1>7, <1>8, ConcatJoins
  <2> QED
    BY <2>1 DEF Joins
<1>10. Frames(a, s, z, t)
  BY <1>1, <1>6, <1>7, <1>9 DEF Frames
<1> QED
  BY <1>3, <1>4, <1>5, <1>8, <1>10

-----------------------------------------------------------------------------
(***************************************************************************)
(* The log.                                                                *)
(***************************************************************************)

\* readLoop reads out of a rows event what the statement did.
LEMMA ParsedIsEffect ==
    ASSUME NEW stmt \in Statement, NEW id
    PROVE  RowsOf(RowsEvent(stmt, id)) = Effects(stmt, id)
<1>1. stmt.count \in Nat \ {0} /\ stmt.action \in {"insert", "update", "delete"}
  BY DEF Statement
<1> DEFINE n == stmt.count
           a == stmt.action
           ims == Images(stmt, id)
<1>2. RowsOf(RowsEvent(stmt, id)) = ParseRowChanges(a, ims)
  BY DEF RowsOf, RowsEvent
<1>3. CASE a = "insert"
  <2>1. ims = [j \in 1..n |-> Image(id, j, "after")]
    BY <1>3 DEF Images
  <2>2. Len(ims) = n
    BY <1>1, <2>1
  <2> QED
    BY <1>1, <1>2, <1>3, <2>1, <2>2 DEF ParseRowChanges, Effects
<1>4. CASE a = "delete"
  <2>1. ims = [j \in 1..n |-> Image(id, j, "before")]
    BY <1>4 DEF Images
  <2>2. Len(ims) = n
    BY <1>1, <2>1
  <2> QED
    BY <1>1, <1>2, <1>4, <2>1, <2>2 DEF ParseRowChanges, Effects
<1>5. CASE a = "update"
  <2>1. ims = [j \in 1..(2 * n) |->
                  Image(id, (j + 1) \div 2, IF j % 2 = 1 THEN "before" ELSE "after")]
    BY <1>5 DEF Images
  <2>2. Len(ims) = 2 * n /\ Len(ims) \div 2 = n
    BY <1>1, <2>1
  <2>3. ASSUME NEW i \in 1..n
        PROVE  ims[2 * i - 1] = Image(id, i, "before") /\ ims[2 * i] = Image(id, i, "after")
    <3>1. /\ 2 * i - 1 \in 1..(2 * n) /\ 2 * i \in 1..(2 * n)
          /\ (2 * i - 1 + 1) \div 2 = i /\ (2 * i + 1) \div 2 = i
          /\ (2 * i - 1) % 2 = 1 /\ (2 * i) % 2 = 0
      BY <1>1
    <3> QED
      BY <2>1, <3>1
  <2> QED
    BY <1>1, <1>2, <1>5, <2>2, <2>3 DEF ParseRowChanges, Effects
<1> QED
  BY <1>1, <1>3, <1>4, <1>5

\* Only one group is open at a time.
LEMMA InsideUnique ==
    ASSUME NEW f, NEW n \in Nat, NEW b \in 1..n, NEW c \in 1..n, Inside(f, b, n), Inside(f, c, n)
    PROVE  b = c
<1>1. ~ (b < c) /\ ~ (c < b)
  BY DEF Inside
<1> QED
  BY <1>1

\* The event behind a place opens a group, or adds to the one that is open.
LEMMA InsideStep ==
    ASSUME NEW f, NEW n \in Nat, NEW b \in 1..(n + 1)
    PROVE  Inside(f, b, n + 1) <=>
              \/ b = n + 1 /\ files[f][n + 1].kind = "begin"
              \/ b \in 1..n /\ Inside(f, b, n) /\ files[f][n + 1].kind = "rows"
<1>1. CASE b = n + 1
  BY <1>1 DEF Inside
<1>2. CASE b # n + 1
  <2>1. b \in 1..n /\ (b + 1)..(n + 1) = (b + 1)..n \cup {n + 1}
    BY <1>2
  <2> QED
    BY <1>2, <2>1 DEF Inside
<1> QED
  BY <1>1, <1>2

\* An open group goes on: the next event is one of its rows or its end.
LEMMA OpenGroupGoesOn ==
    ASSUME LTypes, GroupsAreWhole, NEW f \in DOMAIN files, NEW n \in 0..Len(files[f]),
           NEW b \in 1..n, Inside(f, b, n)
    PROVE  n < Len(files[f]) /\ files[f][n + 1].kind \in {"rows", "xid", "commit", "rollback"}
<1>1. Len(files[f]) \in Nat /\ DOMAIN files[f] = 1..Len(files[f])
  BY SeqIsFunction DEF LTypes
<1>2. files[f][b].kind = "begin" /\ WholeAt(f, b)
  BY <1>1 DEF Inside, GroupsAreWhole
<1>3. PICK e \in (b + 1)..Len(files[f]) :
         files[f][e].kind \in {"xid", "commit", "rollback"} /\ Inside(f, b, e - 1)
  BY <1>2 DEF WholeAt
<1>4. ~ (e <= n)
  BY <1>1, <1>3 DEF Inside
<1>5. CASE n + 1 = e
  BY <1>1, <1>3, <1>5
<1>6. CASE n + 1 < e
  <2>1. n + 1 \in (b + 1)..(e - 1) /\ n < Len(files[f])
    BY <1>1, <1>6
  <2> QED
    BY <1>3, <2>1 DEF Inside
<1> QED
  BY <1>1, <1>4, <1>5, <1>6

LEMMA FileEndsOutside ==
    ASSUME LTypes, GroupsAreWhole, NEW f \in DOMAIN files
    PROVE  Outside(f, Len(files[f]))
<1>1. Len(files[f]) \in Nat
  BY SeqIsFunction DEF LTypes
<1> QED
  BY <1>1, OpenGroupGoesOn DEF Outside

\* The log only grows.
SameEvents ==
    \A f \in DOMAIN files :
        /\ f \in DOMAIN files' /\ Len(files[f]) <= Len(files'[f])
        /\ \A n \in 1..Len(files[f]) : files'[f][n] = files[f][n]

LEMMA InsideStays ==
    ASSUME LTypes, SameEvents, NEW f \in DOMAIN files, NEW n \in 0..Len(files[f])
    PROVE  /\ \A b \in 1..n : Inside(f, b, n)' <=> Inside(f, b, n)
           /\ \A b \in 1..n : Collected(f, b, n)' = Collected(f, b, n)
           /\ Outside(f, n)' <=> Outside(f, n)
<1>1. Len(files[f]) \in Nat /\ n \in Nat /\ \A m \in 1..n : files'[f][m] = files[f][m]
  BY SeqIsFunction DEF LTypes, SameEvents
<1>2. ASSUME NEW b \in 1..n
      PROVE  (Inside(f, b, n)' <=> Inside(f, b, n)) /\ Collected(f, b, n)' = Collected(f, b, n)
  <2>1. (b + 1)..n \subseteq 1..n /\ \A k \in 1..(n - b) : b + k \in 1..n
    BY <1>1
  <2>2. Inside(f, b, n)' <=> Inside(f, b, n)
    BY <1>1, <2>1 DEF Inside
  <2>3. Collected(f, b, n)' = Collected(f, b, n)
    BY <1>1, <2>1 DEF Collected, RowsOf, ParseRowChanges
  <2> QED
    BY <2>2, <2>3
<1> QED
  BY <1>2 DEF Outside

LEMMA EventStays ==
    ASSUME LTypes, SameEvents, NEW f \in DOMAIN files, NEW e \in 1..Len(files[f])
    PROVE  /\ Ends(f, e)' <=> Ends(f, e)
           /\ \A changes : EventCommits(f, e, changes) => EventCommits(f, e, changes)'
<1>1. Len(files[f]) \in Nat /\ files'[f][e] = files[f][e]
  BY SeqIsFunction DEF LTypes, SameEvents
<1>2. e - 1 \in 0..Len(files[f])
  BY <1>1
<1>3. /\ \A b \in 1..(e - 1) : Inside(f, b, e - 1)' <=> Inside(f, b, e - 1)
      /\ \A b \in 1..(e - 1) : Collected(f, b, e - 1)' = Collected(f, b, e - 1)
      /\ Outside(f, e - 1)' <=> Outside(f, e - 1)
  BY <1>2, InsideStays
<1>4. RowsOf(files[f][e])' = RowsOf(files[f][e])
  BY <1>1 DEF RowsOf, ParseRowChanges
<1> QED
  BY <1>1, <1>3, <1>4 DEF Ends, EventCommits, DDLChange

\* Events are added to the last file, whatever is done with the result.
LEMMA Grown ==
    ASSUME LTypes, NEW events, IsSeq(events),
           NEW g, g = [files EXCEPT ![LastFile] = files[LastFile] \o events]
    PROVE  LET L == Len(files)
               N == Len(files[L])
           IN  /\ IsSeq(g) /\ Len(g) = L /\ \A f \in 1..L : IsSeq(g[f])
               /\ \A f \in 1..L : f # L => g[f] = files[f]
               /\ L \in Nat \ {0} /\ N \in Nat /\ Len(g[L]) = N + Len(events)
               /\ \A n \in 1..N : g[L][n] = files[L][n]
               /\ \A k \in 1..Len(events) : g[L][N + k] = events[k]
<1> DEFINE L == Len(files)
           N == Len(files[L])
<1>1. /\ L \in Nat \ {0} /\ DOMAIN files = 1..L /\ files = [f \in 1..L |-> files[f]]
      /\ \A f \in 1..L : IsSeq(files[f])
  BY SeqIsFunction DEF LTypes
<1>2. N \in Nat /\ Len(events) \in Nat
  BY <1>1, SeqIsFunction
<1>3. /\ IsSeq(files[L] \o events) /\ Len(files[L] \o events) = N + Len(events)
      /\ \A n \in 1..N : (files[L] \o events)[n] = files[L][n]
      /\ \A k \in 1..Len(events) : (files[L] \o events)[N + k] = events[k]
  BY <1>1, ConcatSeq
<1>4. /\ DOMAIN g = 1..L /\ g = [f \in 1..L |-> g[f]]
      /\ g[L] = files[L] \o events /\ \A f \in 1..L : f # L => g[f] = files[f]
  <2> DEFINE w == files[L] \o events
  <2>1. g = [files EXCEPT ![L] = w]
    BY DEF LastFile
  <2>2. L \in 1..L
    BY <1>1
  <2> HIDE DEF L, w
  <2>3. DOMAIN g = 1..L /\ g = [f \in 1..L |-> g[f]] /\ g[L] = w
    BY <1>1, <2>1, <2>2
  <2>4. \A f \in 1..L : f # L => g[f] = files[f]
    BY <1>1, <2>1
  <2> QED
    BY <2>3, <2>4 DEF w
<1>5. IsSeq(g) /\ Len(g) = L
  BY <1>1, <1>4, FunctionIsSeq
<1> QED
  BY <1>1, <1>2, <1>3, <1>4, <1>5

\* What a step of the server leaves of the log: the events there were, then
\* some more, then perhaps an empty file.
GrowsBy(events) ==
    LET L == Len(files)
        N == Len(files[L])
    IN  /\ IsSeq(files') /\ Len(files') \in {L, L + 1} /\ \A f \in DOMAIN files' : IsSeq(files'[f])
        /\ \A f \in 1..L : f # L => files'[f] = files[f]
        /\ Len(files'[L]) = N + Len(events)
        /\ \A n \in 1..N : files'[L][n] = files[L][n]
        /\ \A k \in 1..Len(events) : files'[L][N + k] = events[k]
        /\ Len(files') = L + 1 => files'[L + 1] = <<>>

LEMMA LogGrows ==
    ASSUME LTypes, NEW events, IsSeq(events), Log(events)
    PROVE  GrowsBy(events) /\ Len(files') = Len(files)
<1>1. files' = [files EXCEPT ![LastFile] = files[LastFile] \o events]
  BY DEF Log
<1> DEFINE L == Len(files)
           N == Len(files[L])
<1>2. /\ IsSeq(files') /\ Len(files') = L /\ \A f \in 1..L : IsSeq(files'[f])
      /\ \A f \in 1..L : f # L => files'[f] = files[f]
      /\ L \in Nat \ {0} /\ N \in Nat /\ Len(files'[L]) = N + Len(events)
      /\ \A n \in 1..N : files'[L][n] = files[L][n]
      /\ \A k \in 1..Len(events) : files'[L][N + k] = events[k]
  <2> DEFINE g == [files EXCEPT ![LastFile] = files[LastFile] \o events]
  <2>1. files' = g
    BY <1>1
  <2>2. /\ IsSeq(g) /\ Len(g) = L /\ \A f \in 1..L : IsSeq(g[f])
        /\ \A f \in 1..L : f # L => g[f] = files[f]
        /\ L \in Nat \ {0} /\ N \in Nat /\ Len(g[L]) = N + Len(events)
        /\ \A n \in 1..N : g[L][n] = files[L][n]
        /\ \A k \in 1..Len(events) : g[L][N + k] = events[k]
    BY Grown
  <2> HIDE DEF g, L, N
  <2> QED
    BY <2>1, <2>2
<1>3. DOMAIN files' = 1..L
  BY <1>2, SeqIsFunction
<1>4. Len(files') # L + 1
  <2> HIDE DEF L
  <2> QED
    BY <1>2
<1>5. GrowsBy(events) <=>
        /\ IsSeq(files') /\ Len(files') \in {L, L + 1} /\ \A f \in DOMAIN files' : IsSeq(files'[f])
        /\ \A f \in 1..L : f # L => files'[f] = files[f]
        /\ Len(files'[L]) = N + Len(events)
        /\ \A n \in 1..N : files'[L][n] = files[L][n]
        /\ \A k \in 1..Len(events) : files'[L][N + k] = events[k]
        /\ Len(files') = L + 1 => files'[L + 1] = <<>>
  BY DEF GrowsBy
<1> HIDE DEF N
<1>6. Len(files') = L
  BY <1>2
<1> HIDE DEF L
<1>7. GrowsBy(events)
  BY <1>2, <1>3, <1>4, <1>5
<1> QED
  BY <1>6, <1>7 DEF L

LEMMA NewFileGrows ==
    ASSUME LTypes, NEW events, IsSeq(events), NewFile(events)
    PROVE  GrowsBy(events) /\ Len(files') = Len(files) + 1
<1> DEFINE L == Len(files)
           N == Len(files[L])
           g == [files EXCEPT ![LastFile] = files[LastFile] \o events]
<1>1. files' = Append(g, <<>>)
  BY DEF NewFile
<1>2. /\ IsSeq(g) /\ Len(g) = L /\ \A f \in 1..L : IsSeq(g[f])
      /\ \A f \in 1..L : f # L => g[f] = files[f]
      /\ L \in Nat \ {0} /\ N \in Nat /\ Len(g[L]) = N + Len(events)
      /\ \A n \in 1..N : g[L][n] = files[L][n]
      /\ \A k \in 1..Len(events) : g[L][N + k] = events[k]
  BY Grown
<1> HIDE DEF g
<1>3. /\ IsSeq(files') /\ Len(files') = L + 1
      /\ \A f \in 1..L : files'[f] = g[f]
      /\ files'[L + 1] = <<>>
  BY <1>1, <1>2, AppendSeq
<1>4. DOMAIN files' = 1..(L + 1) /\ L \in 1..L
  BY <1>2, <1>3, SeqIsFunction
<1>5. ASSUME NEW f \in DOMAIN files' PROVE IsSeq(files'[f])
  <2>1. CASE f \in 1..L
    BY <1>2, <1>3, <2>1
  <2>2. CASE f = L + 1
    BY <1>3, <2>2, ShortSeqs
  <2> QED
    BY <1>2, <1>4, <2>1, <2>2
<1> QED
  BY <1>2, <1>3, <1>4, <1>5 DEF GrowsBy

\* An event is an old one, one of the last file, or none.
LEMMA OldOrNew ==
    ASSUME LTypes, NEW events, IsSeq(events), GrowsBy(events)
    PROVE  LET L == Len(files)
               N == Len(files[L])
           IN  /\ SameEvents /\ DOMAIN files = 1..L /\ DOMAIN files' = 1..Len(files')
               /\ L \in Nat \ {0} /\ N \in Nat /\ Len(events) \in Nat
               /\ L \in DOMAIN files /\ L \in DOMAIN files'
               /\ \A f \in DOMAIN files : Len(files[f]) \in Nat /\ DOMAIN files[f] = 1..Len(files[f])
               /\ \A f \in DOMAIN files' : /\ Len(files'[f]) \in Nat
                                           /\ DOMAIN files'[f] = 1..Len(files'[f])
               /\ \A f \in DOMAIN files' : \A n \in DOMAIN files'[f] :
                     \/ f \in DOMAIN files /\ n \in DOMAIN files[f]
                     \/ f = L /\ n \in (N + 1)..(N + Len(events))
<1> DEFINE L == Len(files)
           N == Len(files[L])
<1>1. /\ L \in Nat \ {0} /\ DOMAIN files = 1..L /\ \A f \in 1..L : IsSeq(files[f])
      /\ L \in DOMAIN files
  BY SeqIsFunction DEF LTypes
<1>2. \A f \in DOMAIN files : Len(files[f]) \in Nat /\ DOMAIN files[f] = 1..Len(files[f])
  BY <1>1, SeqIsFunction
<1>3. Len(events) \in Nat /\ N \in Nat
  BY <1>1, <1>2, SeqIsFunction
<1>4. IsSeq(files') /\ Len(files') \in {L, L + 1} /\ \A f \in DOMAIN files' : IsSeq(files'[f])
  BY DEF GrowsBy
<1>5. DOMAIN files' = 1..Len(files') /\ L \in DOMAIN files'
  BY <1>1, <1>4, SeqIsFunction
<1> DEFINE M == Len(files')
<1>10. M \in Nat /\ M \in {L, L + 1} /\ DOMAIN files' = 1..M
  <2> HIDE DEF L
  <2>1. M \in {L, L + 1} /\ DOMAIN files' = 1..M
    BY <1>4, <1>5
  <2> HIDE DEF M
  <2> QED
    BY <1>1, <2>1
<1>6. \A f \in DOMAIN files' : Len(files'[f]) \in Nat /\ DOMAIN files'[f] = 1..Len(files'[f])
  BY <1>4, SeqIsFunction
<1>7. /\ \A f \in 1..L : f # L => files'[f] = files[f]
      /\ Len(files'[L]) = N + Len(events)
      /\ \A n \in 1..N : files'[L][n] = files[L][n]
      /\ Len(files') = L + 1 => files'[L + 1] = <<>>
  BY DEF GrowsBy
<1> HIDE DEF L, N, M
<1>8. SameEvents
  <2>1. ASSUME NEW f \in DOMAIN files
        PROVE  /\ f \in DOMAIN files' /\ Len(files[f]) <= Len(files'[f])
               /\ \A n \in 1..Len(files[f]) : files'[f][n] = files[f][n]
    <3>1. f \in DOMAIN files'
      BY <1>1, <1>10
    <3>2. CASE f = L
      <4>1. Len(files[f]) = N
        BY <3>2 DEF N
      <4> QED
        BY <1>3, <1>7, <3>1, <3>2, <4>1
    <3>3. CASE f # L
      BY <1>1, <1>2, <1>7, <3>1, <3>3
    <3> QED
      BY <3>2, <3>3
  <2> QED
    BY <2>1 DEF SameEvents
<1>9. ASSUME NEW f \in DOMAIN files', NEW n \in DOMAIN files'[f]
      PROVE  \/ f \in DOMAIN files /\ n \in DOMAIN files[f]
             \/ f = L /\ n \in (N + 1)..(N + Len(events))
  <2>1. CASE f = L
    <3>1. Len(files[f]) = N
      BY <2>1 DEF N
    <3> QED
      BY <1>1, <1>2, <1>3, <1>6, <1>7, <2>1, <3>1
  <2>2. CASE f = L + 1
    <3>1. files'[f] = <<>>
      <4>1. M = L + 1
        BY <1>1, <1>10, <2>2
      <4> QED
        BY <1>7, <2>2, <4>1 DEF M
    <3> QED
      BY <1>6, <3>1
  <2>3. CASE f \in 1..L /\ f # L
    BY <1>1, <1>7, <2>3
  <2> QED
    BY <1>1, <1>10, <2>1, <2>2, <2>3
<1> QED
  BY <1>1, <1>2, <1>3, <1>5, <1>6, <1>8, <1>9 DEF L, N

\* Groups stay whole if the new ones are.
LEMMA WholeGrows ==
    ASSUME LTypes, GroupsAreWhole, NEW events, IsSeq(events), GrowsBy(events),
           NEW L, L = Len(files), NEW N, N = Len(files[L]),
           \A n \in (N + 1)..(N + Len(events)) : WholeAt(L, n)'
    PROVE  GroupsAreWhole'
<1>1. /\ SameEvents /\ DOMAIN files = 1..L /\ L \in Nat \ {0}
      /\ \A f \in DOMAIN files : Len(files[f]) \in Nat /\ DOMAIN files[f] = 1..Len(files[f])
      /\ \A f \in DOMAIN files' : \A n \in DOMAIN files'[f] :
            \/ f \in DOMAIN files /\ n \in DOMAIN files[f]
            \/ f = L /\ n \in (N + 1)..(N + Len(events))
  BY OldOrNew
<1>2. ASSUME NEW f \in DOMAIN files, NEW n \in DOMAIN files[f]
      PROVE  WholeAt(f, n)'
  <2>1. n \in 1..Len(files[f]) /\ files'[f][n] = files[f][n] /\ WholeAt(f, n)
        /\ Len(files[f]) \in Nat /\ Len(files[f]) <= Len(files'[f])
    BY <1>1 DEF SameEvents, GroupsAreWhole
  <2>2. ASSUME files'[f][n].kind = "begin"
        PROVE  \E e \in (n + 1)..Len(files'[f]) :
                  files'[f][e].kind \in {"xid", "commit", "rollback"} /\ Inside(f, n, e - 1)'
    <3>1. PICK e \in (n + 1)..Len(files[f]) :
             files[f][e].kind \in {"xid", "commit", "rollback"} /\ Inside(f, n, e - 1)
      BY <2>1, <2>2 DEF WholeAt
    <3>2. e - 1 \in 0..Len(files[f]) /\ n \in 1..(e - 1) /\ e \in 1..Len(files[f])
      BY <2>1, <3>1
    <3>3. Inside(f, n, e - 1)' /\ files'[f][e] = files[f][e]
      BY <1>1, <3>1, <3>2, InsideStays DEF SameEvents
    <3>4. e \in (n + 1)..Len(files'[f])
      <4>1. Len(files'[f]) \in Nat
        BY <1>1, OldOrNew DEF SameEvents
      <4> QED
        BY <2>1, <3>1, <4>1
    <3> QED
      BY <3>1, <3>3, <3>4
  <2>3. files'[f][n].kind \in {"xid", "commit", "rollback"} => ~ Outside(f, n - 1)'
    <3>1. n - 1 \in 0..Len(files[f])
      BY <2>1
    <3>2. Outside(f, n - 1)' <=> Outside(f, n - 1)
      BY <1>1, <3>1, InsideStays
    <3> QED
      BY <2>1, <3>2 DEF WholeAt
  <2>4. files'[f][n].kind = "rotate" => n = Len(files'[f]) /\ f < Len(files')
    <3>1. files[f][n].kind = "rotate" => n = Len(files[f]) /\ f < L
      BY <2>1 DEF WholeAt
    <3>2. Len(files') \in {L, L + 1} /\ (f # L => files'[f] = files[f])
      BY <1>1 DEF GrowsBy
    <3> QED
      BY <1>1, <2>1, <3>1, <3>2
  <2> QED
    BY <2>2, <2>3, <2>4 DEF WholeAt
<1>3. ASSUME NEW f \in DOMAIN files', NEW n \in DOMAIN files'[f]
      PROVE  WholeAt(f, n)'
  BY <1>1, <1>2
<1> QED
  BY <1>3 DEF GroupsAreWhole

\* The event a committed transaction ends with.
LEMMA CommittedAt ==
    ASSUME LTypes, CommittedIsLogged, NEW i \in DOMAIN committed
    PROVE  \E f \in DOMAIN files : \E e \in 1..Len(files[f]) :
              /\ committed[i] = [position |-> Coordinate(f, e), changes |-> committed[i].changes]
              /\ committed[i].position = Coordinate(f, e)
              /\ committed[i].position.file = f /\ committed[i].position.position = Start + e
              /\ EventCommits(f, e, committed[i].changes)
<1>1. PICK f \in DOMAIN files : \E e \in DOMAIN files[f] :
         /\ committed[i] = [position |-> Coordinate(f, e), changes |-> committed[i].changes]
         /\ EventCommits(f, e, committed[i].changes)
  BY DEF CommittedIsLogged
<1>2. PICK e \in DOMAIN files[f] :
         /\ committed[i] = [position |-> Coordinate(f, e), changes |-> committed[i].changes]
         /\ EventCommits(f, e, committed[i].changes)
  BY <1>1
<1>3. e \in 1..Len(files[f])
  BY SeqIsFunction DEF LTypes
<1>4. committed[i].position = Coordinate(f, e)
  BY <1>2
<1>5. committed[i].position.file = f /\ committed[i].position.position = Start + e
  BY <1>4 DEF Coordinate
<1> QED
  BY <1>2, <1>3, <1>4, <1>5

\* What was committed stays where it is in the log.
LEMMA CommittedStays ==
    ASSUME LTypes, SameEvents, CommittedIsLogged, NEW i \in DOMAIN committed,
           \A f \in DOMAIN files' : DOMAIN files'[f] = 1..Len(files'[f]) /\ Len(files'[f]) \in Nat,
           NEW tx, tx = committed[i]
    PROVE  \E f \in DOMAIN files' : \E e \in DOMAIN files'[f] :
              /\ tx = [position |-> Coordinate(f, e), changes |-> tx.changes]
              /\ EventCommits(f, e, tx.changes)'
<1>1. PICK f \in DOMAIN files : \E e \in 1..Len(files[f]) :
         /\ committed[i] = [position |-> Coordinate(f, e), changes |-> committed[i].changes]
         /\ EventCommits(f, e, committed[i].changes)
  BY CommittedAt
<1>2. PICK e \in 1..Len(files[f]) :
         /\ tx = [position |-> Coordinate(f, e), changes |-> tx.changes]
         /\ EventCommits(f, e, tx.changes)
  BY <1>1
<1>3. \A changes : EventCommits(f, e, changes) => EventCommits(f, e, changes)'
  BY EventStays
<1>4. f \in DOMAIN files' /\ e \in DOMAIN files'[f]
  BY SeqIsFunction DEF SameEvents, LTypes
<1> QED
  BY <1>2, <1>3, <1>4

\* Events that end no transaction leave the log in order.
LEMMA LogWithoutCommit ==
    ASSUME LTypes, LogInv, NEW events, IsSeq(events), GrowsBy(events),
           NEW L, L = Len(files), NEW N, N = Len(files[L]),
           \A n \in (N + 1)..(N + Len(events)) : WholeAt(L, n)' /\ ~ Ends(L, n)',
           committed' = committed
    PROVE  LogInv'
<1>1. /\ SameEvents /\ DOMAIN files = 1..L
      /\ \A f \in DOMAIN files : Len(files[f]) \in Nat /\ DOMAIN files[f] = 1..Len(files[f])
      /\ \A f \in DOMAIN files' : Len(files'[f]) \in Nat /\ DOMAIN files'[f] = 1..Len(files'[f])
      /\ \A f \in DOMAIN files' : \A n \in DOMAIN files'[f] :
            \/ f \in DOMAIN files /\ n \in DOMAIN files[f]
            \/ f = L /\ n \in (N + 1)..(N + Len(events))
  BY OldOrNew
<1>2. GroupsAreWhole'
  BY WholeGrows DEF LogInv
<1>3. CommittedIsLogged'
  <2>1. ASSUME NEW i \in DOMAIN committed
        PROVE  \E f \in DOMAIN files' : \E e \in DOMAIN files'[f] :
                  /\ committed'[i] = [position |-> Coordinate(f, e), changes |-> committed'[i].changes]
                  /\ EventCommits(f, e, committed[i].changes)'
    BY <1>1, CommittedStays DEF LogInv
  <2> QED
    BY <2>1 DEF CommittedIsLogged, Coordinate
<1>4. LoggedIsCommitted'
  <2>1. ASSUME NEW f \in DOMAIN files', NEW e \in DOMAIN files'[f], Ends(f, e)'
        PROVE  \E i \in DOMAIN committed' : committed'[i].position = Coordinate(f, e)
    <3>1. f \in DOMAIN files /\ e \in 1..Len(files[f])
      BY <1>1, <2>1
    <3>2. Ends(f, e)
      BY <1>1, <2>1, <3>1, EventStays
    <3> QED
      BY <1>1, <3>1, <3>2 DEF LogInv, LoggedIsCommitted
  <2> QED
    BY <2>1 DEF LoggedIsCommitted, Coordinate
<1>5. CommittedInOrder'
  BY DEF LogInv, CommittedInOrder, Before
<1> QED
  BY <1>2, <1>3, <1>4, <1>5 DEF LogInv

\* Events that end one transaction, which is added to the committed ones.
LEMMA LogWithCommit ==
    ASSUME LTypes, LogInv, NEW events, IsSeq(events), GrowsBy(events),
           NEW L, L = Len(files), NEW N, N = Len(files[L]),
           NEW e \in (N + 1)..(N + Len(events)), NEW changes, EventCommits(L, e, changes)',
           \A n \in (N + 1)..(N + Len(events)) : WholeAt(L, n)' /\ (Ends(L, n)' => n = e),
           committed' = Append(committed, [position |-> Coordinate(L, e), changes |-> changes])
    PROVE  LogInv'
<1>1. /\ SameEvents /\ DOMAIN files = 1..L /\ L \in Nat \ {0} /\ N \in Nat /\ L \in DOMAIN files'
      /\ Len(events) \in Nat
      /\ \A f \in DOMAIN files : Len(files[f]) \in Nat /\ DOMAIN files[f] = 1..Len(files[f])
      /\ \A f \in DOMAIN files' : Len(files'[f]) \in Nat /\ DOMAIN files'[f] = 1..Len(files'[f])
      /\ \A f \in DOMAIN files' : \A n \in DOMAIN files'[f] :
            \/ f \in DOMAIN files /\ n \in DOMAIN files[f]
            \/ f = L /\ n \in (N + 1)..(N + Len(events))
  BY OldOrNew
<1> DEFINE tx == [position |-> Coordinate(L, e), changes |-> changes]
           K == Len(committed)
<1>2. /\ K \in Nat /\ DOMAIN committed = 1..K
      /\ DOMAIN committed' = 1..(K + 1) /\ committed'[K + 1] = tx
      /\ \A i \in 1..K : committed'[i] = committed[i]
  <2>1. IsSeq(committed)
    BY DEF LTypes
  <2>2. /\ IsSeq(committed') /\ Len(committed') = K + 1 /\ committed'[K + 1] = tx
        /\ \A i \in 1..K : committed'[i] = committed[i]
    BY <2>1, AppendSeq
  <2> QED
    BY <2>1, <2>2, SeqIsFunction
<1> HIDE DEF K
<1>3. GroupsAreWhole'
  BY WholeGrows DEF LogInv
<1>4. e \in DOMAIN files'[L]
  <2>1. Len(files'[L]) = N + Len(events)
    BY DEF GrowsBy
  <2> QED
    BY <1>1, <2>1
<1>5. CommittedIsLogged'
  <2>1. ASSUME NEW i \in 1..K
        PROVE  \E f \in DOMAIN files' : \E d \in DOMAIN files'[f] :
                  /\ committed'[i] = [position |-> Coordinate(f, d), changes |-> committed'[i].changes]
                  /\ EventCommits(f, d, committed[i].changes)'
    <3>1. PICK t : t = committed[i]
      OBVIOUS
    <3>2. PICK f \in DOMAIN files' : \E d \in DOMAIN files'[f] :
              /\ t = [position |-> Coordinate(f, d), changes |-> t.changes]
              /\ EventCommits(f, d, t.changes)'
      BY <1>1, <1>2, <3>1, CommittedStays DEF LogInv
    <3>3. committed'[i] = t
      BY <1>2, <3>1
    <3> QED
      BY <3>2, <3>3
  <2>2. /\ committed'[K + 1] = [position |-> Coordinate(L, e), changes |-> committed'[K + 1].changes]
        /\ committed'[K + 1].changes = changes
    BY <1>2
  <2>3. ASSUME NEW i \in DOMAIN committed'
        PROVE  \E f \in DOMAIN files' : \E d \in DOMAIN files'[f] :
                  /\ committed'[i] = [position |-> Coordinate(f, d), changes |-> committed'[i].changes]
                  /\ EventCommits(f, d, committed[i].changes)'
    <3>1. CASE i \in 1..K
      BY <2>1, <3>1
    <3>2. CASE i = K + 1
      BY <1>1, <1>4, <2>2, <3>2
    <3> QED
      BY <1>2, <3>1, <3>2
  <2> QED
    BY <2>3 DEF CommittedIsLogged, Coordinate
<1>6. LoggedIsCommitted'
  <2>1. ASSUME NEW f \in DOMAIN files', NEW d \in DOMAIN files'[f], Ends(f, d)'
        PROVE  \E i \in DOMAIN committed' : committed'[i].position = Coordinate(f, d)
    <3>1. CASE f \in DOMAIN files /\ d \in DOMAIN files[f]
      <4>1. Ends(f, d) /\ d \in 1..Len(files[f])
        BY <1>1, <2>1, <3>1, EventStays
      <4>2. PICK i \in DOMAIN committed : committed[i].position = Coordinate(f, d)
        BY <3>1, <4>1 DEF LogInv, LoggedIsCommitted
      <4> QED
        BY <1>2, <4>2
    <3>2. CASE f = L /\ d \in (N + 1)..(N + Len(events))
      <4>1. d = e
        BY <2>1, <3>2
      <4> QED
        BY <1>2, <3>2, <4>1
    <3> QED
      BY <1>1, <3>1, <3>2
  <2> QED
    BY <2>1 DEF LoggedIsCommitted, Coordinate
<1>7. CommittedInOrder'
  <2>1. ASSUME NEW i \in 1..K, NEW j \in 1..K, i < j
        PROVE  Before(committed'[i].position, committed'[j].position)
    BY <1>2, <2>1 DEF LogInv, CommittedInOrder
  <2>2. ASSUME NEW i \in 1..K PROVE Before(committed'[i].position, committed'[K + 1].position)
    <3>1. PICK f \in DOMAIN files : \E d \in 1..Len(files[f]) :
              committed[i].position.file = f /\ committed[i].position.position = Start + d
      BY <1>2, CommittedAt DEF LogInv
    <3>2. PICK d \in 1..Len(files[f]) :
              committed[i].position.file = f /\ committed[i].position.position = Start + d
      BY <3>1
    <3>3. committed'[K + 1].position.file = L /\ committed'[K + 1].position.position = Start + e
      BY <1>2 DEF Coordinate
    <3>4. f \in 1..L /\ Len(files[f]) \in Nat /\ (f = L => d \in 1..N)
      BY <1>1
    <3>5. f < L \/ (f = L /\ Start + d < Start + e)
      BY <1>1, <3>4 DEF Start
    <3>6. committed'[i].position.file = f /\ committed'[i].position.position = Start + d
      BY <1>2, <3>2
    <3> QED
      BY <3>3, <3>5, <3>6 DEF Before
  <2>3. ASSUME NEW i \in 1..(K + 1), NEW j \in 1..(K + 1), i < j
        PROVE  Before(committed'[i].position, committed'[j].position)
    <3>1. i \in 1..K /\ (j \in 1..K \/ j = K + 1)
      BY <1>2, <2>3
    <3> QED
      BY <2>1, <2>2, <2>3, <3>1
  <2> QED
    BY <1>2, <2>3 DEF CommittedInOrder, Before
<1> QED
  BY <1>3, <1>5, <1>6, <1>7 DEF LogInv

\* The end of the log, before a step of the server and after it.
AtEnd(events, L, N) ==
    /\ L = LastFile /\ N = EndOfLog /\ L \in Nat \ {0} /\ N \in Nat
    /\ SameEvents /\ Outside(L, N)'
    /\ Len(files'[L]) = N + Len(events) /\ Len(files') \in {L, L + 1}
    /\ \A k \in 1..Len(events) : files'[L][N + k] = events[k]

LEMMA LogEnd ==
    ASSUME LTypes, LogInv, NEW events, IsSeq(events), GrowsBy(events),
           NEW L, L = Len(files), NEW N, N = Len(files[L])
    PROVE  AtEnd(events, L, N)
<1>1. SameEvents /\ L \in Nat \ {0} /\ N \in Nat /\ L \in DOMAIN files
  BY OldOrNew
<1>2. Outside(L, N)
  BY <1>1, FileEndsOutside DEF LogInv
<1>3. Outside(L, N)'
  <2>1. N \in 0..Len(files[L])
    BY <1>1
  <2> QED
    BY <1>1, <1>2, <2>1, InsideStays
<1>4. L = LastFile /\ N = EndOfLog
  BY DEF LastFile, EndOfLog
<1> QED
  BY <1>1, <1>3, <1>4 DEF GrowsBy, AtEnd

\* A group of rows between its begin and its end, behind everything else.
LEMMA GroupIsWhole ==
    ASSUME NEW L, NEW b \in Nat \ {0}, NEW e \in Nat, b < e,
           NEW ending \in {"xid", "commit", "rollback"},
           Len(files'[L]) = e, files'[L][b].kind = "begin", files'[L][e].kind = ending,
           \A x \in (b + 1)..(e - 1) : files'[L][x].kind = "rows"
    PROVE  /\ Inside(L, b, e - 1)'
           /\ \A n \in b..e : WholeAt(L, n)' /\ (Ends(L, n)' => n = e /\ ending # "rollback")
<1>1. \A n \in b..(e - 1) : Inside(L, b, n)'
  BY DEF Inside
<1>2. ASSUME NEW n \in (b + 1)..e PROVE ~ Outside(L, n - 1)'
  <2>1. n - 1 \in b..(e - 1) /\ b \in 1..(n - 1)
    OBVIOUS
  <2> QED
    BY <1>1, <2>1 DEF Outside
<1>3. ASSUME NEW n \in b..e
      PROVE  WholeAt(L, n)' /\ (Ends(L, n)' => n = e /\ ending # "rollback")
  <2>1. CASE n = b
    <3>1. e \in (n + 1)..Len(files'[L]) /\ e - 1 \in b..(e - 1)
      BY <2>1
    <3>2. Inside(L, n, e - 1)'
      BY <1>1, <2>1, <3>1
    <3> QED
      BY <2>1, <3>1, <3>2 DEF WholeAt, Ends
  <2>2. CASE n \in (b + 1)..(e - 1)
    <3>1. files'[L][n].kind = "rows" /\ ~ Outside(L, n - 1)'
      BY <1>2, <2>2
    <3> QED
      BY <3>1 DEF WholeAt, Ends
  <2>3. CASE n = e
    <3>1. files'[L][n].kind = ending /\ ~ Outside(L, n - 1)'
      BY <1>2, <2>3
    <3> QED
      BY <2>3, <3>1 DEF WholeAt, Ends
  <2> QED
    BY <2>1, <2>2, <2>3
<1>4. e - 1 \in b..(e - 1)
  OBVIOUS
<1> QED
  BY <1>1, <1>3, <1>4

\* What such a group commits.
LEMMA GroupCommits ==
    ASSUME NEW L, NEW b \in Nat \ {0}, NEW m \in Nat, NEW e, e = b + (m + 1),
           Inside(L, b, e - 1)', files'[L][e].kind \in {"xid", "commit"},
           NEW group, DOMAIN group = 1..m, \A k \in 1..m : group[k] \in Statement, NEW ids,
           \A k \in 1..m : files'[L][b + k] = RowsEvent(group[k], ids[k]),
           NEW changes, changes = [k \in DOMAIN group |-> Effects(group[k], ids[k])]
    PROVE  EventCommits(L, e, changes)'
<1>1. b \in 1..(e - 1) /\ (e - 1) - b = m
  OBVIOUS
<1>2. \A k \in 1..m : RowsOf(files'[L][b + k]) = Effects(group[k], ids[k])
  BY ParsedIsEffect
<1>3. [k \in DOMAIN group |-> Effects(group[k], ids[k])] = [k \in 1..m |-> RowsOf(files'[L][b + k])]
  BY <1>2
<1>4. Collected(L, b, e - 1)' = [k \in 1..m |-> RowsOf(files'[L][b + k])]
  BY <1>1 DEF Collected, RowsOf, ParseRowChanges
<1> QED
  BY <1>1, <1>3, <1>4 DEF EventCommits

\* What a step of the server does to the log and to the committed transactions.
Added(tx) ==
    /\ \E e \in Nat : e > EndOfLog /\ tx.position = Coordinate(LastFile, e)
    /\ committed' = Append(committed, tx)

Logged ==
    /\ \E events : IsSeq(events) /\ GrowsBy(events)
    /\ committed' = committed \/ \E tx : Added(tx)

LEMMA CommitAdds ==
    ASSUME NEW N \in Nat, N = EndOfLog, NEW L, L = LastFile, NEW e \in Nat, e > N, NEW changes,
           committed' = Append(committed, [position |-> Coordinate(L, e), changes |-> changes])
    PROVE  \E tx : Added(tx)
<1>1. PICK tx : tx = [position |-> Coordinate(L, e), changes |-> changes]
  OBVIOUS
<1>2. tx.position = Coordinate(L, e)
  BY <1>1
<1>3. Added(tx)
  BY <1>1, <1>2 DEF Added
<1> QED
  BY <1>3

\* A transaction: its rows lie between its begin and its end.
LEMMA TransactionLogged ==
    ASSUME LTypes, LogInv, NEW group \in Groups, NEW ending \in {"xid", "commit", "rollback"},
           LogTransaction(group, ending)
    PROVE  LogInv' /\ Logged
<1>1. PICK ids : ids = Ids(group)
  OBVIOUS
<1>2. PICK rows : rows = [k \in DOMAIN group |-> RowsEvent(group[k], ids[k])]
  OBVIOUS
<1>3. PICK events : events = <<Event("begin")>> \o rows \o <<Event(ending)>>
  OBVIOUS
<1>4. PICK m : m = Len(group)
  OBVIOUS
<1>5. m \in Nat /\ DOMAIN group = 1..m /\ \A k \in 1..m : group[k] \in Statement
  BY <1>4, BinlogAssumption
<1>6. IsSeq(rows) /\ Len(rows) = m /\ \A k \in 1..m : rows[k] = RowsEvent(group[k], ids[k])
  <2>1. DOMAIN rows = 1..m /\ rows = [i \in 1..m |-> rows[i]]
    BY <1>2, <1>5
  <2>2. \A k \in 1..m : rows[k] = RowsEvent(group[k], ids[k])
    BY <1>2, <1>5
  <2> QED
    BY <1>5, <2>1, <2>2, FunctionIsSeq
<1>7. /\ IsSeq(events) /\ Len(events) = m + 2
      /\ events[1] = Event("begin") /\ events[m + 2] = Event(ending)
      /\ \A k \in 1..m : events[1 + k] = RowsEvent(group[k], ids[k])
  <2>1. /\ IsSeq(events) /\ Len(events) = Len(rows) + 2
        /\ events[1] = Event("begin") /\ events[Len(rows) + 2] = Event(ending)
        /\ \A k \in 1..Len(rows) : events[1 + k] = rows[k]
    <3>1. PICK a : a = Event("begin")
      OBVIOUS
    <3>2. PICK z : z = Event(ending)
      OBVIOUS
    <3>3. events = <<a>> \o rows \o <<z>>
      BY <1>3, <3>1, <3>2
    <3>4. Frames(a, rows, z, events)
      BY <1>6, <3>3, FramedSeq
    <3> QED
      BY <3>1, <3>2, <3>4 DEF Frames
  <2> QED
    BY <1>6, <2>1
<1>8. Log(events) /\ GrowsBy(events)
  <2>1. Log(events)
    BY <1>1, <1>2, <1>3 DEF LogTransaction
  <2> QED
    BY <1>7, <2>1, LogGrows
<1>9. PICK L : L = Len(files)
  OBVIOUS
<1>10. PICK N : N = Len(files[L])
  OBVIOUS
<1>11. /\ L = LastFile /\ N = EndOfLog /\ N \in Nat
       /\ Len(files'[L]) = N + Len(events)
       /\ \A k \in 1..Len(events) : files'[L][N + k] = events[k]
  <2>1. AtEnd(events, L, N)
    BY <1>7, <1>8, <1>9, <1>10, LogEnd
  <2> QED
    BY <2>1 DEF AtEnd
<1>12. PICK b : b = N + 1
  OBVIOUS
<1>13. PICK e : e = b + (m + 1)
  OBVIOUS
<1>14. /\ b \in Nat \ {0} /\ e \in Nat /\ b < e /\ e = N + (m + 2) /\ N + Len(events) = e
       /\ 1 \in 1..Len(events) /\ m + 2 \in 1..Len(events)
       /\ \A k \in 1..m : 1 + k \in 1..Len(events) /\ b + k = N + (1 + k)
       /\ \A x \in (b + 1)..(e - 1) : x - b \in 1..m /\ b + (x - b) = x
  BY <1>5, <1>7, <1>11, <1>12, <1>13
<1>15. /\ files'[L][b] = Event("begin") /\ files'[L][e] = Event(ending) /\ Len(files'[L]) = e
       /\ \A k \in 1..m : files'[L][b + k] = RowsEvent(group[k], ids[k])
  BY <1>7, <1>11, <1>12, <1>14
<1>16. files'[L][b].kind = "begin" /\ files'[L][e].kind = ending
  BY <1>15 DEF Event
<1>17. \A x \in (b + 1)..(e - 1) : files'[L][x].kind = "rows"
  <2>1. ASSUME NEW x \in (b + 1)..(e - 1) PROVE files'[L][x].kind = "rows"
    <3>1. PICK k \in 1..m : b + k = x
      BY <1>14
    <3>2. files'[L][x] = RowsEvent(group[k], ids[k])
      BY <1>15, <3>1
    <3> QED
      BY <3>2 DEF RowsEvent
  <2> QED
    BY <2>1
<1>18. /\ Inside(L, b, e - 1)'
       /\ \A n \in b..e : WholeAt(L, n)' /\ (Ends(L, n)' => n = e /\ ending # "rollback")
  BY <1>14, <1>15, <1>16, <1>17, GroupIsWhole
<1>19. \A n \in (N + 1)..(N + Len(events)) : n \in b..e
  BY <1>12, <1>14
<1>20. CASE ending = "rollback"
  <2>1. committed' = committed
    BY <1>20 DEF LogTransaction
  <2>2. LogInv'
    BY <1>7, <1>8, <1>9, <1>10, <1>18, <1>19, <1>20, <2>1, LogWithoutCommit
  <2> QED
    BY <1>7, <1>8, <2>1, <2>2 DEF Logged
<1>21. CASE ending # "rollback"
  <2>1. PICK changes : changes = [k \in DOMAIN group |-> Effects(group[k], ids[k])]
    OBVIOUS
  <2>2. committed' = Append(committed, [position |-> Coordinate(L, e), changes |-> changes])
    BY <1>1, <1>4, <1>11, <1>14, <1>21, <2>1 DEF LogTransaction, Commit
  <2>3. EventCommits(L, e, changes)'
    <3>1. files'[L][e].kind \in {"xid", "commit"}
      BY <1>16, <1>21
    <3>2. \A k \in 1..m : files'[L][b + k] = RowsEvent(group[k], ids[k])
      BY <1>15
    <3>3. b \in Nat \ {0} /\ m \in Nat
      BY <1>5, <1>14
    <3>4. Inside(L, b, e - 1)'
      BY <1>18
    <3> QED
      BY <1>5, <1>13, <2>1, <3>1, <3>2, <3>3, <3>4, GroupCommits
  <2>4. e \in (N + 1)..(N + Len(events))
    BY <1>12, <1>14
  <2>5. \A n \in (N + 1)..(N + Len(events)) : WholeAt(L, n)' /\ (Ends(L, n)' => n = e)
    BY <1>18, <1>19
  <2>6. LogInv'
    BY <1>7, <1>8, <1>9, <1>10, <2>2, <2>3, <2>4, <2>5, LogWithCommit
  <2>7. e > N
    BY <1>11, <1>12, <1>14
  <2>8. \E tx : Added(tx)
    BY <1>11, <1>14, <2>2, <2>7, CommitAdds
  <2> QED
    BY <1>7, <1>8, <2>6, <2>8 DEF Logged
<1> QED
  BY <1>20, <1>21

\* A single event behind the log.
LEMMA OneEvent ==
    ASSUME LTypes, LogInv, NEW events, IsSeq(events), Len(events) = 1, GrowsBy(events),
           NEW L, L = Len(files), NEW N, N = Len(files[L])
    PROVE  /\ (N + 1)..(N + Len(events)) = {N + 1}
           /\ L = LastFile /\ N = EndOfLog /\ L \in Nat \ {0} /\ N \in Nat
           /\ Outside(L, N)' /\ N + 1 - 1 = N
           /\ Len(files'[L]) = N + 1 /\ files'[L][N + 1] = events[1]
<1>1. /\ L = LastFile /\ N = EndOfLog /\ L \in Nat \ {0} /\ N \in Nat
      /\ Outside(L, N)'
      /\ Len(files'[L]) = N + Len(events)
      /\ \A k \in 1..Len(events) : files'[L][N + k] = events[k]
  <2>1. AtEnd(events, L, N)
    BY LogEnd
  <2> QED
    BY <2>1 DEF AtEnd
<1>2. Len(files'[L]) = N + 1 /\ files'[L][N + 1] = events[1]
  BY <1>1
<1>3. N + 1 - 1 = N /\ (N + 1)..(N + Len(events)) = {N + 1}
  BY <1>1
<1> QED
  BY <1>1, <1>2, <1>3

\* A rows event outside of any group commits its own changes.
LEMMA RowCommits ==
    ASSUME NEW L, NEW n, NEW ev, NEW changes, files'[L][n] = ev, ev.kind = "rows",
           Outside(L, n - 1)', changes = <<RowsOf(ev)>>
    PROVE  EventCommits(L, n, changes)'
  BY DEF EventCommits, RowsOf, ParseRowChanges

\* A statement outside of any group commits by itself.
LEMMA StatementLogged ==
    ASSUME LTypes, LogInv, NEW stmt \in Statement, LogStatement(stmt)
    PROVE  LogInv' /\ Logged
<1>1. PICK id : id = Coordinate(LastFile, EndOfLog + 1)
  OBVIOUS
<1>2. PICK ev : ev = RowsEvent(stmt, id)
  OBVIOUS
<1>3. PICK changes : changes = <<Effects(stmt, id)>>
  OBVIOUS
<1>4. PICK events : events = <<ev>>
  OBVIOUS
<1>5. Log(events) /\ Commit(1, changes)
  BY <1>1, <1>2, <1>3, <1>4 DEF LogStatement
<1>6. IsSeq(events) /\ Len(events) = 1 /\ events[1] = ev
  BY <1>4, ShortSeqs
<1>7. GrowsBy(events)
  BY <1>5, <1>6, LogGrows
<1>8. PICK L : L = Len(files)
  OBVIOUS
<1>9. PICK N : N = Len(files[L])
  OBVIOUS
<1>10. /\ (N + 1)..(N + Len(events)) = {N + 1}
       /\ L = LastFile /\ N = EndOfLog /\ N \in Nat
       /\ Outside(L, N)' /\ N + 1 - 1 = N /\ files'[L][N + 1] = events[1]
  BY <1>6, <1>7, <1>8, <1>9, OneEvent
<1>11. ev.kind = "rows" /\ changes = <<RowsOf(ev)>> /\ files'[L][N + 1] = ev
  BY <1>2, <1>3, <1>6, <1>10, ParsedIsEffect DEF RowsEvent
<1>12. EventCommits(L, N + 1, changes)'
  <2>1. PICK n : n = N + 1
    OBVIOUS
  <2>2. n - 1 = N
    BY <1>10, <2>1
  <2>3. Outside(L, n - 1)'
    BY <1>10, <2>2
  <2>4. files'[L][n] = ev
    BY <1>11, <2>1
  <2>5. EventCommits(L, n, changes)'
    BY <1>11, <2>3, <2>4, RowCommits
  <2> QED
    BY <2>1, <2>5
<1>13. WholeAt(L, N + 1)'
  BY <1>11 DEF WholeAt
<1>14. committed' = Append(committed, [position |-> Coordinate(L, N + 1), changes |-> changes])
  BY <1>5, <1>10 DEF Commit
<1>15. LogInv'
  BY <1>6, <1>7, <1>8, <1>9, <1>10, <1>12, <1>13, <1>14, LogWithCommit
<1>16. \E tx : Added(tx)
  BY <1>10, <1>14, CommitAdds
<1> QED
  BY <1>6, <1>7, <1>15, <1>16 DEF Logged

LEMMA DDLLogged ==
    ASSUME LTypes, LogInv, LogDDL
    PROVE  LogInv' /\ Logged
<1>1. PICK ev : ev = Event("ddl")
  OBVIOUS
<1>2. PICK changes : changes = <<DDLChange>>
  OBVIOUS
<1>3. PICK events : events = <<ev>>
  OBVIOUS
<1>4. Log(events) /\ Commit(1, changes)
  BY <1>1, <1>2, <1>3 DEF LogDDL
<1>5. IsSeq(events) /\ Len(events) = 1 /\ events[1] = ev
  BY <1>3, ShortSeqs
<1>6. GrowsBy(events)
  BY <1>4, <1>5, LogGrows
<1>7. PICK L : L = Len(files)
  OBVIOUS
<1>8. PICK N : N = Len(files[L])
  OBVIOUS
<1>9. /\ (N + 1)..(N + Len(events)) = {N + 1}
      /\ L = LastFile /\ N = EndOfLog /\ N \in Nat /\ files'[L][N + 1] = events[1]
  BY <1>5, <1>6, <1>7, <1>8, OneEvent
<1>10. ev.kind = "ddl" /\ files'[L][N + 1] = ev
  BY <1>1, <1>5, <1>9 DEF Event
<1>11. EventCommits(L, N + 1, changes)'
  BY <1>2, <1>10 DEF EventCommits, DDLChange
<1>12. WholeAt(L, N + 1)'
  BY <1>10 DEF WholeAt
<1>13. committed' = Append(committed, [position |-> Coordinate(L, N + 1), changes |-> changes])
  BY <1>4, <1>9 DEF Commit
<1>14. LogInv'
  BY <1>5, <1>6, <1>7, <1>8, <1>9, <1>11, <1>12, <1>13, LogWithCommit
<1>15. \E tx : Added(tx)
  BY <1>9, <1>13, CommitAdds
<1> QED
  BY <1>5, <1>6, <1>14, <1>15 DEF Logged

LEMMA OtherLogged ==
    ASSUME LTypes, LogInv, LogOther
    PROVE  LogInv' /\ Logged
<1>1. PICK ev : ev = Event("other")
  OBVIOUS
<1>2. PICK events : events = <<ev>>
  OBVIOUS
<1>3. Log(events) /\ committed' = committed
  BY <1>1, <1>2 DEF LogOther
<1>4. IsSeq(events) /\ Len(events) = 1 /\ events[1] = ev
  BY <1>2, ShortSeqs
<1>5. GrowsBy(events)
  BY <1>3, <1>4, LogGrows
<1>6. PICK L : L = Len(files)
  OBVIOUS
<1>7. PICK N : N = Len(files[L])
  OBVIOUS
<1>8. (N + 1)..(N + Len(events)) = {N + 1} /\ files'[L][N + 1] = events[1]
  BY <1>4, <1>5, <1>6, <1>7, OneEvent
<1>9. ev.kind = "other" /\ files'[L][N + 1] = ev
  BY <1>1, <1>4, <1>8 DEF Event
<1>10. WholeAt(L, N + 1)' /\ ~ Ends(L, N + 1)'
  BY <1>9 DEF WholeAt, Ends
<1>11. \A n \in (N + 1)..(N + Len(events)) : WholeAt(L, n)' /\ ~ Ends(L, n)'
  BY <1>8, <1>10
<1>12. LogInv'
  BY <1>3, <1>4, <1>5, <1>6, <1>7, <1>11, LogWithoutCommit
<1> QED
  BY <1>3, <1>4, <1>5, <1>12 DEF Logged

\* A new file, behind a rotate event or behind nothing.
LEMMA RotateLogged ==
    ASSUME LTypes, LogInv, NewFile(<<Event("rotate")>>)
    PROVE  LogInv' /\ Logged
<1>1. PICK ev : ev = Event("rotate")
  OBVIOUS
<1>2. PICK events : events = <<ev>>
  OBVIOUS
<1>3. NewFile(events)
  BY <1>1, <1>2
<1>4. committed' = committed
  BY <1>3 DEF NewFile
<1>5. IsSeq(events) /\ Len(events) = 1 /\ events[1] = ev
  BY <1>2, ShortSeqs
<1>6. GrowsBy(events) /\ Len(files') = Len(files) + 1
  BY <1>3, <1>5, NewFileGrows
<1>7. PICK L : L = Len(files)
  OBVIOUS
<1>8. PICK N : N = Len(files[L])
  OBVIOUS
<1>9. /\ (N + 1)..(N + Len(events)) = {N + 1} /\ L \in Nat \ {0}
      /\ Len(files'[L]) = N + 1 /\ files'[L][N + 1] = events[1]
  BY <1>5, <1>6, <1>7, <1>8, OneEvent
<1>10. ev.kind = "rotate" /\ files'[L][N + 1] = ev
  BY <1>1, <1>5, <1>9 DEF Event
<1>11. L < Len(files')
  BY <1>6, <1>7, <1>9
<1>12. WholeAt(L, N + 1)' /\ ~ Ends(L, N + 1)'
  BY <1>9, <1>10, <1>11 DEF WholeAt, Ends
<1>13. \A n \in (N + 1)..(N + Len(events)) : WholeAt(L, n)' /\ ~ Ends(L, n)'
  BY <1>9, <1>12
<1>14. LogInv'
  BY <1>4, <1>5, <1>6, <1>7, <1>8, <1>13, LogWithoutCommit
<1> QED
  BY <1>4, <1>5, <1>6, <1>14 DEF Logged

LEMMA CutLogged ==
    ASSUME LTypes, LogInv, NewFile(<<>>)
    PROVE  LogInv' /\ Logged
<1>1. PICK events : events = <<>>
  OBVIOUS
<1>2. IsSeq(events) /\ Len(events) = 0
  BY <1>1, ShortSeqs
<1>3. committed' = committed
  BY DEF NewFile
<1>4. GrowsBy(events)
  BY <1>1, <1>2, NewFileGrows
<1>5. PICK L : L = Len(files)
  OBVIOUS
<1>6. PICK N : N = Len(files[L])
  OBVIOUS
<1>7. N \in Nat
  <2>1. AtEnd(events, L, N)
    BY <1>2, <1>4, <1>5, <1>6, LogEnd
  <2> QED
    BY <2>1 DEF AtEnd
<1>8. (N + 1)..(N + Len(events)) = {}
  BY <1>2, <1>7
<1>9. \A n \in (N + 1)..(N + Len(events)) : WholeAt(L, n)' /\ ~ Ends(L, n)'
  BY <1>8
<1>10. LogInv'
  BY <1>2, <1>3, <1>4, <1>5, <1>6, <1>9, LogWithoutCommit
<1> QED
  BY <1>2, <1>3, <1>4, <1>10 DEF Logged

\* Every step of the server leaves the log in order, and only adds to it.
LEMMA ServerLogs ==
    ASSUME LTypes, LogInv, ServerStep
    PROVE  LogInv' /\ Logged
<1>1. ASSUME NEW group \in Groups, NEW k \in DOMAIN group PROVE group[k] \in Statement
  BY BinlogAssumption
<1> QED
  BY <1>1, TransactionLogged, StatementLogged, DDLLogged, OtherLogged, RotateLogged, CutLogged
     DEF ServerStep

\* A step of the server touches nothing but the log.
LEMMA ServerFrame ==
    ASSUME ServerStep
    PROVE  /\ UNCHANGED <<library, reader, outCh, handed, lostAt, counters>>
           /\ \/ groups < MaxGroups /\ groups' = groups + 1
              \/ groups' = groups /\ committed' = committed
  BY DEF ServerStep, LogTransaction, LogStatement, LogDDL, LogOther, Log, NewFile

\* What the log is after a step of the server, next to what it was.
LEMMA LogAfter ==
    ASSUME LTypes, Logged
    PROVE  /\ SameEvents
           /\ IsSeq(files') /\ files' # <<>> /\ \A f \in DOMAIN files' : IsSeq(files'[f])
           /\ IsSeq(committed')
           /\ \A i \in 1..Len(committed) : committed'[i] = committed[i]
           /\ \/ Len(committed') = Len(committed)
              \/ /\ Len(committed') = Len(committed) + 1
                 /\ \E e \in Nat :
                       /\ e > EndOfLog
                       /\ committed'[Len(committed) + 1].position = Coordinate(LastFile, e)
<1>1. PICK events : IsSeq(events) /\ GrowsBy(events)
  BY DEF Logged
<1>2. SameEvents /\ DOMAIN files' = 1..Len(files') /\ Len(files) \in DOMAIN files'
  BY <1>1, OldOrNew
<1>3. IsSeq(files') /\ \A f \in DOMAIN files' : IsSeq(files'[f])
  BY <1>1 DEF GrowsBy
<1>4. files' # <<>>
  BY <1>2
<1>5. IsSeq(committed)
  BY DEF LTypes
<1>6. CASE committed' = committed
  BY <1>2, <1>3, <1>4, <1>5, <1>6
<1>7. CASE \E tx : Added(tx)
  <2>1. PICK tx : Added(tx)
    BY <1>7
  <2>2. /\ IsSeq(Append(committed, tx)) /\ Len(Append(committed, tx)) = Len(committed) + 1
        /\ \A i \in 1..Len(committed) : Append(committed, tx)[i] = committed[i]
        /\ Append(committed, tx)[Len(committed) + 1] = tx
    BY <1>5, AppendSeq
  <2>3. /\ committed' = Append(committed, tx)
        /\ \E e \in Nat : e > EndOfLog /\ tx.position = Coordinate(LastFile, e)
    BY <2>1 DEF Added
  <2> QED
    BY <1>2, <1>3, <1>4, <2>2, <2>3
<1> QED
  BY <1>6, <1>7 DEF Logged

LEMMA ServerTypes ==
    ASSUME LTypes, LogInv, ServerStep
    PROVE  LTypes'
<1>1. Logged
  BY ServerLogs
<1>2. /\ IsSeq(files') /\ files' # <<>> /\ \A f \in DOMAIN files' : IsSeq(files'[f])
      /\ IsSeq(committed')
      /\ Len(committed') = Len(committed) \/ Len(committed') = Len(committed) + 1
  BY <1>1, LogAfter
<1>3. MaxGroups \in Nat
  BY BinlogAssumption
<1>4. /\ groups \in 0..MaxGroups /\ Len(committed) <= groups
      /\ IsSeq(handed) /\ IsSeq(outCh) /\ IsSeq(sending)
      /\ lostAt \in 0..NotLost /\ Len(committed) \in Nat
  BY SeqIsFunction DEF LTypes
<1>5. /\ handed' = handed /\ outCh' = outCh /\ sending' = sending /\ lostAt' = lostAt
      /\ \/ groups < MaxGroups /\ groups' = groups + 1
         \/ groups' = groups /\ committed' = committed
  BY ServerFrame DEF reader
<1>6. groups' \in 0..MaxGroups /\ Len(committed') <= groups'
  BY <1>2, <1>3, <1>4, <1>5
<1> QED
  BY <1>2, <1>4, <1>5, <1>6 DEF LTypes, NotLost

-----------------------------------------------------------------------------
(***************************************************************************)
(* What has been delivered.                                                *)
(***************************************************************************)

\* The sequence d is made of three, the first of them h.
Parts(h, o, s, d) ==
    /\ IsSeq(d) /\ Len(d) \in Nat /\ DOMAIN d = 1..Len(d)
    /\ Len(h) \in Nat /\ Len(o) \in Nat /\ Len(s) \in Nat
    /\ Len(d) = Len(h) + Len(o) + Len(s)
    /\ \A i \in 1..Len(h) : d[i] = h[i]

LEMMA ThreeParts ==
    ASSUME NEW h, IsSeq(h), NEW o, IsSeq(o), NEW s, IsSeq(s), NEW d, d = h \o o \o s
    PROVE  Parts(h, o, s, d)
<1>1. PICK u : u = h \o o
  OBVIOUS
<1>2. Joins(h, o, u)
  BY <1>1, ConcatJoins
<1>3. Joins(u, s, d)
  <2>1. IsSeq(u) /\ d = u \o s
    BY <1>1, <1>2 DEF Joins
  <2> QED
    BY <2>1, ConcatJoins
<1>4. Len(h) \in Nat /\ Len(o) \in Nat /\ Len(s) \in Nat
  BY SeqIsFunction
<1>5. IsSeq(d) /\ Len(d) = Len(h) + Len(o) + Len(s)
  BY <1>2, <1>3, <1>4 DEF Joins
<1>6. \A i \in 1..Len(h) : d[i] = h[i]
  <2>1. \A i \in 1..Len(h) : i \in 1..Len(u)
    BY <1>2, <1>4 DEF Joins
  <2> QED
    BY <1>2, <1>3, <2>1 DEF Joins
<1>7. Len(d) \in Nat /\ DOMAIN d = 1..Len(d)
  BY <1>5, SeqIsFunction
<1> QED
  BY <1>4, <1>5, <1>6, <1>7 DEF Parts

LEMMA DeliveredIsSeq ==
    ASSUME LTypes
    PROVE  /\ IsSeq(Delivered) /\ Len(Delivered) \in Nat /\ DOMAIN Delivered = 1..Len(Delivered)
           /\ Len(handed) \in Nat /\ Len(outCh) \in Nat /\ Len(sending) \in Nat
           /\ Len(Delivered) = Len(handed) + Len(outCh) + Len(sending)
           /\ \A i \in 1..Len(handed) : Delivered[i] = handed[i]
<1>1. PICK d : d = Delivered
  OBVIOUS
<1>2. IsSeq(handed) /\ IsSeq(outCh) /\ IsSeq(sending) /\ d = handed \o outCh \o sending
  BY <1>1 DEF LTypes, Delivered
<1>3. Parts(handed, outCh, sending, d)
  BY <1>2, ThreeParts
<1> QED
  BY <1>1, <1>3 DEF Parts

\* As long as the place is not lost, no more is delivered than is committed.
LEMMA DeliveredIsCommitted ==
    ASSUME LTypes, DeliveredIsPassed, lostAt = NotLost
    PROVE  /\ Len(Delivered) \in Nat /\ Len(committed) \in Nat
           /\ Len(Delivered) <= Len(committed) /\ Len(committed) < NotLost
<1>1. Len(Delivered) \in Nat /\ DOMAIN Delivered = 1..Len(Delivered)
  BY DeliveredIsSeq
<1>2. Len(committed) \in Nat /\ DOMAIN committed = 1..Len(committed)
  BY SeqIsFunction DEF LTypes
<1>3. Len(committed) <= MaxGroups /\ MaxGroups \in Nat /\ NotLost = MaxGroups + 1
  BY <1>2, BinlogAssumption DEF LTypes, NotLost
<1>4. ~ (Len(committed) + 1 <= Len(Delivered))
  <2>1. SUFFICES ASSUME Len(committed) + 1 <= Len(Delivered) PROVE FALSE
    OBVIOUS
  <2>2. Len(committed) + 1 \in DOMAIN Delivered /\ Len(committed) + 1 <= lostAt
    BY <1>1, <1>2, <1>3, <2>1
  <2>3. Len(committed) + 1 \in DOMAIN committed
    BY <2>2 DEF DeliveredIsPassed
  <2> QED
    BY <1>2, <2>3
<1> QED
  BY <1>1, <1>2, <1>3, <1>4

\* A step of the server leaves the reader where it is, in or out of a group.
LEMMA ServerReader ==
    ASSUME LTypes, ReaderFollows, SameEvents, UNCHANGED <<library, reader>>
    PROVE  ReaderFollows'
<1>1. PICK f : f = dfile
  OBVIOUS
<1>2. PICK n : n = dnext
  OBVIOUS
<1>3. /\ dfile' = f /\ dnext' = n /\ announced' = announced /\ currentPos' = currentPos
      /\ inTx' = inTx /\ currentTx' = currentTx
  BY <1>1, <1>2 DEF library, reader
<1>4. f \in DOMAIN files /\ n \in 0..Len(files[f]) /\ (announced => currentPos.file = f)
  BY <1>1, <1>2 DEF ReaderFollows
<1>5. f \in DOMAIN files' /\ n \in 0..Len(files'[f])
  <2>1. IsSeq(files[f])
    BY <1>4 DEF LTypes
  <2>2. Len(files[f]) \in Nat /\ Len(files'[f]) \in Int
    <3>1. Len(files[f]) \in Nat
      BY <2>1, SeqIsFunction
    <3> QED
      BY <3>1
  <2> QED
    BY <1>4, <2>2 DEF SameEvents
<1>6. /\ \A b \in 1..n : Inside(f, b, n)' <=> Inside(f, b, n)
      /\ \A b \in 1..n : Collected(f, b, n)' = Collected(f, b, n)
      /\ Outside(f, n)' <=> Outside(f, n)
  BY <1>4, InsideStays
<1>7. CASE inTx
  <2>1. PICK b \in 1..n :
            /\ Inside(f, b, n)
            /\ currentTx = [position |-> [file |-> f, position |-> Narrow(Start + b)],
                            changes |-> Collected(f, b, n)]
    BY <1>1, <1>2, <1>7 DEF ReaderFollows
  <2>2. Inside(f, b, n)' /\ Collected(f, b, n)' = Collected(f, b, n)
    BY <1>6, <2>1
  <2> QED
    BY <1>3, <1>4, <1>5, <1>7, <2>1, <2>2 DEF ReaderFollows, Narrow, Start
<1>8. CASE ~ inTx
  <2>1. Outside(f, n)'
    BY <1>1, <1>2, <1>6, <1>8 DEF ReaderFollows
  <2> QED
    BY <1>3, <1>4, <1>5, <1>8, <2>1 DEF ReaderFollows, Outside, Inside
<1> QED
  BY <1>7, <1>8

\* What is committed now is behind the reader, and undelivered.
FollowsUnlessLost == lostAt = NotLost => ReaderFollows

LEMMA ServerPasses ==
    ASSUME LTypes, LogInv, DeliveredIsPassed, FollowsUnlessLost, Logged,
           Delivered' = Delivered, lostAt' = lostAt, dfile' = dfile, dnext' = dnext
    PROVE  DeliveredIsPassed'
<1>1. PICK D : D = Delivered
  OBVIOUS
<1>2. Delivered' = D /\ lostAt' = lostAt /\ dfile' = dfile /\ dnext' = dnext
  BY <1>1
<1>3. /\ \A i \in DOMAIN D : i <= lostAt => i \in DOMAIN committed /\ D[i] = AsSeen(committed[i])
      /\ lostAt = NotLost =>
            \A i \in DOMAIN committed : HasRead(committed[i].position) <=> i <= Len(D)
  BY <1>1 DEF DeliveredIsPassed
<1>4. PICK K : K = Len(committed)
  BY Zenon
<1>5. K \in Nat /\ DOMAIN committed = 1..K
  BY <1>4, SeqIsFunction DEF LTypes
<1>6. /\ \A i \in 1..K : committed'[i] = committed[i]
      /\ DOMAIN committed' = 1..Len(committed')
      /\ \/ Len(committed') = K
         \/ /\ Len(committed') = K + 1
            /\ \E e \in Nat :
                  e > EndOfLog /\ committed'[K + 1].position = Coordinate(LastFile, e)
  <2>1. IsSeq(committed')
    BY LogAfter
  <2>2. DOMAIN committed' = 1..Len(committed')
    BY <2>1, SeqIsFunction
  <2> QED
    BY <1>4, <2>2, LogAfter, Zenon
<1>7. 1..K \subseteq DOMAIN committed' /\ \A i \in DOMAIN committed' : i \in 1..K \/ i = K + 1
  <2>1. Len(committed') = K \/ Len(committed') = K + 1
    BY <1>6
  <2>2. 1..K \subseteq 1..(K + 1) /\ \A i \in 1..(K + 1) : i \in 1..K \/ i = K + 1
    BY <1>5
  <2>3. CASE Len(committed') = K
    BY <1>6, <2>3
  <2>4. CASE Len(committed') = K + 1
    BY <1>6, <2>2, <2>4, Zenon
  <2> QED
    BY <2>1, <2>3, <2>4
<1>8. ASSUME NEW i \in DOMAIN D, i <= lostAt
      PROVE  i \in DOMAIN committed' /\ D[i] = AsSeen(committed'[i])
  BY <1>3, <1>5, <1>6, <1>7, <1>8, Zenon
<1>9. ASSUME lostAt = NotLost, NEW i \in DOMAIN committed'
      PROVE  HasRead(committed'[i].position) <=> i <= Len(D)
  <2>1. CASE i \in 1..K
    BY <1>3, <1>5, <1>6, <1>9, <2>1, Zenon
  <2>2. CASE i \notin 1..K
    <3>1. /\ i = K + 1
          /\ \E e \in Nat : e > EndOfLog /\ committed'[i].position = Coordinate(LastFile, e)
      <4>1. i = K + 1 /\ K + 1 \notin 1..K
        BY <1>5, <1>7, <2>2
      <4>2. Len(committed') # K
        BY <1>6, <4>1
      <4> QED
        BY <1>6, <4>1, <4>2
    <3>2. Len(D) \in Nat /\ Len(D) <= K
      BY <1>1, <1>4, <1>9, DeliveredIsCommitted
    <3>3. PICK L : L = LastFile
      OBVIOUS
    <3>4. PICK N : N = EndOfLog
      OBVIOUS
    <3>5. L \in Nat /\ dfile \in 1..L /\ dnext \in Nat /\ (dfile = L => dnext <= N) /\ N \in Nat
      <4>1. DOMAIN files = 1..Len(files) /\ Len(files) \in Nat \ {0}
        BY SeqIsFunction DEF LTypes
      <4>2. dfile \in DOMAIN files /\ dnext \in 0..Len(files[dfile])
        BY <1>9 DEF FollowsUnlessLost, ReaderFollows
      <4>3. Len(files[dfile]) \in Nat /\ Len(files[Len(files)]) \in Nat
        BY <4>1, <4>2, SeqIsFunction DEF LTypes
      <4> QED
        BY <3>3, <3>4, <4>1, <4>2, <4>3 DEF LastFile, EndOfLog
    <3>6. PICK e \in Nat : e > N /\ committed'[i].position = Coordinate(L, e)
      BY <3>1, <3>3, <3>4
    <3>7. PICK p : p = committed'[i].position
      OBVIOUS
    <3>8. p.file = L /\ p.position = Start + e
      BY <3>6, <3>7 DEF Coordinate
    <3>9. ~ (L < dfile) /\ (L = dfile => ~ (Start + e <= Start + dnext))
      BY <3>5, <3>6 DEF Start
    <3>10. ~ HasRead(p)
      BY <3>8, <3>9 DEF HasRead
    <3> QED
      BY <1>5, <3>1, <3>2, <3>7, <3>10
  <2> QED
    BY <2>1, <2>2, Zenon
<1> QED
  BY <1>2, <1>8, <1>9 DEF DeliveredIsPassed, HasRead, AsSeen, NotLost, Narrow

\* A transaction more is delivered.
LEMMA EmitDelivers ==
    ASSUME LTypes, UNCHANGED <<handed, outCh>>, sending = <<>>, NEW tx, sending' = <<tx>>,
           NEW D, D = Delivered, NEW E, E = Delivered'
    PROVE  /\ IsSeq(sending') /\ IsSeq(E) /\ Len(D) \in Nat /\ Len(E) = Len(D) + 1
           /\ DOMAIN D = 1..Len(D) /\ DOMAIN E = 1..(Len(D) + 1)
           /\ \A i \in 1..Len(D) : E[i] = D[i]
           /\ E[Len(D) + 1] = tx
<1>1. IsSeq(handed) /\ IsSeq(outCh) /\ IsSeq(<<>>) /\ IsSeq(<<tx>>)
  BY ShortSeqs DEF LTypes
<1>2. PICK u : u = handed \o outCh
  OBVIOUS
<1>3. IsSeq(u)
  BY <1>1, <1>2, ConcatJoins DEF Joins
<1>4. PICK z : z = <<>>
  OBVIOUS
<1>5. PICK t : t = <<tx>>
  OBVIOUS
<1>6. IsSeq(z) /\ Len(z) = 0 /\ IsSeq(t) /\ Len(t) = 1 /\ t[1] = tx
  BY <1>1, <1>4, <1>5, ShortSeqs
<1>7. D = u \o z /\ E = u \o t
  BY <1>2, <1>4, <1>5 DEF Delivered
<1>8. Joins(u, z, D) /\ Joins(u, t, E)
  BY <1>3, <1>6, <1>7, ConcatJoins
<1>9. Len(u) \in Nat
  BY <1>3, SeqIsFunction
<1>10. /\ Len(D) = Len(u) /\ Len(E) = Len(u) + 1 /\ IsSeq(D) /\ IsSeq(E)
       /\ \A i \in 1..Len(u) : D[i] = u[i] /\ E[i] = u[i]
  BY <1>6, <1>8, <1>9 DEF Joins
<1>11. E[Len(u) + 1] = tx
  BY <1>6, <1>8 DEF Joins
<1>12. DOMAIN D = 1..Len(D) /\ DOMAIN E = 1..Len(E)
  BY <1>10, SeqIsFunction
<1> QED
  BY <1>1, <1>9, <1>10, <1>11, <1>12

-----------------------------------------------------------------------------
(***************************************************************************)
(* readLoop, as long as the place is not lost.                             *)
(***************************************************************************)

LEMMA CommitsIsEnd ==
    ASSUME NEW f, NEW e, NEW changes, EventCommits(f, e, changes)
    PROVE  Ends(f, e)
  BY DEF EventCommits, Ends

\* The event behind the reader ends the first undelivered transaction, or none.
LEMMA NextToPass ==
    ASSUME LTypes, LogInv, DeliveredIsPassed, lostAt = NotLost,
           NEW f \in DOMAIN files, f = dfile, NEW n \in Nat, n = dnext, n < Len(files[f]),
           NEW K, K = Len(Delivered)
    PROVE  /\ K \in Nat
           /\ \A i \in DOMAIN committed :
                 \/ committed[i].position.file < f
                 \/ committed[i].position.file = f /\ committed[i].position.position <= Start + (n + 1)
                 <=> i <= K \/ (Ends(f, n + 1) /\ i = K + 1)
           /\ Ends(f, n + 1) =>
                 /\ K + 1 \in DOMAIN committed
                 /\ \E changes : /\ EventCommits(f, n + 1, changes)
                                 /\ committed[K + 1] = [position |-> Coordinate(f, n + 1),
                                                        changes |-> changes]
<1>1. /\ DOMAIN files = 1..Len(files) /\ Len(files) \in Nat
      /\ DOMAIN files[f] = 1..Len(files[f]) /\ Len(files[f]) \in Nat /\ f \in Nat
      /\ DOMAIN committed = 1..Len(committed) /\ Len(committed) \in Nat
  <2>1. IsSeq(files) /\ IsSeq(files[f]) /\ IsSeq(committed)
    BY DEF LTypes
  <2>2. /\ DOMAIN files = 1..Len(files) /\ Len(files) \in Nat
        /\ DOMAIN files[f] = 1..Len(files[f]) /\ Len(files[f]) \in Nat
        /\ DOMAIN committed = 1..Len(committed) /\ Len(committed) \in Nat
    BY <2>1, SeqIsFunction
  <2> QED
    BY <2>2
<1>2. K \in Nat
  BY DeliveredIsSeq
<1>3. \A i \in DOMAIN committed : HasRead(committed[i].position) <=> i <= K
  BY DEF DeliveredIsPassed
<1>4. n + 1 \in DOMAIN files[f]
  BY <1>1
\* The next event is the end of transaction i.
<1> DEFINE At(i) == committed[i].position.file = f /\ committed[i].position.position = Start + (n + 1)
           Passed(i) == \/ committed[i].position.file < f
                        \/ /\ committed[i].position.file = f
                           /\ committed[i].position.position <= Start + (n + 1)
<1>5. ASSUME NEW i \in DOMAIN committed
      PROVE  /\ committed[i].position.file \in Nat /\ committed[i].position.position \in Nat
             /\ Passed(i) <=> HasRead(committed[i].position) \/ At(i)
             /\ ~ (HasRead(committed[i].position) /\ At(i))
             /\ At(i) => /\ EventCommits(f, n + 1, committed[i].changes) /\ Ends(f, n + 1)
                         /\ committed[i] = [position |-> Coordinate(f, n + 1),
                                            changes |-> committed[i].changes]
  <2>1. PICK c : c = committed[i]
    OBVIOUS
  <2>2. PICK g \in DOMAIN files : \E e \in 1..Len(files[g]) :
            /\ c = [position |-> Coordinate(g, e), changes |-> c.changes]
            /\ c.position.file = g /\ c.position.position = Start + e
            /\ EventCommits(g, e, c.changes)
    BY <2>1, CommittedAt DEF LogInv
  <2>3. PICK e \in 1..Len(files[g]) :
            /\ c = [position |-> Coordinate(g, e), changes |-> c.changes]
            /\ c.position.file = g /\ c.position.position = Start + e
            /\ EventCommits(g, e, c.changes)
    BY <2>2
  <2>4. g \in Nat /\ e \in Nat
    <3>1. Len(files[g]) \in Nat
      BY SeqIsFunction DEF LTypes
    <3> QED
      BY <1>1, <3>1
  <2>5. HasRead(c.position) <=> g < f \/ (g = f /\ Start + e <= Start + n)
    BY <2>3 DEF HasRead
  <2>6. At(i) <=> g = f /\ e = n + 1
    BY <2>1, <2>3, <2>4 DEF Start
  <2>7. Passed(i) <=> g < f \/ (g = f /\ Start + e <= Start + (n + 1))
    BY <2>1, <2>3
  <2>8. /\ g \in Nat /\ Start + e \in Nat
        /\ Start + e <= Start + (n + 1) <=> Start + e <= Start + n \/ e = n + 1
        /\ ~ (Start + e <= Start + n /\ e = n + 1)
    BY <2>4 DEF Start
  <2>9. g = f => ~ (g < f)
    BY <1>1, <2>4
  <2>10. At(i) => /\ EventCommits(f, n + 1, c.changes) /\ Ends(f, n + 1)
                  /\ c = [position |-> Coordinate(f, n + 1), changes |-> c.changes]
    BY <2>3, <2>6, CommitsIsEnd
  <2> HIDE DEF At, Passed
  <2> QED
    BY <2>1, <2>3, <2>5, <2>6, <2>7, <2>8, <2>9, <2>10
<1>6. ASSUME NEW i \in DOMAIN committed, At(i) PROVE i = K + 1
  <2>1. i > K /\ i \in Nat
    BY <1>1, <1>2, <1>3, <1>5, <1>6
  <2>2. K + 1 \in DOMAIN committed
    BY <1>1, <1>2, <2>1
  <2>3. SUFFICES ASSUME K + 1 < i PROVE FALSE
    BY <1>2, <2>1
  <2>4. Before(committed[K + 1].position, committed[i].position)
    BY <2>2, <2>3 DEF LogInv, CommittedInOrder
  <2>5. Passed(K + 1) /\ ~ At(K + 1)
    BY <1>5, <1>6, <2>2, <2>4 DEF Before, Start
  <2>6. HasRead(committed[K + 1].position)
    <3> HIDE DEF At, Passed
    <3> QED
      BY <1>5, <2>2, <2>5
  <2>7. K + 1 <= K
    BY <1>3, <2>2, <2>6
  <2> QED
    BY <1>2, <2>7
<1>7. ASSUME Ends(f, n + 1) PROVE K + 1 \in DOMAIN committed /\ At(K + 1)
  <2>1. PICK i \in DOMAIN committed : committed[i].position = Coordinate(f, n + 1)
    BY <1>4, <1>7 DEF LogInv, LoggedIsCommitted
  <2>2. At(i)
    BY <2>1 DEF Coordinate
  <2> HIDE DEF At
  <2> QED
    BY <1>6, <2>2
<1> HIDE DEF At
<1>8. ASSUME NEW i \in DOMAIN committed
      PROVE  Passed(i) <=> i <= K \/ (Ends(f, n + 1) /\ i = K + 1)
  <2> HIDE DEF Passed
  <2> QED
    BY <1>3, <1>5, <1>6, <1>7
<1>9. Ends(f, n + 1) =>
        /\ K + 1 \in DOMAIN committed
        /\ \E changes : /\ EventCommits(f, n + 1, changes)
                        /\ committed[K + 1] = [position |-> Coordinate(f, n + 1), changes |-> changes]
  <2> HIDE DEF Passed
  <2> QED
    BY <1>5, <1>7
<1> QED
  BY <1>2, <1>8, <1>9

LEMMA LogStays ==
    ASSUME LogInv, UNCHANGED <<files, committed>>
    PROVE  LogInv'
<1>1. GroupsAreWhole' <=> GroupsAreWhole
  BY DEF GroupsAreWhole, WholeAt, Outside, Inside
<1>2. CommittedIsLogged' <=> CommittedIsLogged
  <2>1. \A f, e, changes : EventCommits(f, e, changes)' <=> EventCommits(f, e, changes)
    BY DEF EventCommits, Outside, Inside, Collected, RowsOf, ParseRowChanges, DDLChange
  <2> QED
    BY <2>1 DEF CommittedIsLogged, Coordinate
<1>3. LoggedIsCommitted' <=> LoggedIsCommitted
  BY DEF LoggedIsCommitted, Ends, Outside, Inside, Coordinate
<1>4. CommittedInOrder' <=> CommittedInOrder
  BY DEF CommittedInOrder, Before
<1> QED
  BY <1>1, <1>2, <1>3, <1>4 DEF LogInv

\* readLoop leaves the log alone.
LEMMA LogUnchanged ==
    ASSUME LTypes, LogInv, UNCHANGED <<server, lostAt>>,
           IsSeq(handed'), IsSeq(outCh'), IsSeq(sending')
    PROVE  LTypes' /\ LogInv'
<1>1. files' = files /\ committed' = committed /\ groups' = groups /\ lostAt' = lostAt
  BY DEF server
<1>2. LTypes'
  BY <1>1 DEF LTypes, NotLost
<1> QED
  BY <1>1, <1>2, LogStays

\* An event that ends no transaction, and delivers none.
LEMMA PassesNone ==
    ASSUME LTypes, LogInv, DeliveredIsPassed, lostAt = NotLost,
           NEW f \in DOMAIN files, f = dfile, NEW n \in Nat, n = dnext, n < Len(files[f]),
           ~ Ends(f, n + 1), dfile' = f, dnext' = n + 1,
           UNCHANGED <<committed, lostAt, handed, outCh, sending>>
    PROVE  DeliveredIsPassed'
<1>1. PICK K : K = Len(Delivered)
  OBVIOUS
<1>2. \A i \in DOMAIN committed :
          \/ committed[i].position.file < f
          \/ committed[i].position.file = f /\ committed[i].position.position <= Start + (n + 1)
          <=> i <= K
  BY <1>1, NextToPass
<1>3. Delivered' = Delivered
  BY DEF Delivered
<1>4. \A i \in DOMAIN committed' : HasRead(committed[i].position)' <=> i <= Len(Delivered')
  BY <1>1, <1>2, <1>3 DEF HasRead, Start
<1> QED
  BY <1>3, <1>4 DEF DeliveredIsPassed, AsSeen, NotLost, Narrow

\* An event that ends a transaction, which is delivered.
LEMMA PassesOne ==
    ASSUME LTypes, LogInv, DeliveredIsPassed, lostAt = NotLost,
           NEW f \in DOMAIN files, f = dfile, NEW n \in Nat, n = dnext, n < Len(files[f]),
           Ends(f, n + 1), dfile' = f, dnext' = n + 1,
           UNCHANGED <<committed, lostAt, handed, outCh>>,
           sending = <<>>, NEW tx, sending' = <<tx>>,
           tx = AsSeen(committed[Len(Delivered) + 1])
    PROVE  DeliveredIsPassed'
<1>1. PICK D : D = Delivered
  OBVIOUS
<1>2. PICK E : E = Delivered'
  OBVIOUS
<1>3. PICK K : K = Len(D)
  OBVIOUS
<1>4. /\ K \in Nat
      /\ \A i \in DOMAIN committed :
            \/ committed[i].position.file < f
            \/ committed[i].position.file = f /\ committed[i].position.position <= Start + (n + 1)
            <=> i <= K \/ i = K + 1
      /\ K + 1 \in DOMAIN committed
  BY <1>1, <1>3, NextToPass
<1>5. tx = AsSeen(committed[K + 1])
  BY <1>1, <1>3
<1>6. /\ Len(E) = K + 1 /\ DOMAIN D = 1..K /\ DOMAIN E = 1..(K + 1)
      /\ \A i \in 1..K : E[i] = D[i]
      /\ E[K + 1] = tx
  BY <1>1, <1>2, <1>3, EmitDelivers
<1>7. \A i \in DOMAIN D : i <= lostAt => i \in DOMAIN committed /\ D[i] = AsSeen(committed[i])
  BY <1>1 DEF DeliveredIsPassed
<1>8. ASSUME NEW i \in DOMAIN E, i <= lostAt
      PROVE  i \in DOMAIN committed /\ E[i] = AsSeen(committed[i])
  <2>1. i \in 1..K \/ i = K + 1
    BY <1>4, <1>6
  <2> QED
    BY <1>4, <1>5, <1>6, <1>7, <1>8, <2>1
<1>9. \A i \in DOMAIN committed : i \in Nat
  <2>1. DOMAIN committed = 1..Len(committed)
    BY SeqIsFunction DEF LTypes
  <2> QED
    BY <2>1
<1>10. \A i \in DOMAIN committed' : HasRead(committed[i].position)' <=> i <= Len(E)
  <2>1. \A i \in Nat : i <= K \/ i = K + 1 <=> i <= Len(E)
    BY <1>4, <1>6
  <2> QED
    BY <1>4, <1>9, <2>1 DEF HasRead, Start
<1> QED
  BY <1>2, <1>8, <1>10 DEF DeliveredIsPassed, AsSeen, NotLost, Narrow

LEMMA SameFiles ==
    ASSUME files' = files
    PROVE  /\ \A f, b, n : Inside(f, b, n)' <=> Inside(f, b, n)
           /\ \A f, b, n : Collected(f, b, n)' = Collected(f, b, n)
           /\ \A f, n : Outside(f, n)' <=> Outside(f, n)
<1>1. \A f, b, n : Inside(f, b, n)' <=> Inside(f, b, n)
  BY DEF Inside
<1>2. \A f, b, n : Collected(f, b, n)' = Collected(f, b, n)
  BY DEF Collected, RowsOf, ParseRowChanges
<1> QED
  BY <1>1, <1>2 DEF Outside

\* The reader is at event n of file f, outside of any group or inside of one.
LEMMA FollowsOutside ==
    ASSUME files' = files, NEW f \in DOMAIN files, NEW n \in 0..Len(files[f]),
           dfile' = f, dnext' = n, announced' => currentPos'.file = f,
           currentPos' = [file |-> currentPos'.file, position |-> currentPos'.position],
           ~ inTx', Outside(f, n)
    PROVE  ReaderFollows'
<1>1. Outside(f, n)'
  BY SameFiles
<1> QED
  BY <1>1 DEF ReaderFollows

LEMMA FollowsInside ==
    ASSUME files' = files, NEW f \in DOMAIN files, NEW n \in 0..Len(files[f]),
           dfile' = f, dnext' = n, announced' => currentPos'.file = f,
           currentPos' = [file |-> currentPos'.file, position |-> currentPos'.position],
           inTx' = TRUE, NEW b \in 1..n, Inside(f, b, n),
           currentTx' = [position |-> [file |-> f, position |-> Narrow(Start + b)],
                         changes |-> Collected(f, b, n)]
    PROVE  ReaderFollows'
<1>1. Inside(f, b, n)' /\ Collected(f, b, n)' = Collected(f, b, n)
  BY SameFiles
<1> QED
  BY <1>1 DEF ReaderFollows, Narrow, Start

LEMMA OutsideStep ==
    ASSUME NEW f, NEW n \in Nat, files[f][n + 1].kind # "begin",
           files[f][n + 1].kind = "rows" => Outside(f, n)
    PROVE  Outside(f, n + 1)
<1>1. ASSUME NEW b \in 1..(n + 1), Inside(f, b, n + 1) PROVE FALSE
  <2>1. b \in 1..n /\ Inside(f, b, n) /\ files[f][n + 1].kind = "rows"
    BY <1>1, InsideStep
  <2> QED
    BY <2>1 DEF Outside
<1> QED
  BY <1>1 DEF Outside

\* The event readLoop takes next.
LEMMA ReadsNext ==
    ASSUME LTypes, LogInv, ReaderFollows, NEW kind, NextEventIs(kind),
           NEW f, f = dfile, NEW n, n = dnext
    PROVE  /\ f \in DOMAIN files /\ f \in Nat \ {0} /\ n \in Nat /\ n < Len(files[f])
           /\ n \in 0..Len(files[f]) /\ n + 1 \in 1..Len(files[f]) /\ n + 1 \in 0..Len(files[f])
           /\ files[f][n + 1].kind = kind /\ WholeAt(f, n + 1)
           /\ sending = <<>> /\ announced /\ currentPos.file = f
           /\ currentPos = [file |-> currentPos.file, position |-> currentPos.position]
<1>1. f \in DOMAIN files /\ n \in 0..Len(files[f])
  BY DEF ReaderFollows
<1>2. IsSeq(files) /\ IsSeq(files[f])
  BY <1>1 DEF LTypes
<1>3. /\ DOMAIN files = 1..Len(files) /\ Len(files) \in Nat
      /\ Len(files[f]) \in Nat /\ DOMAIN files[f] = 1..Len(files[f])
  BY <1>2, SeqIsFunction
<1>4. n < Len(files[f]) /\ files[f][n + 1].kind = kind
  BY DEF NextEventIs
<1>5. n \in Nat /\ n + 1 \in 1..Len(files[f]) /\ n + 1 \in 0..Len(files[f]) /\ f \in Nat \ {0}
  BY <1>1, <1>3, <1>4
<1>6. WholeAt(f, n + 1)
  BY <1>1, <1>3, <1>5 DEF LogInv, GroupsAreWhole
<1>7. /\ sending = <<>> /\ announced /\ currentPos.file = f
      /\ currentPos = [file |-> currentPos.file, position |-> currentPos.position]
  BY DEF NextEventIs, CanRead, ReaderFollows
<1> QED
  BY <1>1, <1>4, <1>5, <1>6, <1>7

\* inTx tells whether a group is open, and an open group goes on.
LEMMA OutOfTx ==
    ASSUME LTypes, LogInv, ReaderFollows, NEW f, f = dfile, NEW n, n = dnext,
           ~ inTx \/ Outside(f, n) \/ n = Len(files[f])
                  \/ files[f][n + 1].kind \notin {"rows", "xid", "commit", "rollback"}
    PROVE  ~ inTx /\ Outside(f, n)
<1>1. f \in DOMAIN files /\ n \in 0..Len(files[f]) /\ Len(files[f]) \in Nat
  <2>1. f \in DOMAIN files /\ n \in 0..Len(files[f])
    BY DEF ReaderFollows
  <2> QED
    BY <2>1, SeqIsFunction DEF LTypes
<1>2. ASSUME inTx PROVE FALSE
  <2>1. PICK b \in 1..n : Inside(f, b, n)
    BY <1>2 DEF ReaderFollows
  <2>2. n < Len(files[f]) /\ files[f][n + 1].kind \in {"rows", "xid", "commit", "rollback"}
    BY <1>1, <2>1, OpenGroupGoesOn DEF LogInv
  <2>3. ~ Outside(f, n)
    BY <2>1 DEF Outside
  <2> QED
    BY <1>1, <1>2, <2>2, <2>3
<1> QED
  BY <1>2 DEF ReaderFollows

LEMMA KeepsFile ==
    ASSUME currentPos = [file |-> currentPos.file, position |-> currentPos.position], SetPosition
    PROVE  /\ currentPos' = [file |-> currentPos'.file, position |-> currentPos'.position]
           /\ currentPos'.file = currentPos.file
<1>1. PICK v : v = IF LogPos > 0 THEN LogPos ELSE currentPos.position
  OBVIOUS
<1>2. currentPos' = [currentPos EXCEPT !.position = v]
  BY <1>1 DEF SetPosition
<1>3. currentPos' = [file |-> currentPos.file, position |-> v]
  BY <1>2
<1> QED
  BY <1>3

\* The reader has its place, and everything it passed has been delivered.
Following == LTypes /\ LogInv /\ ReaderFollows /\ DeliveredIsPassed /\ lostAt = NotLost

LEMMA BeginFollows ==
    ASSUME Following, ReadBegin
    PROVE  ReaderFollows' /\ DeliveredIsPassed'
<1>1. LTypes /\ LogInv /\ ReaderFollows /\ DeliveredIsPassed /\ lostAt = NotLost
  BY DEF Following
<1>2. NextEventIs("begin") /\ Advance /\ inTx' = TRUE /\ SetPosition /\ sending' = sending
  BY DEF ReadBegin
<1>3. PICK f : f = dfile
  OBVIOUS
<1>4. PICK n : n = dnext
  OBVIOUS
<1>5. /\ f \in DOMAIN files /\ n \in Nat /\ n < Len(files[f]) /\ n + 1 \in 0..Len(files[f])
      /\ files[f][n + 1].kind = "begin" /\ currentPos.file = f
      /\ currentPos = [file |-> currentPos.file, position |-> currentPos.position]
  BY <1>1, <1>2, <1>3, <1>4, ReadsNext
<1>6. /\ dfile' = f /\ dnext' = n + 1 /\ files' = files /\ committed' = committed
      /\ announced' = announced /\ UNCHANGED <<handed, outCh, lostAt>>
  BY <1>2, <1>3, <1>4 DEF Advance, server
<1>7. ~ Ends(f, n + 1)
  BY <1>5 DEF Ends
<1>8. DeliveredIsPassed'
  BY <1>1, <1>2, <1>3, <1>4, <1>5, <1>6, <1>7, PassesNone
<1>9. /\ currentPos' = [file |-> currentPos'.file, position |-> currentPos'.position]
      /\ currentPos'.file = f
  BY <1>2, <1>5, KeepsFile
<1>10. n + 1 \in 1..(n + 1) /\ Inside(f, n + 1, n + 1) /\ Collected(f, n + 1, n + 1) = <<>>
  <2>1. n + 1 \in 1..(n + 1) /\ 1..(n + 1 - (n + 1)) = {}
    BY <1>5
  <2>2. Inside(f, n + 1, n + 1)
    BY <1>5, <2>1, InsideStep
  <2>3. Collected(f, n + 1, n + 1) = [k \in {} |-> RowsOf(files[f][n + 1 + k])]
    BY <2>1 DEF Collected
  <2> QED
    BY <2>1, <2>2, <2>3
<1>11. currentTx' = [position |-> [file |-> f, position |-> Narrow(Start + (n + 1))],
                     changes |-> Collected(f, n + 1, n + 1)]
  <2>1. LogPos = Narrow(Start + (n + 1))
    BY <1>4, <1>5 DEF LogPos, Start
  <2> QED
    BY <1>5, <1>10, <2>1 DEF ReadBegin
<1>12. ReaderFollows'
  BY <1>2, <1>5, <1>6, <1>9, <1>10, <1>11, FollowsInside
<1> QED
  BY <1>8, <1>12

LEMMA RollbackFollows ==
    ASSUME Following, ReadRollback
    PROVE  ReaderFollows' /\ DeliveredIsPassed'
<1>1. LTypes /\ LogInv /\ ReaderFollows /\ DeliveredIsPassed /\ lostAt = NotLost
  BY DEF Following
<1>2. NextEventIs("rollback") /\ Advance /\ inTx' = FALSE /\ SetPosition /\ sending' = sending
  BY DEF ReadRollback
<1>3. PICK f : f = dfile
  OBVIOUS
<1>4. PICK n : n = dnext
  OBVIOUS
<1>5. /\ f \in DOMAIN files /\ n \in Nat /\ n < Len(files[f]) /\ n + 1 \in 0..Len(files[f])
      /\ files[f][n + 1].kind = "rollback" /\ currentPos.file = f
      /\ currentPos = [file |-> currentPos.file, position |-> currentPos.position]
  BY <1>1, <1>2, <1>3, <1>4, ReadsNext
<1>6. /\ dfile' = f /\ dnext' = n + 1 /\ files' = files /\ committed' = committed
      /\ announced' = announced /\ UNCHANGED <<handed, outCh, lostAt>>
  BY <1>2, <1>3, <1>4 DEF Advance, server
<1>7. ~ Ends(f, n + 1)
  BY <1>5 DEF Ends
<1>8. DeliveredIsPassed'
  BY <1>1, <1>2, <1>3, <1>4, <1>5, <1>6, <1>7, PassesNone
<1>9. /\ currentPos' = [file |-> currentPos'.file, position |-> currentPos'.position]
      /\ currentPos'.file = f
  BY <1>2, <1>5, KeepsFile
<1>10. Outside(f, n + 1)
  BY <1>5, OutsideStep
<1>11. ReaderFollows'
  BY <1>2, <1>5, <1>6, <1>9, <1>10, FollowsOutside
<1> QED
  BY <1>8, <1>11

LEMMA OtherFollows ==
    ASSUME Following, ReadOther
    PROVE  ReaderFollows' /\ DeliveredIsPassed'
<1>1. LTypes /\ LogInv /\ ReaderFollows /\ DeliveredIsPassed /\ lostAt = NotLost
  BY DEF Following
<1>2. NextEventIs("other") /\ Advance /\ inTx' = inTx /\ SetPosition /\ sending' = sending
  BY DEF ReadOther
<1>3. PICK f : f = dfile
  OBVIOUS
<1>4. PICK n : n = dnext
  OBVIOUS
<1>5. /\ f \in DOMAIN files /\ n \in Nat /\ n < Len(files[f]) /\ n + 1 \in 0..Len(files[f])
      /\ files[f][n + 1].kind = "other" /\ currentPos.file = f
      /\ currentPos = [file |-> currentPos.file, position |-> currentPos.position]
  BY <1>1, <1>2, <1>3, <1>4, ReadsNext
<1>6. /\ dfile' = f /\ dnext' = n + 1 /\ files' = files /\ committed' = committed
      /\ announced' = announced /\ UNCHANGED <<handed, outCh, lostAt>>
  BY <1>2, <1>3, <1>4 DEF Advance, server
<1>7. ~ Ends(f, n + 1)
  BY <1>5 DEF Ends
<1>8. DeliveredIsPassed'
  BY <1>1, <1>2, <1>3, <1>4, <1>5, <1>6, <1>7, PassesNone
<1>9. /\ currentPos' = [file |-> currentPos'.file, position |-> currentPos'.position]
      /\ currentPos'.file = f
  BY <1>2, <1>5, KeepsFile
<1>10. Outside(f, n + 1)
  BY <1>5, OutsideStep
<1>11. ~ inTx
  BY <1>1, <1>3, <1>4, <1>5, OutOfTx
<1>12. ReaderFollows'
  BY <1>2, <1>5, <1>6, <1>9, <1>10, <1>11, FollowsOutside
<1> QED
  BY <1>8, <1>12

\* What is sent when the event behind the reader ends a transaction.
LEMMA EmitFollows ==
    ASSUME Following, NEW kind, NextEventIs(kind), Advance, NEW f, f = dfile, NEW n, n = dnext,
           Ends(f, n + 1), NEW c, NEW tx,
           tx = [position |-> [file |-> f, position |-> LogPos], changes |-> c], Emit(tx),
           \A changes : EventCommits(f, n + 1, changes) => changes = c
    PROVE  /\ DeliveredIsPassed'
           /\ currentPos' = [file |-> currentPos'.file, position |-> currentPos'.position]
           /\ currentPos'.file = f
<1>1. LTypes /\ LogInv /\ ReaderFollows /\ DeliveredIsPassed /\ lostAt = NotLost
  BY DEF Following
<1>2. /\ f \in DOMAIN files /\ n \in Nat /\ n < Len(files[f]) /\ f \in Nat \ {0} /\ sending = <<>>
  BY <1>1, ReadsNext
<1>3. /\ dfile' = f /\ dnext' = n + 1 /\ files' = files /\ committed' = committed
      /\ UNCHANGED <<handed, outCh, lostAt>>
  BY DEF Advance, server
<1>4. PICK K : K = Len(Delivered)
  OBVIOUS
<1>5. PICK changes : /\ EventCommits(f, n + 1, changes)
                     /\ committed[K + 1] = [position |-> Coordinate(f, n + 1), changes |-> changes]
  BY <1>1, <1>2, <1>4, NextToPass
<1>6. changes = c
  BY <1>5
<1>7. LogPos = Narrow(Start + (n + 1))
  BY <1>2 DEF LogPos, Start
<1>8. tx = AsSeen(committed[K + 1])
  BY <1>5, <1>6, <1>7 DEF AsSeen, Coordinate
<1>9. sending' = <<tx>>
  BY DEF Emit
<1>10. DeliveredIsPassed'
  BY <1>1, <1>2, <1>3, <1>4, <1>8, <1>9, PassesOne
<1>11. tx.position.file = f /\ f # NoFile
  BY <1>2 DEF NoFile
<1>12. currentPos' = [file |-> f, position |-> tx.position.position]
  BY <1>11 DEF Emit
<1> QED
  BY <1>10, <1>12

LEMMA DDLFollows ==
    ASSUME Following, ReadDDL
    PROVE  ReaderFollows' /\ DeliveredIsPassed'
<1>1. LTypes /\ LogInv /\ ReaderFollows /\ DeliveredIsPassed /\ lostAt = NotLost
  BY DEF Following
<1>2. NextEventIs("ddl") /\ Advance /\ inTx' = inTx /\ Immediate(<<DDLChange>>)
  BY DEF ReadDDL
<1>3. PICK f : f = dfile
  OBVIOUS
<1>4. PICK n : n = dnext
  OBVIOUS
<1>5. /\ f \in DOMAIN files /\ n \in Nat /\ n < Len(files[f]) /\ n + 1 \in 0..Len(files[f])
      /\ files[f][n + 1].kind = "ddl" /\ currentPos.file = f
  BY <1>1, <1>2, <1>3, <1>4, ReadsNext
<1>6. dfile' = f /\ dnext' = n + 1 /\ files' = files /\ announced' = announced
  BY <1>2, <1>3, <1>4 DEF Advance, server
<1>7. Ends(f, n + 1)
  BY <1>5 DEF Ends
<1>8. PICK c : c = <<DDLChange>>
  OBVIOUS
<1>9. PICK tx : tx = [position |-> [file |-> f, position |-> LogPos], changes |-> c]
  OBVIOUS
<1>10. Emit(tx)
  BY <1>2, <1>5, <1>8, <1>9 DEF Immediate
<1>11. \A changes : EventCommits(f, n + 1, changes) => changes = c
  BY <1>5, <1>8 DEF EventCommits
<1>12. /\ DeliveredIsPassed'
       /\ currentPos' = [file |-> currentPos'.file, position |-> currentPos'.position]
       /\ currentPos'.file = f
  BY <1>2, <1>3, <1>4, <1>7, <1>9, <1>10, <1>11, EmitFollows
<1>13. Outside(f, n + 1)
  BY <1>5, OutsideStep
<1>14. ~ inTx
  BY <1>1, <1>3, <1>4, <1>5, OutOfTx
<1>15. ReaderFollows'
  BY <1>2, <1>5, <1>6, <1>12, <1>13, <1>14, FollowsOutside
<1> QED
  BY <1>12, <1>15

LEMMA EndFollows ==
    ASSUME Following, ReadEnd
    PROVE  ReaderFollows' /\ DeliveredIsPassed'
<1>1. LTypes /\ LogInv /\ ReaderFollows /\ DeliveredIsPassed /\ lostAt = NotLost
  BY DEF Following
<1>2. PICK kind \in {"xid", "commit"} : NextEventIs(kind)
  BY DEF ReadEnd
<1>3. PICK f : f = dfile
  OBVIOUS
<1>4. PICK n : n = dnext
  OBVIOUS
<1>5. /\ f \in DOMAIN files /\ n \in Nat /\ n < Len(files[f]) /\ n + 1 \in 0..Len(files[f])
      /\ files[f][n + 1].kind = kind /\ WholeAt(f, n + 1)
  BY <1>1, <1>2, <1>3, <1>4, ReadsNext
<1>6. Advance /\ dfile' = f /\ dnext' = n + 1 /\ files' = files /\ announced' = announced
  BY <1>3, <1>4 DEF ReadEnd, Advance, server
<1>7. Ends(f, n + 1)
  BY <1>2, <1>5 DEF Ends
<1>8. inTx
  <2>1. n + 1 - 1 = n
    BY <1>5
  <2>2. ~ Outside(f, n)
    BY <1>2, <1>5, <2>1 DEF WholeAt
  <2> QED
    BY <1>1, <1>3, <1>4, <2>2, OutOfTx
<1>9. PICK b \in 1..n :
         /\ Inside(f, b, n)
         /\ currentTx = [position |-> [file |-> f, position |-> Narrow(Start + b)],
                         changes |-> Collected(f, b, n)]
  BY <1>1, <1>3, <1>4, <1>8 DEF ReaderFollows
<1>10. PICK c : c = Collected(f, b, n)
  OBVIOUS
<1>11. PICK tx : tx = [position |-> [file |-> f, position |-> LogPos], changes |-> c]
  OBVIOUS
<1>12. Emit(tx) /\ inTx' = FALSE
  <2>1. tx = [currentTx EXCEPT !.position.position = LogPos]
    BY <1>9, <1>10, <1>11
  <2> QED
    BY <1>8, <2>1 DEF ReadEnd
<1>13. ASSUME NEW changes, EventCommits(f, n + 1, changes) PROVE changes = c
  <2>1. n + 1 - 1 = n
    BY <1>5
  <2>2. PICK d \in 1..n : Inside(f, d, n) /\ changes = Collected(f, d, n)
    BY <1>2, <1>5, <1>13, <2>1 DEF EventCommits
  <2>3. d = b
    BY <1>5, <1>9, <2>2, InsideUnique
  <2> QED
    BY <1>10, <2>2, <2>3
<1>14. /\ DeliveredIsPassed'
       /\ currentPos' = [file |-> currentPos'.file, position |-> currentPos'.position]
       /\ currentPos'.file = f
  BY <1>2, <1>3, <1>4, <1>6, <1>7, <1>11, <1>12, <1>13, EmitFollows
<1>15. Outside(f, n + 1)
  BY <1>2, <1>5, OutsideStep
<1>16. ReaderFollows'
  BY <1>5, <1>6, <1>12, <1>14, <1>15, FollowsOutside
<1> QED
  BY <1>14, <1>16

\* Rows of an open group are collected.
LEMMA CollectsRows ==
    ASSUME NEW f, NEW n \in Nat, NEW b \in 1..n
    PROVE  Collected(f, b, n + 1) = Append(Collected(f, b, n), RowsOf(files[f][n + 1]))
<1>1. PICK s : s = Collected(f, b, n)
  OBVIOUS
<1>2. PICK t : t = Collected(f, b, n + 1)
  OBVIOUS
<1>3. PICK r : r = RowsOf(files[f][n + 1])
  OBVIOUS
<1>4. PICK m : m = n - b
  OBVIOUS
<1>5. m \in Nat /\ n + 1 - b = m + 1 /\ b + (m + 1) = n + 1
  BY <1>4
<1>6. s = [k \in 1..m |-> RowsOf(files[f][b + k])]
  BY <1>1, <1>4 DEF Collected
<1>7. t = [k \in 1..(m + 1) |-> RowsOf(files[f][b + k])]
  BY <1>2, <1>5 DEF Collected
<1>8. IsSeq(s) /\ Len(s) = m /\ IsSeq(t) /\ Len(t) = m + 1
  BY <1>5, <1>6, <1>7, FunctionIsSeq
<1>9. PICK u : u = Append(s, r)
  OBVIOUS
<1>10. /\ IsSeq(u) /\ Len(u) = m + 1 /\ \A i \in 1..m : u[i] = s[i]
       /\ u[m + 1] = r
  BY <1>8, <1>9, AppendSeq
<1>11. \A i \in 1..(m + 1) : t[i] = u[i]
  <2>1. \A i \in 1..m : t[i] = s[i]
    BY <1>5, <1>6, <1>7
  <2>2. t[m + 1] = r
    BY <1>3, <1>5, <1>7
  <2> QED
    BY <1>5, <1>10, <2>1, <2>2
<1>12. t = u
  BY <1>8, <1>10, <1>11, SameSeq
<1> QED
  BY <1>1, <1>2, <1>3, <1>9, <1>12

LEMMA RowsFollow ==
    ASSUME Following, ReadRows
    PROVE  ReaderFollows' /\ DeliveredIsPassed'
<1>1. LTypes /\ LogInv /\ ReaderFollows /\ DeliveredIsPassed /\ lostAt = NotLost
  BY DEF Following
<1>2. NextEventIs("rows") /\ Advance /\ inTx' = inTx
  BY DEF ReadRows
<1>3. PICK f : f = dfile
  OBVIOUS
<1>4. PICK n : n = dnext
  OBVIOUS
<1>5. /\ f \in DOMAIN files /\ n \in Nat /\ n < Len(files[f]) /\ n + 1 \in 0..Len(files[f])
      /\ files[f][n + 1].kind = "rows" /\ currentPos.file = f
      /\ currentPos = [file |-> currentPos.file, position |-> currentPos.position]
  BY <1>1, <1>2, <1>3, <1>4, ReadsNext
<1>6. /\ dfile' = f /\ dnext' = n + 1 /\ files' = files /\ committed' = committed
      /\ announced' = announced /\ UNCHANGED <<handed, outCh, lostAt>>
  BY <1>2, <1>3, <1>4 DEF Advance, server
<1>7. n + 1 - 1 = n
  BY <1>5
<1>8. PICK rows : rows = RowsOf(files[f][n + 1])
  OBVIOUS
<1>9. CASE inTx
  <2>1. PICK b \in 1..n :
            /\ Inside(f, b, n)
            /\ currentTx = [position |-> [file |-> f, position |-> Narrow(Start + b)],
                            changes |-> Collected(f, b, n)]
    BY <1>1, <1>3, <1>4, <1>9 DEF ReaderFollows
  <2>2. ~ Ends(f, n + 1)
    BY <1>5, <1>7, <2>1 DEF Ends, Outside
  <2>3. /\ currentTx' = [currentTx EXCEPT !.changes = Append(@, rows)]
        /\ SetPosition /\ sending' = sending
    BY <1>3, <1>4, <1>8, <1>9 DEF ReadRows, RowsOf
  <2>4. DeliveredIsPassed'
    BY <1>1, <1>3, <1>4, <1>5, <1>6, <2>2, <2>3, PassesNone
  <2>5. /\ currentPos' = [file |-> currentPos'.file, position |-> currentPos'.position]
        /\ currentPos'.file = f
    BY <1>5, <2>3, KeepsFile
  <2>6. b \in 1..(n + 1) /\ Inside(f, b, n + 1)
    BY <1>5, <2>1, InsideStep
  <2>7. Collected(f, b, n + 1) = Append(Collected(f, b, n), rows)
    BY <1>5, <1>8, CollectsRows
  <2>8. currentTx' = [position |-> [file |-> f, position |-> Narrow(Start + b)],
                      changes |-> Collected(f, b, n + 1)]
    BY <2>1, <2>3, <2>7
  <2>9. ReaderFollows'
    BY <1>2, <1>5, <1>6, <1>9, <2>5, <2>6, <2>8, FollowsInside
  <2> QED
    BY <2>4, <2>9
<1>10. CASE ~ inTx
  <2>1. Outside(f, n)
    BY <1>1, <1>3, <1>4, <1>10 DEF ReaderFollows
  <2>2. Ends(f, n + 1)
    BY <1>5, <1>7, <2>1 DEF Ends
  <2>3. PICK c : c = <<rows>>
    OBVIOUS
  <2>4. PICK tx : tx = [position |-> [file |-> f, position |-> LogPos], changes |-> c]
    OBVIOUS
  <2>5. Emit(tx)
    BY <1>3, <1>4, <1>5, <1>8, <1>10, <2>3, <2>4 DEF ReadRows, RowsOf, Immediate
  <2>6. \A changes : EventCommits(f, n + 1, changes) => changes = c
    BY <1>5, <1>8, <2>3 DEF EventCommits
  <2>7. /\ DeliveredIsPassed'
        /\ currentPos' = [file |-> currentPos'.file, position |-> currentPos'.position]
        /\ currentPos'.file = f
    BY <1>2, <1>3, <1>4, <2>2, <2>4, <2>5, <2>6, EmitFollows
  <2>8. Outside(f, n + 1)
    BY <1>5, <2>1, OutsideStep
  <2>9. ReaderFollows'
    BY <1>2, <1>5, <1>6, <1>10, <2>7, <2>8, FollowsOutside
  <2> QED
    BY <2>7, <2>9
<1> QED
  BY <1>9, <1>10

\* The reader goes to the next file when nothing is left in this one.
LEMMA NextFilePasses ==
    ASSUME LTypes, LogInv, DeliveredIsPassed, lostAt = NotLost,
           NEW f \in DOMAIN files, f = dfile, NEW n \in Nat, n = dnext,
           n = Len(files[f]) \/ (n + 1 = Len(files[f]) /\ ~ Ends(f, n + 1)),
           dfile' = f + 1, dnext' = 0,
           UNCHANGED <<committed, lostAt, handed, outCh, sending>>
    PROVE  DeliveredIsPassed'
<1>1. f \in Nat /\ DOMAIN files = 1..Len(files) /\ Len(files) \in Nat
  <2>1. DOMAIN files = 1..Len(files) /\ Len(files) \in Nat
    BY SeqIsFunction DEF LTypes
  <2> QED
    BY <2>1
<1>2. Delivered' = Delivered
  BY DEF Delivered
<1>3. ASSUME NEW i \in DOMAIN committed
      PROVE  HasRead(committed[i].position)' <=> HasRead(committed[i].position)
  <2>1. PICK c : c = committed[i]
    OBVIOUS
  <2>2. PICK g \in DOMAIN files : \E e \in 1..Len(files[g]) :
            /\ c.position.file = g /\ c.position.position = Start + e
            /\ EventCommits(g, e, c.changes)
    BY <2>1, CommittedAt DEF LogInv
  <2>3. PICK e \in 1..Len(files[g]) :
            /\ c.position.file = g /\ c.position.position = Start + e
            /\ EventCommits(g, e, c.changes)
    BY <2>2
  <2>4. Ends(g, e)
    BY <2>3, CommitsIsEnd
  <2>5. Len(files[g]) \in Nat
    BY SeqIsFunction DEF LTypes
  <2>6. g = f => e <= n
    BY <2>4, <2>5
  <2>7. /\ g < f + 1 \/ (g = f + 1 /\ Start + e <= Start + 0)
           <=> g < f \/ (g = f /\ Start + e <= Start + n)
    BY <1>1, <2>5, <2>6 DEF Start
  <2>8. HasRead(c.position) <=> g < f \/ (g = f /\ Start + e <= Start + n)
    BY <2>3 DEF HasRead
  <2>9. HasRead(c.position)' <=> g < f + 1 \/ (g = f + 1 /\ Start + e <= Start + 0)
    BY <2>3 DEF HasRead, Start
  <2> QED
    BY <2>1, <2>7, <2>8, <2>9
<1>4. \A i \in DOMAIN committed' : HasRead(committed[i].position)' <=> i <= Len(Delivered')
  BY <1>2, <1>3 DEF DeliveredIsPassed
<1> QED
  BY <1>2, <1>4 DEF DeliveredIsPassed, AsSeen, NotLost, Narrow

LEMMA StartsOutside ==
    ASSUME NEW f
    PROVE  Outside(f, 0)
  BY DEF Outside

LEMMA RotateFollows ==
    ASSUME Following, ReadRotate
    PROVE  ReaderFollows' /\ DeliveredIsPassed'
<1>1. LTypes /\ LogInv /\ ReaderFollows /\ DeliveredIsPassed /\ lostAt = NotLost
  BY DEF Following
<1>2. NextEventIs("rotate")
  BY DEF ReadRotate
<1>3. PICK f : f = dfile
  OBVIOUS
<1>4. PICK n : n = dnext
  OBVIOUS
<1>5. /\ f \in DOMAIN files /\ n \in Nat /\ n < Len(files[f])
      /\ files[f][n + 1].kind = "rotate" /\ WholeAt(f, n + 1)
  BY <1>1, <1>2, <1>3, <1>4, ReadsNext
<1>6. n + 1 = Len(files[f]) /\ f < Len(files)
  BY <1>5 DEF WholeAt
<1>7. ~ Ends(f, n + 1)
  BY <1>5 DEF Ends
<1>8. /\ dfile' = f + 1 /\ dnext' = 0 /\ announced' = FALSE /\ inTx' = inTx
      /\ files' = files /\ UNCHANGED <<committed, lostAt, handed, outCh, sending>>
  BY <1>3 DEF ReadRotate, server
<1>9. DeliveredIsPassed'
  BY <1>1, <1>3, <1>4, <1>5, <1>6, <1>7, <1>8, NextFilePasses
<1>10. f + 1 \in DOMAIN files /\ 0 \in 0..Len(files[f + 1])
  <2>1. DOMAIN files = 1..Len(files) /\ Len(files) \in Nat
    BY <1>1, SeqIsFunction DEF LTypes
  <2>2. f + 1 \in DOMAIN files
    BY <1>5, <1>6, <2>1
  <2>3. Len(files[f + 1]) \in Nat
    BY <1>1, <2>2, SeqIsFunction DEF LTypes
  <2> QED
    BY <2>2, <2>3
<1>11. ~ inTx
  BY <1>1, <1>3, <1>4, <1>5, OutOfTx
<1>12. currentPos' = [file |-> currentPos'.file, position |-> currentPos'.position]
  BY DEF ReadRotate
<1>13. ReaderFollows'
  BY <1>8, <1>10, <1>11, <1>12, StartsOutside, FollowsOutside
<1> QED
  BY <1>9, <1>13

\* An announcement of the place the reader is at, or of the next file.
LEMMA AnnouncementFollows ==
    ASSUME Following, ReadAnnouncement
    PROVE  ReaderFollows' /\ DeliveredIsPassed'
<1>1. LTypes /\ LogInv /\ ReaderFollows /\ DeliveredIsPassed /\ lostAt = NotLost
  BY DEF Following
<1>2. PICK f : f = dfile
  OBVIOUS
<1>3. PICK n : n = dnext
  OBVIOUS
<1>4. f \in DOMAIN files /\ n \in 0..Len(files[f])
  BY <1>1, <1>2, <1>3 DEF ReaderFollows
<1>5. DOMAIN files = 1..Len(files) /\ Len(files) \in Nat /\ Len(files[f]) \in Nat /\ n \in Nat
  <2>1. DOMAIN files = 1..Len(files) /\ Len(files) \in Nat /\ Len(files[f]) \in Nat
    BY <1>1, <1>4, SeqIsFunction DEF LTypes
  <2> QED
    BY <1>4, <2>1
<1>6. /\ inTx' = inTx /\ currentTx' = currentTx /\ files' = files
      /\ UNCHANGED <<committed, lostAt, handed, outCh, sending>>
      /\ currentPos' = [file |-> currentPos'.file, position |-> currentPos'.position]
      /\ currentPos'.file = dfile'
  BY DEF ReadAnnouncement, server
<1>7. CASE dfile' = dfile /\ dnext' = dnext
  <2>1. DeliveredIsPassed'
    BY <1>1, <1>6, <1>7 DEF DeliveredIsPassed, Delivered, HasRead, Start, AsSeen, Narrow, NotLost
  <2>2. CASE inTx
    <3>1. PICK b \in 1..n :
              /\ Inside(f, b, n)
              /\ currentTx = [position |-> [file |-> f, position |-> Narrow(Start + b)],
                              changes |-> Collected(f, b, n)]
      BY <1>1, <1>2, <1>3, <2>2 DEF ReaderFollows
    <3> QED
      BY <1>2, <1>3, <1>4, <1>6, <1>7, <2>1, <2>2, <3>1, FollowsInside
  <2>3. CASE ~ inTx
    <3>1. Outside(f, n)
      BY <1>1, <1>2, <1>3, <2>3 DEF ReaderFollows
    <3> QED
      BY <1>2, <1>3, <1>4, <1>6, <1>7, <2>1, <2>3, <3>1, FollowsOutside
  <2> QED
    BY <2>2, <2>3
<1>8. CASE n = Len(files[f]) /\ f < Len(files) /\ dfile' = f + 1 /\ dnext' = 0
  <2>1. DeliveredIsPassed'
    BY <1>1, <1>2, <1>3, <1>4, <1>5, <1>6, <1>8, NextFilePasses
  <2>2. f + 1 \in DOMAIN files
    BY <1>4, <1>5, <1>8
  <2>3. 0 \in 0..Len(files[f + 1])
    <3>1. Len(files[f + 1]) \in Nat
      BY <1>1, <2>2, SeqIsFunction DEF LTypes
    <3> QED
      BY <3>1
  <2>4. ~ inTx
    BY <1>1, <1>2, <1>3, <1>8, OutOfTx
  <2> QED
    BY <1>6, <1>8, <2>1, <2>2, <2>3, <2>4, StartsOutside, FollowsOutside
<1> QED
  BY <1>2, <1>3, <1>7, <1>8 DEF ReadAnnouncement

-----------------------------------------------------------------------------
(***************************************************************************)
(* The steps, whether the place is lost or not.                            *)
(***************************************************************************)

Reads ==
    \/ ReadAnnouncement \/ ReadRotate \/ ReadBegin \/ ReadEnd \/ ReadRollback
    \/ ReadDDL \/ ReadRows \/ ReadOther

LEMMA ReadsFrame ==
    ASSUME Reads
    PROVE  /\ UNCHANGED <<server, handed, outCh, lostAt>>
           /\ sending' = sending \/ (sending = <<>> /\ \E tx : sending' = <<tx>>)
<1>1. CASE ReadAnnouncement \/ ReadRotate
  BY <1>1 DEF ReadAnnouncement, ReadRotate, server
<1>2. CASE ReadBegin \/ ReadRollback \/ ReadOther
  BY <1>2 DEF ReadBegin, ReadRollback, ReadOther, Advance, server
<1>3. CASE ReadEnd
  BY <1>3 DEF ReadEnd, NextEventIs, CanRead, Advance, Emit, server
<1>4. CASE ReadDDL
  BY <1>4 DEF ReadDDL, NextEventIs, CanRead, Advance, Immediate, Emit, server
<1>5. CASE ReadRows
  BY <1>5 DEF ReadRows, NextEventIs, CanRead, Advance, Immediate, Emit, server
<1> QED
  BY <1>1, <1>2, <1>3, <1>4, <1>5 DEF Reads

\* What had been delivered when the place was lost stays delivered.
LEMMA LostReads ==
    ASSUME LTypes, DeliveredIsPassed, lostAt # NotLost, lostAt <= Len(Delivered),
           UNCHANGED <<server, handed, outCh, lostAt>>,
           sending' = sending \/ (sending = <<>> /\ \E tx : sending' = <<tx>>)
    PROVE  IsSeq(sending') /\ lostAt' <= Len(Delivered') /\ DeliveredIsPassed'
<1>1. committed' = committed /\ lostAt' = lostAt /\ lostAt \in Int
  <2>1. lostAt \in 0..NotLost
    BY DEF LTypes
  <2> QED
    BY <2>1 DEF server
<1>2. CASE sending' = sending
  <2>1. Delivered' = Delivered
    BY <1>2 DEF Delivered
  <2> QED
    BY <1>1, <1>2, <2>1 DEF DeliveredIsPassed, AsSeen, NotLost, Narrow, LTypes
<1>3. CASE sending = <<>> /\ \E tx : sending' = <<tx>>
  <2>1. PICK tx : sending' = <<tx>>
    BY <1>3
  <2>2. PICK D : D = Delivered
    OBVIOUS
  <2>3. PICK E : E = Delivered'
    OBVIOUS
  <2>4. /\ IsSeq(sending') /\ Len(D) \in Nat /\ Len(E) = Len(D) + 1
        /\ DOMAIN D = 1..Len(D) /\ DOMAIN E = 1..(Len(D) + 1)
        /\ \A i \in 1..Len(D) : E[i] = D[i]
    BY <1>3, <2>1, <2>2, <2>3, EmitDelivers
  <2>5. \A i \in DOMAIN D : i <= lostAt => i \in DOMAIN committed /\ D[i] = AsSeen(committed[i])
    BY <2>2 DEF DeliveredIsPassed
  <2>6. ASSUME NEW i \in DOMAIN E, i <= lostAt
        PROVE  i \in DOMAIN committed /\ E[i] = AsSeen(committed[i])
    <3>1. i \in 1..Len(D)
      BY <1>1, <2>2, <2>4, <2>6
    <3> QED
      BY <2>4, <2>5, <2>6, <3>1
  <2>7. lostAt <= Len(E)
    BY <1>1, <2>2, <2>4
  <2> QED
    BY <1>1, <2>3, <2>4, <2>6, <2>7 DEF DeliveredIsPassed, AsSeen, NotLost, Narrow
<1> QED
  BY <1>2, <1>3

LEMMA ReadsKeep ==
    ASSUME LInv, Reads
    PROVE  LInv'
<1>1. LTypes /\ LogInv /\ DeliveredIsPassed
  BY DEF LInv
<1>2. /\ UNCHANGED <<server, handed, outCh, lostAt>>
      /\ sending' = sending \/ (sending = <<>> /\ \E tx : sending' = <<tx>>)
  BY ReadsFrame
<1>3. IsSeq(sending')
  BY <1>1, <1>2, ShortSeqs DEF LTypes
<1>4. LTypes' /\ LogInv'
  BY <1>1, <1>2, <1>3, LogUnchanged DEF LTypes
<1>5. CASE lostAt = NotLost
  <2>1. Following
    BY <1>1, <1>5 DEF LInv, Following
  <2>2. ReaderFollows' /\ DeliveredIsPassed'
    BY <2>1, AnnouncementFollows, RotateFollows, BeginFollows, EndFollows, RollbackFollows,
       DDLFollows, RowsFollow, OtherFollows DEF Reads
  <2> QED
    BY <1>2, <1>4, <1>5, <2>2 DEF LInv, NotLost
<1>6. CASE lostAt # NotLost
  <2>1. lostAt <= Len(Delivered)
    BY <1>6 DEF LInv
  <2>2. lostAt' <= Len(Delivered') /\ DeliveredIsPassed'
    BY <1>1, <1>2, <1>6, <2>1, LostReads
  <2> QED
    BY <1>2, <1>4, <1>6, <2>2 DEF LInv, NotLost
<1> QED
  BY <1>5, <1>6

LEMMA ServerKeeps ==
    ASSUME LInv, ServerStep
    PROVE  LInv'
<1>1. LTypes /\ LogInv /\ DeliveredIsPassed
  BY DEF LInv
<1>2. UNCHANGED <<library, reader, outCh, handed, lostAt>>
  BY ServerFrame
<1>3. LTypes' /\ LogInv' /\ Logged
  BY <1>1, ServerTypes, ServerLogs
<1>4. DeliveredIsPassed'
  <2>1. Delivered' = Delivered /\ lostAt' = lostAt /\ dfile' = dfile /\ dnext' = dnext
    BY <1>2 DEF Delivered, library, reader
  <2>2. FollowsUnlessLost
    BY DEF FollowsUnlessLost, LInv
  <2> QED
    BY <1>1, <1>3, <2>1, <2>2, ServerPasses
<1>5. CASE lostAt = NotLost
  <2>1. ReaderFollows'
    BY <1>1, <1>2, <1>3, <1>5, LogAfter, ServerReader DEF LInv
  <2> QED
    BY <1>2, <1>3, <1>4, <1>5, <2>1 DEF LInv, NotLost
<1>6. CASE lostAt # NotLost
  <2>1. Delivered' = Delivered
    BY <1>2 DEF Delivered, reader
  <2> QED
    BY <1>2, <1>3, <1>4, <1>6, <2>1 DEF LInv, NotLost
<1> QED
  BY <1>5, <1>6

\* The reader stays where it is.
LEMMA StillFollows ==
    ASSUME ReaderFollows, files' = files, UNCHANGED <<dfile, dnext, currentPos, inTx, currentTx>>,
           announced' => announced
    PROVE  ReaderFollows'
<1>1. PICK f : f = dfile
  OBVIOUS
<1>2. PICK n : n = dnext
  OBVIOUS
<1>3. /\ f \in DOMAIN files /\ n \in 0..Len(files[f]) /\ dfile' = f /\ dnext' = n
      /\ announced' => currentPos'.file = f
      /\ currentPos' = [file |-> currentPos'.file, position |-> currentPos'.position]
  BY <1>1, <1>2 DEF ReaderFollows
<1>4. CASE inTx
  <2>1. PICK b \in 1..n :
            /\ Inside(f, b, n)
            /\ currentTx = [position |-> [file |-> f, position |-> Narrow(Start + b)],
                            changes |-> Collected(f, b, n)]
    BY <1>1, <1>2, <1>4 DEF ReaderFollows
  <2> QED
    BY <1>3, <1>4, <2>1, FollowsInside
<1>5. CASE ~ inTx
  <2>1. Outside(f, n)
    BY <1>1, <1>2, <1>5 DEF ReaderFollows
  <2> QED
    BY <1>3, <1>5, <2>1, FollowsOutside
<1> QED
  BY <1>4, <1>5

\* Steps that move a transaction on, or lose the connection.
LEMMA QuietKeeps ==
    ASSUME LInv, UNCHANGED <<server, lostAt, dfile, dnext, currentPos, inTx, currentTx>>,
           announced' => announced, Delivered' = Delivered,
           IsSeq(handed'), IsSeq(outCh'), IsSeq(sending')
    PROVE  LInv'
<1>1. LTypes /\ LogInv /\ DeliveredIsPassed
  BY DEF LInv
<1>2. LTypes' /\ LogInv'
  BY <1>1, LogUnchanged
<1>3. files' = files /\ committed' = committed
  BY DEF server
<1>4. DeliveredIsPassed'
  BY <1>1, <1>3 DEF DeliveredIsPassed, HasRead, Start, AsSeen, Narrow, NotLost
<1>5. lostAt = NotLost => ReaderFollows'
  BY <1>3, StillFollows DEF LInv
<1> QED
  BY <1>2, <1>4, <1>5 DEF LInv, NotLost

LEMMA ThreeSeqs ==
    ASSUME NEW s, IsSeq(s), NEW t, IsSeq(t), NEW u, IsSeq(u)
    PROVE  (s \o t) \o u = s \o (t \o u) /\ s \o <<>> = s
<1>1. PICK S : S = {s[i] : i \in DOMAIN s} \cup {t[i] : i \in DOMAIN t} \cup {u[i] : i \in DOMAIN u}
  OBVIOUS
<1>2. s \in Seq(S) /\ t \in Seq(S) /\ u \in Seq(S)
  BY <1>1 DEF IsSeq
<1> QED
  BY <1>2, ConcatAssociative, ConcatEmptySeq

LEMMA TakeFirst ==
    ASSUME NEW s, IsSeq(s), s # <<>>
    PROVE  <<s[1]>> \o Tail(s) = s
<1>1. PICK a : a = <<s[1]>>
  OBVIOUS
<1>2. PICK t : t = Tail(s)
  OBVIOUS
<1>3. PICK u : u = a \o t
  OBVIOUS
<1>4. IsSeq(a) /\ Len(a) = 1 /\ a[1] = s[1]
  BY <1>1, ShortSeqs
<1>5. /\ IsSeq(t) /\ Len(t) = Len(s) - 1 /\ Len(s) \in Nat \ {0}
      /\ \A i \in 1..(Len(s) - 1) : t[i] = s[i + 1]
  BY <1>2, TailSeq
<1>6. Joins(a, t, u)
  BY <1>3, <1>4, <1>5, ConcatJoins
<1>7. IsSeq(u) /\ Len(u) = Len(s)
  BY <1>4, <1>5, <1>6 DEF Joins
<1>8. ASSUME NEW i \in 1..Len(s) PROVE u[i] = s[i]
  <2>1. CASE i = 1
    BY <1>4, <1>6, <2>1 DEF Joins
  <2>2. CASE i # 1
    <3>1. PICK j \in 1..(Len(s) - 1) : i = 1 + j /\ i = j + 1
      <4>1. i - 1 \in 1..(Len(s) - 1) /\ i = 1 + (i - 1) /\ i = (i - 1) + 1
        BY <1>5, <2>2
      <4> QED
        BY <4>1
    <3>2. u[1 + j] = t[j]
      BY <1>4, <1>5, <1>6 DEF Joins
    <3> QED
      BY <1>5, <3>1, <3>2
  <2> QED
    BY <2>1, <2>2
<1>9. u = s
  BY <1>7, <1>8, SameSeq
<1> QED
  BY <1>1, <1>2, <1>3, <1>9

LEMMA SendKeeps ==
    ASSUME LInv, Send
    PROVE  LInv' /\ UNCHANGED <<committed, handed, lostAt>>
<1>1. LTypes
  BY DEF LInv
<1>2. IsSeq(handed) /\ IsSeq(outCh) /\ IsSeq(sending) /\ IsSeq(<<>>)
  BY <1>1, ShortSeqs DEF LTypes
<1>3. /\ outCh' = outCh \o sending /\ sending' = <<>>
      /\ UNCHANGED <<server, library, currentPos, inTx, currentTx, handed, lostAt>>
  BY DEF Send
<1>4. IsSeq(outCh')
  BY <1>2, <1>3, ConcatJoins DEF Joins
<1>5. PICK o : o = outCh'
  OBVIOUS
<1>6. PICK c : c = handed \o o
  OBVIOUS
<1>7. IsSeq(c)
  BY <1>2, <1>4, <1>5, <1>6, ConcatJoins DEF Joins
<1>8. c \o <<>> = c /\ (handed \o outCh) \o sending = handed \o (outCh \o sending)
  BY <1>2, <1>7, ThreeSeqs, SMTT(20)
<1>9. Delivered' = Delivered
  BY <1>3, <1>5, <1>6, <1>8 DEF Delivered
<1>10. LInv'
  BY <1>2, <1>3, <1>4, <1>9, QuietKeeps DEF library
<1> QED
  BY <1>3, <1>10 DEF server

LEMMA ReceiveKeeps ==
    ASSUME LInv, Receive
    PROVE  LInv' /\ Delivered' = Delivered
<1>1. LTypes
  BY DEF LInv
<1>2. IsSeq(handed) /\ IsSeq(outCh) /\ IsSeq(sending)
  BY <1>1 DEF LTypes
<1>3. PICK x : x = outCh[1]
  OBVIOUS
<1>4. /\ outCh # <<>> /\ handed' = Append(handed, x) /\ outCh' = Tail(outCh)
      /\ UNCHANGED <<server, library, reader, lostAt>>
  BY <1>3 DEF Receive
<1>5. PICK h : h = handed'
  OBVIOUS
<1>6. PICK o : o = outCh'
  OBVIOUS
<1>7. IsSeq(h) /\ IsSeq(o)
  <2>1. IsSeq(Append(handed, x))
    BY <1>2, AppendSeq
  <2>2. IsSeq(Tail(outCh))
    BY <1>2, <1>4, TailSeq
  <2> QED
    BY <1>4, <1>5, <1>6, <2>1, <2>2
<1>8. h = handed \o <<x>>
  <2>1. PICK S : S = {handed[i] : i \in DOMAIN handed} \cup {x}
    OBVIOUS
  <2>2. handed \in Seq(S) /\ x \in S
    BY <1>2, <2>1 DEF IsSeq
  <2> QED
    BY <1>4, <1>5, <2>2, AppendIsConcat
<1>9. <<x>> \o o = outCh
  BY <1>2, <1>3, <1>4, <1>6, TakeFirst
<1>10. h \o o = handed \o outCh
  <2>1. IsSeq(<<x>>)
    BY ShortSeqs
  <2>2. (handed \o <<x>>) \o o = handed \o (<<x>> \o o)
    BY <1>2, <1>7, <2>1, ThreeSeqs, SMTT(20)
  <2> QED
    BY <1>8, <1>9, <2>2
<1>11. Delivered' = Delivered
  BY <1>4, <1>5, <1>6, <1>10 DEF Delivered, reader
<1>12. LInv'
  BY <1>2, <1>4, <1>5, <1>6, <1>7, <1>11, QuietKeeps DEF library, reader
<1> QED
  BY <1>11, <1>12

LEMMA FailureKeeps ==
    ASSUME LInv, StreamerFails
    PROVE  LInv'
<1>1. UNCHANGED <<server, dfile, dnext, announced, reader, outCh, handed, lostAt>>
  BY DEF StreamerFails
<1>2. Delivered' = Delivered
  BY <1>1 DEF Delivered, reader
<1>3. IsSeq(handed') /\ IsSeq(outCh') /\ IsSeq(sending')
  BY <1>1 DEF LInv, LTypes, reader
<1> QED
  BY <1>1, <1>2, <1>3, QuietKeeps DEF reader

\* A connection lost beyond the limit loses the place, and nothing delivered.
LEMMA ReconnectKeeps ==
    ASSUME LInv, Reconnect
    PROVE  LInv'
<1>1. LTypes /\ LogInv /\ DeliveredIsPassed
  BY DEF LInv
<1>2. UNCHANGED <<server, dfile, reader, outCh, handed>> /\ announced' = FALSE
  BY DEF Reconnect
<1>3. Delivered' = Delivered /\ committed' = committed
  BY <1>2 DEF Delivered, reader, server
<1>4. IsSeq(handed') /\ IsSeq(outCh') /\ IsSeq(sending')
  BY <1>1, <1>2 DEF LTypes, reader
<1>5. CASE ~ Wraps(Start + dnext)
  <2>1. UNCHANGED <<dnext, lostAt>>
    BY <1>5 DEF Reconnect
  <2> QED
    BY <1>2, <1>3, <1>4, <2>1, QuietKeeps DEF reader
<1>6. CASE Wraps(Start + dnext)
  <2>1. lostAt' = IF lostAt = NotLost THEN Len(Delivered) ELSE lostAt
    BY <1>6 DEF Reconnect
  <2>2. lostAt \in 0..NotLost /\ NotLost \in Nat
    BY <1>1, BinlogAssumption DEF LTypes, NotLost
  <2>3. Len(Delivered) \in Nat /\ DOMAIN Delivered = 1..Len(Delivered)
    BY <1>1, DeliveredIsSeq
  <2>4. lostAt = NotLost => Len(Delivered) < NotLost
    <3>1. ASSUME lostAt = NotLost
          PROVE  Len(Delivered) <= Len(committed) /\ Len(committed) < NotLost /\ Len(committed) \in Nat
      BY <1>1, <3>1, DeliveredIsCommitted
    <3> QED
      BY <2>2, <2>3, <3>1
  <2>5. lostAt' \in 0..NotLost /\ lostAt' # NotLost /\ lostAt' <= Len(Delivered) /\ lostAt' <= lostAt
    <3>1. lostAt # NotLost => lostAt <= Len(Delivered)
      BY DEF LInv
    <3>2. CASE lostAt = NotLost
      BY <2>1, <2>2, <2>3, <2>4, <3>2
    <3>3. CASE lostAt # NotLost
      BY <2>1, <2>2, <2>3, <3>1, <3>3
    <3> QED
      BY <3>2, <3>3
  <2>6. LTypes' /\ LogInv'
    <3>1. files' = files /\ committed' = committed /\ groups' = groups
      BY <1>2 DEF server
    <3>2. LTypes'
      BY <1>1, <1>4, <2>5, <3>1 DEF LTypes, NotLost
    <3> QED
      BY <1>1, <3>1, <3>2, LogStays
  <2>7. DeliveredIsPassed'
    <3>1. ASSUME NEW i \in DOMAIN Delivered, i <= lostAt'
          PROVE  i \in DOMAIN committed /\ Delivered[i] = AsSeen(committed[i])
      <4>1. i <= lostAt
        BY <2>2, <2>3, <2>5, <3>1
      <4> QED
        BY <1>1, <4>1 DEF DeliveredIsPassed
    <3> QED
      BY <1>3, <2>5, <3>1 DEF DeliveredIsPassed, AsSeen, Narrow, NotLost
  <2> QED
    BY <1>3, <2>5, <2>6, <2>7 DEF LInv, NotLost
<1> QED
  BY <1>5, <1>6

\* The reader starts behind transaction k, or at the beginning.
LEMMA StartsBehind ==
    ASSUME LTypes, LogInv, NEW k \in Nat, k > 0 => k \in DOMAIN committed,
           k > 0 => ~ Wraps(committed[k].position.position),
           NEW pos, pos = IF k = 0 THEN NoCoordinate ELSE AsSeen(committed[k]).position,
           UNCHANGED <<files, committed>>, ResumeFrom(pos)
    PROVE  /\ ReaderFollows'
           /\ \A i \in DOMAIN committed : HasRead(committed[i].position)' <=> i <= k
<1>1. /\ DOMAIN files = 1..Len(files) /\ Len(files) \in Nat \ {0}
      /\ DOMAIN committed = 1..Len(committed) /\ Len(committed) \in Nat
      /\ \A f \in DOMAIN files : Len(files[f]) \in Nat
  BY SeqIsFunction DEF LTypes
<1>2. currentPos' = pos /\ StartSync(pos) /\ inTx' = FALSE
  BY DEF ResumeFrom
<1>3. announced' = FALSE
  BY <1>2 DEF StartSync
<1>4. CASE k = 0
  <2>1. pos = [file |-> 0, position |-> 0]
    BY <1>4 DEF NoCoordinate, NoFile
  <2>2. dfile' = 1 /\ dnext' = 0
    BY <1>2, <2>1 DEF StartSync, NoFile
  <2>3. 1 \in DOMAIN files /\ 0 \in 0..Len(files[1])
    BY <1>1
  <2>4. ReaderFollows'
    BY <1>2, <1>3, <2>1, <2>2, <2>3, StartsOutside, FollowsOutside
  <2>5. ASSUME NEW i \in DOMAIN committed PROVE ~ HasRead(committed[i].position)' /\ ~ (i <= 0)
    <3>1. PICK c : c = committed[i]
      OBVIOUS
    <3>2. PICK g \in DOMAIN files : \E e \in 1..Len(files[g]) :
              c.position.file = g /\ c.position.position = Start + e
      BY <3>1, CommittedAt DEF LogInv
    <3>3. PICK e \in 1..Len(files[g]) : c.position.file = g /\ c.position.position = Start + e
      BY <3>2
    <3>4. ~ (g < 1) /\ ~ (Start + e <= Start + 0) /\ ~ (i <= 0)
      BY <1>1 DEF Start
    <3>5. ~ HasRead(c.position)'
      BY <2>2, <3>3, <3>4 DEF HasRead, Start
    <3> QED
      BY <3>1, <3>4, <3>5
  <2> QED
    BY <1>4, <2>4, <2>5
<1>5. CASE k # 0
  <2>1. k \in DOMAIN committed /\ ~ Wraps(committed[k].position.position)
    BY <1>5
  <2>2. PICK c : c = committed[k]
    OBVIOUS
  <2>3. PICK g \in DOMAIN files : \E e \in 1..Len(files[g]) :
            /\ c = [position |-> Coordinate(g, e), changes |-> c.changes]
            /\ EventCommits(g, e, c.changes)
    BY <2>1, <2>2, CommittedAt DEF LogInv
  <2>4. PICK e \in 1..Len(files[g]) :
            /\ c = [position |-> Coordinate(g, e), changes |-> c.changes]
            /\ EventCommits(g, e, c.changes)
    BY <2>3
  <2>5. g \in Nat \ {0} /\ e \in Nat \ {0} /\ Len(files[g]) \in Nat
    BY <1>1
  <2>6. c.position.file = g /\ c.position.position = Start + e
    BY <2>4 DEF Coordinate
  <2>7. pos = [file |-> g, position |-> Start + e]
    <3>1. PosLimit \in Nat \ {0} /\ Start + e \in Nat /\ Start + e < PosLimit
      BY <2>1, <2>2, <2>5, <2>6, BinlogAssumption DEF Wraps, Start
    <3>2. Narrow(Start + e) = Start + e
      BY <3>1 DEF Narrow
    <3>3. AsSeen(c).position = [file |-> g, position |-> Narrow(Start + e)]
      BY <2>4 DEF AsSeen, Coordinate
    <3> QED
      BY <1>5, <2>2, <3>2, <3>3
  <2>8. dfile' = g /\ dnext' = e
    <3>1. g # NoFile /\ Start + e > 0 /\ Start + e >= Start /\ Start + e - Start = e
      BY <2>5 DEF NoFile, Start
    <3>2. PICK w : w = Start + e
      OBVIOUS
    <3>3. /\ dfile' = IF pos.file # NoFile /\ pos.position > 0 THEN pos.file ELSE 1
          /\ dnext' = IF (pos.file # NoFile /\ pos.position > 0) /\ pos.position >= Start
                      THEN pos.position - Start ELSE 0
      BY <1>2 DEF StartSync
    <3>4. pos.file = g /\ pos.position = w
      BY <2>7, <3>2
    <3>5. w > 0 /\ w >= Start /\ w - Start = e
      BY <2>5, <3>2 DEF Start
    <3>6. pos.file # NoFile /\ pos.position > 0 /\ pos.position >= Start
      BY <3>1, <3>4, <3>5
    <3> QED
      BY <3>3, <3>4, <3>5, <3>6
  <2>9. Outside(g, e)
    <3>1. e - 1 \in Nat /\ e - 1 + 1 = e
      BY <2>5
    <3>2. files[g][e].kind # "begin" /\ (files[g][e].kind = "rows" => Outside(g, e - 1))
      BY <2>4 DEF EventCommits
    <3> QED
      BY <3>1, <3>2, OutsideStep
  <2>10. e \in 0..Len(files[g])
    BY <2>5
  <2>11. ReaderFollows'
    BY <1>2, <1>3, <2>7, <2>8, <2>9, <2>10, FollowsOutside
  <2>12. ASSUME NEW i \in DOMAIN committed PROVE HasRead(committed[i].position)' <=> i <= k
    <3>1. PICK t : t = committed[i]
      OBVIOUS
    <3>2. PICK h \in DOMAIN files : \E d \in 1..Len(files[h]) :
              t.position.file = h /\ t.position.position = Start + d
      BY <3>1, CommittedAt DEF LogInv
    <3>3. PICK d \in 1..Len(files[h]) : t.position.file = h /\ t.position.position = Start + d
      BY <3>2
    <3>4. h \in Nat /\ d \in Nat /\ i \in Nat
      BY <1>1
    <3>5. HasRead(t.position)' <=> h < g \/ (h = g /\ Start + d <= Start + e)
      BY <2>8, <3>3 DEF HasRead, Start
    <3>6. i < k => h < g \/ (h = g /\ Start + d < Start + e)
      BY <2>1, <2>2, <2>6, <3>1, <3>3 DEF LogInv, CommittedInOrder, Before
    <3>7. k < i => g < h \/ (g = h /\ Start + e < Start + d)
      BY <2>1, <2>2, <2>6, <3>1, <3>3 DEF LogInv, CommittedInOrder, Before
    <3>8. i = k => h = g /\ Start + d = Start + e
      BY <2>2, <2>6, <3>1, <3>3
    <3>9. h < g \/ (h = g /\ Start + d <= Start + e) <=> i <= k
      <4>1. i < k \/ i = k \/ k < i
        BY <3>4
      <4> QED
        BY <2>5, <3>4, <3>6, <3>7, <3>8, <4>1 DEF Start
    <3> QED
      BY <3>1, <3>5, <3>9
  <2> QED
    BY <2>11, <2>12
<1> QED
  BY <1>4, <1>5

LEMMA NoMoreThanSum ==
    ASSUME NEW a \in Nat, NEW b \in Nat, NEW c \in Nat, NEW d, d = a + b + c
    PROVE  a <= d
  OBVIOUS

\* A restart forgets what is not handed over, and finds its place again
\* behind a transaction from before it was lost.
LEMMA RestartKeeps ==
    ASSUME LInv, NEW k \in 0..Len(handed), Restart(k)
    PROVE  LInv'
<1>1. LTypes /\ LogInv /\ DeliveredIsPassed
  BY DEF LInv
<1>2. PICK D : D = Delivered
  OBVIOUS
<1>3. /\ Len(D) \in Nat /\ DOMAIN D = 1..Len(D) /\ Len(handed) \in Nat /\ Len(handed) <= Len(D)
      /\ \A i \in 1..Len(handed) : D[i] = handed[i]
  <2>1. /\ Len(D) \in Nat /\ DOMAIN D = 1..Len(D)
        /\ Len(handed) \in Nat /\ Len(outCh) \in Nat /\ Len(sending) \in Nat
        /\ Len(D) = Len(handed) + Len(outCh) + Len(sending)
        /\ \A i \in 1..Len(handed) : D[i] = handed[i]
    BY <1>1, <1>2, DeliveredIsSeq, Zenon
  <2>2. Len(handed) <= Len(D)
    BY <2>1, NoMoreThanSum
  <2> QED
    BY <2>1, <2>2, Zenon
<1>4. k \in Nat /\ k <= Len(handed) /\ k <= Len(D) /\ 1..k \subseteq DOMAIN D
  BY <1>3
<1>5. PICK h : h = SubSeq(handed, 1, k)
  OBVIOUS
<1>6. IsSeq(h) /\ Len(h) = k /\ DOMAIN h = 1..k /\ \A i \in 1..k : h[i] = D[i]
  <2>1. IsSeq(handed)
    BY <1>1 DEF LTypes
  <2>2. IsSeq(h) /\ Len(h) = k /\ \A i \in 1..k : h[i] = handed[i]
    BY <1>5, <2>1, SubSeqSeq
  <2> QED
    BY <1>3, <1>4, <2>2, SeqIsFunction
<1>7. /\ handed' = h /\ outCh' = <<>> /\ sending' = <<>> /\ UNCHANGED server
      /\ files' = files /\ committed' = committed /\ groups' = groups
  BY <1>5 DEF Restart, ResumeFrom, server
<1>8. Delivered' = h
  <2>1. h \o <<>> = h
    BY <1>6, ThreeSeqs
  <2> QED
    BY <1>7, <2>1 DEF Delivered
<1>9. lostAt \in 0..NotLost /\ NotLost \in Nat
  BY <1>1, BinlogAssumption DEF LTypes, NotLost
<1>10. lostAt = NotLost => k < NotLost
  <2>1. ASSUME lostAt = NotLost
        PROVE  Len(D) <= Len(committed) /\ Len(committed) < NotLost /\ Len(committed) \in Nat
    BY <1>1, <1>2, <2>1, DeliveredIsCommitted
  <2> QED
    BY <1>3, <1>4, <1>9, <2>1
<1>11. LTypes' /\ LogInv' /\ lostAt' \in 0..NotLost
  <2>1. lostAt' \in 0..NotLost
    <3>1. lostAt' \in {lostAt, NotLost} \/ (lostAt' = k /\ k <= lostAt)
      BY <1>4, <1>9 DEF Restart
    <3> QED
      BY <1>4, <1>9, <3>1
  <2>2. IsSeq(handed') /\ IsSeq(outCh') /\ IsSeq(sending')
    BY <1>6, <1>7, ShortSeqs
  <2>3. LTypes'
    BY <1>1, <1>7, <2>1, <2>2 DEF LTypes, NotLost
  <2> QED
    BY <1>1, <1>7, <2>1, <2>3, LogStays
<1>12. ASSUME NEW i \in 1..k, i <= lostAt PROVE i \in DOMAIN committed /\ h[i] = AsSeen(committed[i])
  BY <1>1, <1>2, <1>4, <1>6, <1>12 DEF DeliveredIsPassed
<1>13. CASE k > lostAt
  <2>1. lostAt' = lostAt /\ lostAt # NotLost /\ lostAt <= k
    <3>1. lostAt' = lostAt
      BY <1>13 DEF Restart
    <3> QED
      BY <1>4, <1>9, <1>10, <1>13, <3>1
  <2>2. DeliveredIsPassed'
    BY <1>6, <1>7, <1>8, <1>12, <2>1 DEF DeliveredIsPassed, AsSeen, Narrow, NotLost
  <2> QED
    BY <1>6, <1>8, <1>11, <2>1, <2>2 DEF LInv, NotLost
<1>14. CASE ~ (k > lostAt) /\ k > 0 /\ Wraps(committed[k].position.position)
  <2>1. lostAt' = k
    BY <1>14 DEF Restart
  <2>2. k # NotLost /\ k <= lostAt
    BY <1>4, <1>9, <1>10, <1>14
  <2>3. \A i \in 1..k : i <= lostAt
    BY <1>4, <1>9, <2>2
  <2>4. DeliveredIsPassed'
    BY <1>6, <1>7, <1>8, <1>12, <2>1, <2>2, <2>3 DEF DeliveredIsPassed, AsSeen, Narrow, NotLost
  <2>5. lostAt' <= Len(Delivered')
    BY <1>4, <1>6, <1>8, <2>1
  <2> QED
    BY <1>11, <2>1, <2>2, <2>4, <2>5 DEF LInv, NotLost
<1>15. CASE ~ (k > lostAt) /\ ~ (k > 0 /\ Wraps(committed[k].position.position))
  <2>1. lostAt' = NotLost
    BY <1>15 DEF Restart
  <2>2. \A i \in 1..k : i <= lostAt
    BY <1>4, <1>9, <1>15
  <2>3. k > 0 => k \in DOMAIN committed /\ h[k] = AsSeen(committed[k]) /\ h[k] = handed[k]
    BY <1>3, <1>4, <1>6, <1>12, <2>2
  <2>4. PICK pos : pos = IF k = 0 THEN NoCoordinate ELSE AsSeen(committed[k]).position
    OBVIOUS
  <2>5. pos = IF k = 0 THEN NoCoordinate ELSE handed[k].position
    BY <1>4, <2>3, <2>4
  <2>6. ResumeFrom(pos)
    BY <2>5 DEF Restart
  <2>7. /\ ReaderFollows'
        /\ \A i \in DOMAIN committed : HasRead(committed[i].position)' <=> i <= k
    BY <1>1, <1>4, <1>7, <1>15, <2>3, <2>4, <2>6, StartsBehind
  <2>8. \A i \in DOMAIN committed' : HasRead(committed[i].position)' <=> i <= Len(Delivered')
    BY <1>6, <1>7, <1>8, <2>7
  <2>9. DeliveredIsPassed'
    BY <1>6, <1>7, <1>8, <1>12, <2>2, <2>8 DEF DeliveredIsPassed, AsSeen, Narrow, NotLost
  <2> QED
    BY <1>11, <2>1, <2>7, <2>9 DEF LInv, NotLost
<1> QED
  BY <1>13, <1>14, <1>15

-----------------------------------------------------------------------------
(***************************************************************************)
(* The theorems.                                                           *)
(***************************************************************************)

LEMMA LInitInv == LInit => LInv
<1> SUFFICES ASSUME LInit PROVE LInv
  OBVIOUS
<1>1. /\ files = <<<<>>>> /\ committed = <<>> /\ groups = 0 /\ dfile = 1 /\ dnext = 0
      /\ announced = FALSE /\ currentPos = NoCoordinate /\ inTx = FALSE
      /\ sending = <<>> /\ outCh = <<>> /\ handed = <<>> /\ lostAt = NotLost
  BY DEF LInit
<1>2. MaxGroups \in Nat
  BY BinlogAssumption
<1>3. IsSeq(<<>>) /\ IsSeq(files) /\ Len(files) = 1 /\ files[1] = <<>>
  BY <1>1, ShortSeqs
<1>4. DOMAIN files = {1} /\ DOMAIN files[1] = {} /\ Len(files[1]) = 0
  BY <1>1
<1>5. LTypes
  BY <1>1, <1>2, <1>3, <1>4 DEF LTypes, NotLost
<1>6. LogInv
  BY <1>1, <1>4 DEF LogInv, GroupsAreWhole, CommittedIsLogged, LoggedIsCommitted, CommittedInOrder
<1>7. ReaderFollows
  BY <1>1, <1>4, StartsOutside DEF ReaderFollows, NoCoordinate
<1>8. Delivered = <<>>
  BY <1>1 DEF Delivered
<1>9. DeliveredIsPassed
  BY <1>1, <1>8 DEF DeliveredIsPassed
<1> QED
  BY <1>1, <1>5, <1>6, <1>7, <1>9 DEF LInv

LEMMA LInvStep == LInv /\ [LNext]_lvars => LInv'
<1> SUFFICES ASSUME LInv, [LNext]_lvars PROVE LInv'
  OBVIOUS
<1>1. CASE ServerStep
  BY <1>1, ServerKeeps
<1>2. CASE Reconnect
  BY <1>2, ReconnectKeeps
<1>3. CASE StreamerFails
  BY <1>3, FailureKeeps
<1>4. CASE ReadLoop
  BY <1>4, ReadsKeep, SendKeeps DEF ReadLoop, Reads
<1>5. CASE Receive
  BY <1>5, ReceiveKeeps
<1>6. CASE \E k \in 0..Len(handed) : Restart(k)
  BY <1>6, RestartKeeps
<1>7. CASE UNCHANGED lvars
  <2>1. UNCHANGED <<server, lostAt, dfile, dnext, announced, currentPos, inTx, currentTx, handed,
                    outCh, sending>>
    BY <1>7 DEF lvars, library, reader
  <2>2. Delivered' = Delivered /\ IsSeq(handed') /\ IsSeq(outCh') /\ IsSeq(sending')
    BY <2>1 DEF Delivered, LInv, LTypes
  <2> QED
    BY <2>1, <2>2, QuietKeeps
<1> QED
  BY <1>1, <1>2, <1>3, <1>4, <1>5, <1>6, <1>7 DEF LNext

\* The inductive invariant of the source: the log is whole and the committed
\* transactions are what it says, and a reader that has its place holds the
\* rows of the group it is in and nothing else.
THEOREM SourceInvariant == LSpec => []LInv
  BY LInitInv, LInvStep, PTL DEF LSpec

\* readLoop delivers exactly the committed transactions it has passed, in
\* order, with all their changes and positions, over rotated files, lost
\* connections and restarts, until the place is lost beyond 32 bits; and what
\* was delivered before stays right.
THEOREM DeliveredArePassed == LSpec => []DeliveredIsPassed
<1>1. LInv => DeliveredIsPassed
  BY DEF LInv
<1> QED
  BY <1>1, SourceInvariant, PTL

-----------------------------------------------------------------------------
(***************************************************************************)
(* The abstract change source.                                             *)
(***************************************************************************)

\* What the pipeline can see of the source: the committed transactions, and
\* the ones it was given while the source had its place.
Seen  == [i \in DOMAIN committed |-> AsSeen(committed[i])]
Shown == IF Len(handed) <= lostAt THEN handed ELSE SubSeq(handed, 1, lostAt)

LEMMA SeenIsSeq ==
    ASSUME LTypes, NEW C, C = Seen
    PROVE  /\ IsSeq(C) /\ Len(C) = Len(committed) /\ Len(C) \in Nat /\ DOMAIN committed = 1..Len(C)
           /\ \A i \in 1..Len(C) : C[i] = AsSeen(committed[i])
<1>1. Len(committed) \in Nat /\ DOMAIN committed = 1..Len(committed)
  BY SeqIsFunction DEF LTypes
<1>2. /\ DOMAIN C = 1..Len(committed) /\ C = [i \in 1..Len(committed) |-> C[i]]
      /\ \A i \in 1..Len(committed) : C[i] = AsSeen(committed[i])
  BY <1>1 DEF Seen
<1>3. IsSeq(C) /\ Len(C) = Len(committed)
  BY <1>1, <1>2, FunctionIsSeq
<1> QED
  BY <1>1, <1>2, <1>3

\* The sequence t is the first k elements of s.
Begins(s, k, t) == IsSeq(t) /\ Len(t) = k /\ \A i \in 1..k : t[i] = s[i]

LEMMA FirstBegins ==
    ASSUME NEW s, IsSeq(s), NEW k \in 0..Len(s), NEW t, t = SubSeq(s, 1, k)
    PROVE  Begins(s, k, t)
<1>1. /\ IsSeq(SubSeq(s, 1, k)) /\ Len(SubSeq(s, 1, k)) = k
      /\ \A i \in 1..k : SubSeq(s, 1, k)[i] = s[i]
  BY SubSeqSeq
<1> QED
  BY <1>1 DEF Begins

LEMMA BeginsOnce ==
    ASSUME NEW s, NEW k \in Nat, NEW t, NEW u, Begins(s, k, t), Begins(s, k, u)
    PROVE  t = u
<1>1. IsSeq(t) /\ IsSeq(u) /\ Len(t) = Len(u) /\ \A i \in 1..Len(t) : t[i] = u[i]
  BY DEF Begins
<1> QED
  BY <1>1, SameSeq

LEMMA ShownIsSeq ==
    ASSUME LTypes, NEW H, H = Shown
    PROVE  /\ IsSeq(H) /\ Len(H) \in Nat /\ Len(H) <= Len(handed) /\ Begins(handed, Len(H), H)
           /\ Len(handed) \in Nat /\ lostAt \in Nat
           /\ Len(H) = IF Len(handed) <= lostAt THEN Len(handed) ELSE lostAt
<1>1. IsSeq(handed) /\ lostAt \in Nat
  <2>1. lostAt \in 0..NotLost /\ NotLost \in Nat
    BY BinlogAssumption DEF LTypes, NotLost
  <2> QED
    BY <2>1 DEF LTypes
<1>2. Len(handed) \in Nat
  BY <1>1, SeqIsFunction
<1>3. CASE Len(handed) <= lostAt
  <2>1. H = handed
    BY <1>3 DEF Shown
  <2> QED
    BY <1>1, <1>2, <1>3, <2>1 DEF Begins
<1>4. CASE ~ (Len(handed) <= lostAt)
  <2>1. lostAt \in 0..Len(handed) /\ lostAt <= Len(handed)
    BY <1>1, <1>2, <1>4
  <2>2. H = SubSeq(handed, 1, lostAt)
    BY <1>4 DEF Shown
  <2>3. Begins(handed, lostAt, H)
    BY <1>1, <2>1, <2>2, FirstBegins
  <2>4. IsSeq(H) /\ Len(H) = lostAt
    BY <2>3 DEF Begins
  <2> QED
    BY <1>1, <1>2, <1>4, <2>1, <2>3, <2>4
<1> QED
  BY <1>3, <1>4

LEMMA ServerCommits ==
    ASSUME LInv, ServerStep
    PROVE  CS!Commits \/ UNCHANGED <<Seen, Shown>>
<1>1. LTypes /\ LTypes' /\ LogInv /\ Logged
  BY ServerKeeps, ServerLogs DEF LInv
<1>2. UNCHANGED <<handed, lostAt>>
  BY ServerFrame
<1>3. Shown' = Shown
  BY <1>2 DEF Shown
<1>4. PICK C : C = Seen
  OBVIOUS
<1>5. PICK E : E = Seen'
  OBVIOUS
<1>6. /\ IsSeq(C) /\ Len(C) = Len(committed) /\ Len(C) \in Nat /\ DOMAIN committed = 1..Len(C)
      /\ \A i \in 1..Len(C) : C[i] = AsSeen(committed[i])
  BY <1>1, <1>4, SeenIsSeq
<1>7. /\ IsSeq(committed') /\ \A i \in 1..Len(C) : committed'[i] = committed[i]
      /\ Len(committed') = Len(C) \/ Len(committed') = Len(C) + 1
  BY <1>1, <1>6, LogAfter
<1>8. PICK n : n = Len(committed')
  OBVIOUS
<1>9. n \in Nat /\ DOMAIN committed' = 1..n
  BY <1>7, <1>8, SeqIsFunction
<1>10. E = [i \in 1..n |-> AsSeen(committed'[i])]
  BY <1>5, <1>9 DEF Seen, AsSeen, Narrow
<1>11. IsSeq(E) /\ Len(E) = n
  <2>1. DOMAIN E = 1..n /\ E = [i \in 1..n |-> E[i]]
    BY <1>10
  <2> QED
    BY <1>9, <2>1, FunctionIsSeq
<1>12. \A i \in 1..Len(C) : i \in 1..n /\ E[i] = C[i]
  BY <1>6, <1>7, <1>8, <1>9, <1>10
<1>13. CASE n = Len(C)
  <2>1. E = C
    BY <1>6, <1>11, <1>12, <1>13, SameSeq
  <2> QED
    BY <1>3, <1>4, <1>5, <2>1
<1>14. CASE n = Len(C) + 1
  <2>1. PICK x : x = E[Len(C) + 1]
    OBVIOUS
  <2>2. PICK A : A = Append(C, x)
    OBVIOUS
  <2>3. /\ IsSeq(A) /\ Len(A) = Len(C) + 1
        /\ \A i \in 1..Len(C) : A[i] = C[i]
        /\ A[Len(C) + 1] = x
    BY <1>6, <2>2, AppendSeq
  <2>4. \A i \in 1..Len(E) : E[i] = A[i]
    BY <1>6, <1>11, <1>12, <1>14, <2>1, <2>3
  <2>5. E = A
    BY <1>11, <1>14, <2>3, <2>4, SameSeq
  <2>6. Len(E) = Len(C) + 1 /\ E = Append(C, E[Len(C) + 1])
    BY <1>11, <1>14, <2>1, <2>2, <2>5
  <2> QED
    BY <1>3, <1>4, <1>5, <2>6 DEF CS!Commits, Seen, Shown
<1> QED
  BY <1>7, <1>8, <1>13, <1>14

LEMMA ReceiveDelivers ==
    ASSUME LInv, Receive
    PROVE  CS!Delivers \/ UNCHANGED <<Seen, Shown>>
<1>1. LTypes /\ DeliveredIsPassed /\ LTypes' /\ Delivered' = Delivered
  BY ReceiveKeeps DEF LInv
<1>2. PICK x : x = outCh[1]
  OBVIOUS
<1>3. handed' = Append(handed, x) /\ lostAt' = lostAt /\ committed' = committed
  BY <1>2 DEF Receive, server
<1>4. Seen' = Seen
  BY <1>3 DEF Seen, AsSeen, Narrow
<1>5. PICK H : H = Shown
  OBVIOUS
<1>6. PICK G : G = Shown'
  OBVIOUS
<1>7. /\ IsSeq(H) /\ Len(H) \in Nat /\ Len(H) <= Len(handed) /\ Begins(handed, Len(H), H)
      /\ Len(handed) \in Nat /\ lostAt \in Nat
      /\ Len(H) = IF Len(handed) <= lostAt THEN Len(handed) ELSE lostAt
  BY <1>1, <1>5, ShownIsSeq
<1>8. PICK h : h = handed'
  OBVIOUS
<1>9. /\ IsSeq(h) /\ Len(h) = Len(handed) + 1 /\ h[Len(handed) + 1] = x
      /\ \A i \in 1..Len(handed) : h[i] = handed[i]
  <2>1. IsSeq(handed)
    BY <1>1 DEF LTypes
  <2> QED
    BY <1>3, <1>8, <2>1, AppendSeq
<1>10. G = IF Len(h) <= lostAt THEN h ELSE SubSeq(h, 1, lostAt)
  BY <1>3, <1>6, <1>8 DEF Shown
<1>11. CASE Len(h) <= lostAt
  <2>1. Len(handed) <= lostAt
    BY <1>7, <1>9, <1>11
  <2>2. H = handed /\ G = Append(H, x)
    BY <1>3, <1>5, <1>8, <1>10, <1>11, <2>1 DEF Shown
  <2>3. PICK D : D = Delivered
    OBVIOUS
  <2>4. DOMAIN D = 1..Len(D) /\ Len(D) \in Nat /\ Len(h) <= Len(D) /\ D[Len(h)] = h[Len(h)]
    <3>1. /\ DOMAIN D = 1..Len(D) /\ Len(D) \in Nat /\ Len(handed') \in Nat
          /\ Len(outCh') \in Nat /\ Len(sending') \in Nat
          /\ Len(D) = Len(handed') + Len(outCh') + Len(sending')
          /\ \A i \in 1..Len(handed') : D[i] = handed'[i]
      <4>1. /\ IsSeq(handed') /\ IsSeq(outCh') /\ IsSeq(sending')
            /\ D = handed' \o outCh' \o sending'
        BY <1>1, <2>3 DEF LTypes, Delivered
      <4>2. Parts(handed', outCh', sending', D)
        BY <4>1, ThreeParts
      <4> QED
        BY <4>2 DEF Parts
    <3>2. Len(h) \in 1..Len(h)
      BY <1>7, <1>9
    <3> QED
      BY <1>8, <3>1, <3>2
  <2>5. Len(h) \in DOMAIN committed /\ x = AsSeen(committed[Len(h)])
    <3>1. Len(h) \in DOMAIN D
      BY <1>7, <1>9, <2>4
    <3>2. Len(h) \in DOMAIN committed /\ D[Len(h)] = AsSeen(committed[Len(h)])
      BY <1>1, <1>11, <2>3, <3>1 DEF DeliveredIsPassed
    <3> QED
      BY <1>9, <2>4, <3>2
  <2>6. PICK C : C = Seen
    OBVIOUS
  <2>7. Len(C) \in Nat /\ DOMAIN committed = 1..Len(C) /\ \A i \in 1..Len(C) : C[i] = AsSeen(committed[i])
    BY <1>1, <2>6, SeenIsSeq
  <2>8. Len(H) < Len(C) /\ x = C[Len(H) + 1]
    BY <1>7, <1>9, <2>2, <2>5, <2>7
  <2>9. Seen' = C /\ Shown' = Append(H, C[Len(H) + 1])
    BY <1>4, <1>6, <2>2, <2>6, <2>8
  <2> QED
    BY <1>5, <2>6, <2>8, <2>9 DEF CS!Delivers, Seen, Shown
<1>12. CASE ~ (Len(h) <= lostAt)
  <2>1. lostAt \in 0..Len(h) /\ lostAt <= Len(handed) /\ Len(H) = lostAt
    BY <1>7, <1>9, <1>12
  <2>2. Begins(h, lostAt, G)
    BY <1>9, <1>10, <1>12, <2>1, FirstBegins
  <2>3. Begins(h, lostAt, H)
    BY <1>7, <1>9, <2>1 DEF Begins
  <2>4. G = H
    BY <1>7, <2>2, <2>3, BeginsOnce
  <2> QED
    BY <1>4, <1>5, <1>6, <2>4
<1> QED
  BY <1>11, <1>12

LEMMA RestartResumes ==
    ASSUME LInv, NEW k \in 0..Len(handed), Restart(k)
    PROVE  CS!Resumes
<1>1. LTypes
  BY DEF LInv
<1>2. handed' = SubSeq(handed, 1, k) /\ committed' = committed
  BY DEF Restart, server
<1>3. Seen' = Seen
  BY <1>2 DEF Seen, AsSeen, Narrow
<1>4. PICK H : H = Shown
  OBVIOUS
<1>5. PICK G : G = Shown'
  OBVIOUS
<1>6. /\ IsSeq(H) /\ Len(H) \in Nat /\ Len(H) <= Len(handed) /\ Begins(handed, Len(H), H)
      /\ Len(handed) \in Nat /\ lostAt \in Nat
      /\ Len(H) = IF Len(handed) <= lostAt THEN Len(handed) ELSE lostAt
  BY <1>1, <1>4, ShownIsSeq
<1>7. PICK h : h = handed'
  OBVIOUS
<1>8. Begins(handed, k, h)
  <2>1. IsSeq(handed)
    BY <1>1 DEF LTypes
  <2> QED
    BY <1>2, <1>7, <2>1, FirstBegins
<1>9. PICK j : j = IF k > lostAt THEN lostAt ELSE k
  OBVIOUS
<1>10. j \in Nat /\ j \in 0..Len(H) /\ j <= k
  BY <1>6, <1>9
<1>11. Begins(handed, j, G)
  <2>1. CASE k > lostAt
    <3>1. lostAt' = lostAt
      BY <2>1 DEF Restart
    <3>2. IsSeq(h) /\ Len(h) = k
      BY <1>8 DEF Begins
    <3>3. ~ (Len(h) <= lostAt) /\ lostAt \in 0..Len(h) /\ j = lostAt
      BY <1>6, <1>9, <2>1, <3>2
    <3>4. G = SubSeq(h, 1, j)
      BY <1>5, <1>7, <3>1, <3>3 DEF Shown
    <3>5. Begins(h, j, G)
      BY <3>2, <3>3, <3>4, FirstBegins
    <3> QED
      BY <1>8, <1>10, <3>5 DEF Begins
  <2>2. CASE ~ (k > lostAt)
    <3>1. lostAt' \in {k, NotLost} /\ j = k
      BY <1>9, <2>2 DEF Restart
    <3>2. k <= NotLost /\ NotLost \in Nat
      <4>1. lostAt \in 0..NotLost /\ NotLost \in Nat
        BY <1>1, BinlogAssumption DEF LTypes, NotLost
      <4> QED
        BY <1>6, <2>2, <4>1
    <3>3. Len(h) = k
      BY <1>8 DEF Begins
    <3>4. Len(h) <= lostAt'
      BY <3>1, <3>2, <3>3
    <3>5. G = h
      BY <1>5, <1>7, <3>4 DEF Shown
    <3> QED
      BY <1>8, <3>1, <3>5
  <2> QED
    BY <2>1, <2>2
<1>12. G = SubSeq(H, 1, j)
  <2>1. PICK t : t = SubSeq(H, 1, j)
    OBVIOUS
  <2>2. Begins(H, j, t)
    BY <1>6, <1>10, <2>1, FirstBegins
  <2>3. Begins(handed, j, t)
    BY <1>6, <1>10, <2>2 DEF Begins
  <2> QED
    BY <1>10, <1>11, <2>1, <2>3, BeginsOnce
<1> QED
  BY <1>3, <1>4, <1>5, <1>10, <1>12 DEF CS!Resumes, Seen, Shown

LEMMA StepIsSourceStep ==
    LInv /\ [LNext]_lvars => [CS!Commits \/ CS!Delivers \/ CS!Resumes]_(CS!svars)
<1> SUFFICES ASSUME LInv, [LNext]_lvars
             PROVE  CS!Commits \/ CS!Delivers \/ CS!Resumes \/ UNCHANGED <<Seen, Shown>>
  BY DEF CS!svars, Seen, Shown
<1>1. CASE ServerStep
  BY <1>1, ServerCommits
<1>2. CASE UNCHANGED <<committed, handed, lostAt>>
  BY <1>2 DEF Seen, Shown, AsSeen, Narrow
<1>3. CASE Reconnect
  <2>1. LTypes /\ DeliveredIsPassed
    BY DEF LInv
  <2>2. UNCHANGED <<committed, handed>>
    BY <1>3 DEF Reconnect, server
  <2>3. lostAt' = lostAt \/ (lostAt = NotLost /\ lostAt' = Len(Delivered))
    BY <1>3, Zenon DEF Reconnect
  <2>4. CASE lostAt' = lostAt
    BY <1>2, <2>2, <2>4
  <2>5. CASE lostAt = NotLost /\ lostAt' = Len(Delivered)
    <3>1. Len(Delivered) <= Len(committed) /\ Len(committed) < NotLost /\ Len(committed) \in Nat
      BY <2>1, <2>5, DeliveredIsCommitted
    <3>2. /\ Len(Delivered) \in Nat /\ Len(handed) \in Nat
          /\ Len(outCh) \in Nat /\ Len(sending) \in Nat
          /\ Len(Delivered) = Len(handed) + Len(outCh) + Len(sending)
      BY <2>1, DeliveredIsSeq, Zenon
    <3>3. NotLost \in Nat
      BY BinlogAssumption DEF NotLost
    <3>4. Len(handed) <= NotLost /\ Len(handed) <= Len(Delivered)
      BY <3>1, <3>2, <3>3
    <3>5. Shown = handed /\ Shown' = handed
      BY <2>2, <2>5, <3>4 DEF Shown
    <3> QED
      BY <2>2, <3>5 DEF Seen, AsSeen, Narrow
  <2> QED
    BY <2>3, <2>4, <2>5
<1>4. CASE StreamerFails
  <2>1. UNCHANGED <<committed, handed, lostAt>>
    BY <1>4 DEF StreamerFails, server
  <2> QED
    BY <1>2, <2>1
<1>5. CASE ReadLoop
  <2>1. UNCHANGED <<committed, handed, lostAt>>
    <3>1. CASE Send
      BY <3>1, SendKeeps
    <3>2. CASE Reads
      BY <3>2, ReadsFrame DEF server
    <3> QED
      BY <1>5, <3>1, <3>2 DEF ReadLoop, Reads
  <2> QED
    BY <1>2, <2>1
<1>6. CASE Receive
  BY <1>6, ReceiveDelivers
<1>7. CASE \E k \in 0..Len(handed) : Restart(k)
  BY <1>7, RestartResumes
<1>8. CASE UNCHANGED lvars
  <2>1. UNCHANGED <<committed, handed, lostAt>>
    BY <1>8 DEF lvars, server
  <2> QED
    BY <1>2, <2>1
<1> QED
  BY <1>1, <1>3, <1>4, <1>5, <1>6, <1>7, <1>8 DEF LNext

\* The binlog source is the change source the pipeline relies on: what the
\* pipeline has been given is at any time the committed transactions, each
\* once and in order, up to some point, and a restart goes back to one of them.
THEOREM BinlogImplementsSource == LSpec => ImplementsChangeSource
<1>1. LInit => CS!SourceInit
  <2> SUFFICES ASSUME LInit PROVE Seen = <<>> /\ Shown = <<>>
    BY DEF CS!SourceInit, Seen, Shown
  <2>1. committed = <<>> /\ handed = <<>> /\ lostAt = NotLost /\ NotLost \in Nat
    BY BinlogAssumption DEF LInit, NotLost
  <2>2. DOMAIN committed = {}
    BY <2>1
  <2>3. Seen = <<>>
    BY <2>2 DEF Seen
  <2>4. Shown = <<>>
    BY <2>1 DEF Shown
  <2> QED
    BY <2>3, <2>4
<1> QED
  BY <1>1, StepIsSourceStep, SourceInvariant, PTL DEF LSpec, ImplementsChangeSource, CS!SourceSpec
=============================================================================
