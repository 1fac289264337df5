-------------------------- MODULE ConnectionProofs --------------------------
(***************************************************************************)
(* Proofs about Connection, for every number of threads, connections and   *)
(* mutations: a connection is left clean, and what a caller was told is    *)
(* what the database holds.                                                *)
(***************************************************************************)
EXTENDS Connection, SequenceTheorems, TLAPS

----------------------------------------------------------------------------
(* The inductive invariant, connection by connection *)

Users(k) == {c \in Callers : on[c] = k}

\* The caller is in a mutation, and has written this much of it.
Mutating(c) == step[c] \in {"first", "second", "exit"}

Part(c) ==
  CASE step[c] = "second" -> << <<Mine(c), 1>> >>
    [] step[c] = "exit" -> << <<Mine(c), 1>>, <<Mine(c), 2>> >>
    [] OTHER -> <<>>

\* A lock is held by a mutation in operation mode; a transaction or a commit of his own
\* is for the only user of a connection.
Locked(k) ==
  /\ holder[k] # None =>
       holder[k] \in Users(k) /\ Mutating(holder[k]) /\ holder[k] \notin within
  /\ \A c \in Users(k) :
       /\ Mutating(c) /\ c \notin within => holder[k] = c /\ k \notin left
       /\ c \in within =>
            Users(k) = {c} /\ k \in open \ left /\ step[c] \notin {"wait", "commit"}
       /\ step[c] = "commit" => Users(k) = {c} /\ k \in open

\* A transaction is open for somebody, or has been left.
Opened(k) ==
  /\ \A c \in Users(k) : step[c] \in {"second", "exit"} => k \in open
  /\ k \in open \ left =>
       \E c \in Users(k) : c \in within \/ step[c] \in {"second", "exit", "commit"}

\* The mutations of a caller are numbered, and the one under way has no answer.
Numbered(c) ==
  /\ step[c] # "idle" => n[c] > 0 /\ answer[Mine(c)] = "none"
  /\ \A m \in Mutations : m[1] = c /\ answer[m] # "none" => m[2] <= n[c]

\* A finished mutation that is in a transaction is there whole, and its answer is open.
Unsettled(m) ==
  \/ answer[m] = "unknown"
  \/ answer[m] = "pending" /\ m[1] \in within
  \/ step[m[1]] = "commit" /\ m = Mine(m[1])

Finished(k, s) ==
  \A m \in Mutations, i \in 1..2 : <<m, i>> \in ToSet(s) =>
    on[m[1]] = k /\ Writes(m) \subseteq ToSet(s) /\ Unsettled(m)

\* What is in the transaction of a connection: finished mutations, and in a mutation
\* within it a savepoint and what that mutation has written.
Recorded(k) ==
  /\ (\A c \in Users(k) : ~Mutating(c)) =>
       Mark \notin ToSet(journal[k]) /\ Finished(k, journal[k])
  /\ \A c \in Users(k) : Mutating(c) =>
       IF c \in within
       THEN \E base \in Seq(Pieces) :
              journal[k] = (base \o <<Mark>>) \o Part(c) /\ Finished(k, base)
       ELSE journal[k] = Part(c)

\* What its caller expects to commit is there.
Expected(k) ==
  \A m \in Mutations : on[m[1]] = k =>
    /\ answer[m] = "pending" => m[1] \in within /\ Writes(m) \subseteq ToSet(journal[k])
    /\ step[m[1]] = "commit" /\ m = Mine(m[1]) => Writes(m) \subseteq ToSet(journal[k])

ConnInv(k) ==
  /\ Locked(k) /\ Opened(k) /\ Recorded(k) /\ Expected(k)
  /\ \A c \in Users(k) : Numbered(c)

\* Who has a transaction of his own has the file's write lock.
Begun == \A c \in within : writer = on[c]

IInv == TypeOK /\ AnswersTrue /\ Begun /\ \A k \in Conns : ConnInv(k)

----------------------------------------------------------------------------
(* Sequences of writes *)

LEMMA NumbersTyped == MaxMutations \in Nat /\ 1 \in 1..MaxMutations
  BY MaxMutationsAssumption

LEMMA MarkIsNoPiece == Mark \notin Pieces
  BY DEF Mark, Pieces

LEMMA Concatenated ==
  ASSUME NEW S, NEW s \in Seq(S), NEW t \in Seq(S)
  PROVE  s \o t \in Seq(S) /\ ToSet(s \o t) = ToSet(s) \cup ToSet(t)
  <1>1. /\ s \o t \in Seq(S) /\ Len(s \o t) = Len(s) + Len(t)
        /\ \A i \in 1 .. Len(s) + Len(t) : (s \o t)[i] =
             IF i <= Len(s) THEN s[i] ELSE t[i - Len(s)]
    BY ConcatProperties
  <1>2. /\ Len(s) \in Nat /\ Len(t) \in Nat
        /\ DOMAIN s = 1..Len(s) /\ DOMAIN t = 1..Len(t)
        /\ DOMAIN (s \o t) = 1..(Len(s) + Len(t))
    BY <1>1, LenProperties
  <1>3. ToSet(s \o t) \subseteq ToSet(s) \cup ToSet(t)
    <2>1. SUFFICES ASSUME NEW i \in 1..(Len(s) + Len(t))
                   PROVE  (s \o t)[i] \in ToSet(s) \cup ToSet(t)
      BY <1>2 DEF ToSet
    <2>2. CASE i <= Len(s)
      BY <1>1, <1>2, <2>2 DEF ToSet
    <2>3. CASE i > Len(s)
      <3>1. i - Len(s) \in 1..Len(t) /\ (s \o t)[i] = t[i - Len(s)]
        BY <1>1, <1>2, <2>3
      <3>2. QED
        BY <1>2, <3>1 DEF ToSet
    <2>4. QED
      BY <1>2, <2>2, <2>3
  <1>4. ToSet(s) \subseteq ToSet(s \o t)
    BY <1>1, <1>2 DEF ToSet
  <1>5. ToSet(t) \subseteq ToSet(s \o t)
    <2>1. SUFFICES ASSUME NEW i \in 1..Len(t) PROVE t[i] \in ToSet(s \o t)
      BY <1>2 DEF ToSet
    <2>2. i + Len(s) \in 1..(Len(s) + Len(t)) /\ (s \o t)[i + Len(s)] = t[i]
      BY <1>1, <1>2
    <2>3. QED
      BY <1>2, <2>2 DEF ToSet
  <1>6. QED
    BY <1>1, <1>3, <1>4, <1>5

LEMMA Elements ==
  /\ ToSet(<<>>) = {} /\ \A x : ToSet(<<x>>) = {x}
  /\ \A x, y : ToSet(<<x, y>>) = {x, y}
  BY DEF ToSet

LEMMA ElementsTyped ==
  ASSUME NEW S, NEW s \in Seq(S)
  PROVE  ToSet(s) \subseteq S
  BY DEF ToSet

\* What ROLLBACK TO and RELEASE leave of a transaction with one savepoint in it.
LEMMA Savepoints ==
  ASSUME NEW base \in Seq(Pieces), NEW part \in Seq(Pieces),
         NEW s, s = (base \o <<Mark>>) \o part
  PROVE  BeforeMark(s) = base /\ RemoveAt(s, MarkAt(s)) = base \o part
  <1> DEFINE All == Pieces \cup {Mark}
             l == Len(base)
  <1>1. base \in Seq(All) /\ part \in Seq(All) /\ <<Mark>> \in Seq(All)
    BY SeqMonotonic
  <1>2. base \o <<Mark>> \in Seq(All) /\ Len(base \o <<Mark>>) = l + 1
        /\ \A i \in 1..(l + 1) : (base \o <<Mark>>)[i] = IF i <= l THEN base[i] ELSE Mark
    <2>1. Len(<<Mark>>) = 1 /\ l \in Nat
      BY <1>1, LenProperties
    <2>2. /\ base \o <<Mark>> \in Seq(All) /\ Len(base \o <<Mark>>) = l + 1
          /\ \A i \in 1..(l + 1) : (base \o <<Mark>>)[i] =
               IF i <= l THEN base[i] ELSE <<Mark>>[i - l]
      BY <1>1, <2>1, ConcatProperties
    <2>3. \A i \in 1..(l + 1) : i > l => i - l = 1
      BY <2>1
    <2>4. QED
      BY <2>1, <2>2, <2>3
  <1>3. /\ s \in Seq(All) /\ Len(s) = l + 1 + Len(part) /\ l \in Nat /\ Len(part) \in Nat
        /\ \A i \in 1..Len(s) : s[i] =
             IF i <= l THEN base[i] ELSE IF i = l + 1 THEN Mark ELSE part[i - (l + 1)]
    <2>1. l \in Nat /\ Len(part) \in Nat
      BY <1>1, LenProperties
    <2>2. /\ s \in Seq(All) /\ Len(s) = l + 1 + Len(part)
          /\ \A i \in 1..Len(s) : s[i] =
               IF i <= l + 1 THEN (base \o <<Mark>>)[i] ELSE part[i - (l + 1)]
      BY <1>1, <1>2, <2>1, ConcatProperties
    <2>3. QED
      BY <1>2, <2>1, <2>2
  <1>4. DOMAIN s = 1..Len(s)
    BY <1>3, LenProperties
  <1>5. \A i \in 1..Len(s) : s[i] = Mark <=> i = l + 1
    <2>1. \A i \in 1..l : base[i] # Mark
      BY MarkIsNoPiece, ElementOfSeq
    <2>2. \A i \in 1..Len(part) : part[i] # Mark
      BY MarkIsNoPiece, ElementOfSeq
    <2>3. QED
      BY <1>3, <2>1, <2>2
  <1>6. MarkAt(s) = l + 1
    <2>1. l + 1 \in DOMAIN s /\ s[l + 1] = Mark
          /\ \A j \in (l + 1) + 1..Len(s) : s[j] # Mark
      BY <1>3, <1>4, <1>5
    <2>2. \A i \in DOMAIN s :
            s[i] = Mark /\ (\A j \in i + 1..Len(s) : s[j] # Mark) => i = l + 1
      BY <1>4, <1>5
    <2>3. QED
      BY <2>1, <2>2 DEF MarkAt
  <1>7. SubSeq(s, 1, l) = base
    <2>1. \A i \in 1..l : s[i] \in All
      BY <1>3, ElementOfSeq
    <2>2. /\ SubSeq(s, 1, l) \in Seq(All)
          /\ Len(SubSeq(s, 1, l)) = IF 1 <= l THEN l - 1 + 1 ELSE 0
          /\ \A i \in 1 .. l - 1 + 1 : SubSeq(s, 1, l)[i] = s[1 + i - 1]
      BY <1>3, <2>1, SubSeqProperties
    <2>3. Len(SubSeq(s, 1, l)) = l /\ \A i \in 1..l : SubSeq(s, 1, l)[i] = base[i]
      BY <1>3, <2>2
    <2>4. QED
      BY <1>1, <2>2, <2>3, SeqEqual
  <1>8. SubSeq(s, l + 2, Len(s)) = part
    <2>1. \A i \in l + 2..Len(s) : s[i] \in All
      BY <1>3, ElementOfSeq
    <2>2. /\ SubSeq(s, l + 2, Len(s)) \in Seq(All)
          /\ Len(SubSeq(s, l + 2, Len(s))) =
               IF l + 2 <= Len(s) THEN Len(s) - (l + 2) + 1 ELSE 0
          /\ \A i \in 1 .. Len(s) - (l + 2) + 1 :
               SubSeq(s, l + 2, Len(s))[i] = s[(l + 2) + i - 1]
      BY <1>3, <2>1, SubSeqProperties
    <2>3. Len(SubSeq(s, l + 2, Len(s))) = Len(part)
      BY <1>3, <2>2
    <2>4. ASSUME NEW i \in 1..Len(part)
          PROVE  SubSeq(s, l + 2, Len(s))[i] = part[i]
      <3>1. SubSeq(s, l + 2, Len(s))[i] = s[l + 1 + i]
        BY <1>3, <2>2
      <3>2. l + 1 + i \in 1..Len(s) /\ ~(l + 1 + i <= l) /\ l + 1 + i # l + 1
            /\ (l + 1 + i) - (l + 1) = i
        BY <1>3
      <3>3. QED
        BY <1>3, <3>1, <3>2
    <2>5. QED
      BY <1>1, <2>2, <2>3, <2>4, SeqEqual
  <1>9. MarkAt(s) - 1 = l /\ MarkAt(s) + 1 = l + 2
    BY <1>3, <1>6
  <1>10. QED
    BY <1>7, <1>8, <1>9 DEF BeforeMark, RemoveAt

----------------------------------------------------------------------------
(* Types, and what a step leaves alone *)

FileTyped ==
  /\ open \subseteq Conns /\ left \subseteq open
  /\ writer \in open \cup {None} /\ db \subseteq Pieces
  /\ journal \in [Conns -> Seq(Pieces \cup {Mark})]
  /\ \A k \in Conns : k \notin open => journal[k] = <<>>
  /\ \A k \in Conns : journal[k] # <<>> => writer = k

CallersTyped ==
  /\ on \in [Callers -> Conns]
  /\ holder \in [Conns -> Callers \cup {None}]
  /\ within \subseteq Callers
  /\ step \in [Callers -> Steps]
  /\ n \in [Callers -> 0..MaxMutations]
  /\ answer \in [Mutations -> {"none", "pending", "returned", "raised", "unknown"}]

LEMMA TypeParts == TypeOK <=> FileTyped /\ CallersTyped
  BY DEF TypeOK, FileTyped, CallersTyped

LEMMA TypePartsNext == (FileTyped /\ CallersTyped)' => TypeOK'
  BY DEF TypeOK, FileTyped, CallersTyped

\* A step of c is about c and his connection.
Frame(c) ==
  /\ on' = on
  /\ \A k \in Conns \ {on[c]} :
       /\ holder'[k] = holder[k] /\ journal'[k] = journal[k]
       /\ k \in open' <=> k \in open
       /\ k \in left' <=> k \in left
  /\ \A d \in Callers \ {c} :
       step'[d] = step[d] /\ n'[d] = n[d] /\ (d \in within' <=> d \in within)
  /\ \A m \in Mutations : m[1] # c => answer'[m] = answer[m]

\* Mutations in terms of their caller.
LEMMA MutationsTyped ==
  /\ \A m \in Mutations : m[1] \in Callers /\ m[2] \in 1..MaxMutations /\ m = <<m[1], m[2]>>
  /\ \A c \in Callers, i \in 1..MaxMutations : <<c, i>> \in Mutations
  BY DEF Mutations

\* Who is at work has a mutation.
LEMMA Numbers ==
  ASSUME TypeOK, NEW c \in Callers, Numbered(c)
  PROVE  step[c] # "idle" =>
           /\ n[c] \in 1..MaxMutations /\ Mine(c) \in Mutations
           /\ Mine(c)[1] = c /\ Mine(c)[2] = n[c] /\ answer[Mine(c)] = "none"
  <1> SUFFICES ASSUME step[c] # "idle"
               PROVE  /\ n[c] \in 1..MaxMutations /\ Mine(c) \in Mutations
                      /\ Mine(c)[1] = c /\ Mine(c)[2] = n[c] /\ answer[Mine(c)] = "none"
    OBVIOUS
  <1>1. n[c] \in 1..MaxMutations
    BY NumbersTyped DEF TypeOK, Numbered
  <1>2. QED
    BY <1>1, MutationsTyped DEF Mine, Numbered

LEMMA FinishedKept ==
  ASSUME NEW k, on' = on,
         \A m \in Mutations : on[m[1]] = k /\ Unsettled(m) => Unsettled(m)'
  PROVE  \A s : Finished(k, s) => Finished(k, s)'
  BY DEF Finished, Writes

LEMMA Elsewhere ==
  ASSUME TypeOK, NEW c \in Callers, Frame(c), NEW k \in Conns, k # on[c], ConnInv(k)
  PROVE  ConnInv(k)'
  <1>1. Users(k)' = Users(k) /\ c \notin Users(k) /\ Users(k) \subseteq Callers
    BY DEF Frame, Users
  <1>2. \A d \in Users(k) :
          /\ step'[d] = step[d] /\ n'[d] = n[d] /\ (d \in within' <=> d \in within)
          /\ Mine(d)' = Mine(d) /\ (Mutating(d)' <=> Mutating(d)) /\ Part(d)' = Part(d)
    BY <1>1 DEF Frame, Mine, Mutating, Part
  <1>3. /\ holder'[k] = holder[k] /\ journal'[k] = journal[k] /\ on' = on
        /\ k \in open' <=> k \in open
        /\ k \in left' <=> k \in left
    BY DEF Frame
  <1>4. \A m \in Mutations : m[1] \in Users(k) => answer'[m] = answer[m]
    BY <1>1 DEF Frame
  <1>5. \A m \in Mutations : on[m[1]] = k => m[1] \in Users(k)
    BY DEF Mutations, Users
  <1>6. Locked(k)'
    BY <1>1, <1>2, <1>3 DEF ConnInv, Locked
  <1>7. Opened(k)'
    BY <1>1, <1>2, <1>3 DEF ConnInv, Opened
  <1>8. \A s : Finished(k, s) => Finished(k, s)'
    BY <1>2, <1>3, <1>4, <1>5, FinishedKept DEF Unsettled
  <1>9. Recorded(k)'
    <2>1. (\A d \in Users(k) : ~Mutating(d)) =>
             Mark \notin ToSet(journal[k]) /\ Finished(k, journal[k])'
      BY <1>3, <1>8 DEF ConnInv, Recorded
    <2>2. ASSUME NEW d \in Users(k), Mutating(d)
          PROVE  IF d \in within
                 THEN \E base \in Seq(Pieces) :
                        /\ journal[k] = (base \o <<Mark>>) \o Part(d)
                        /\ Finished(k, base)'
                 ELSE journal[k] = Part(d)
      BY <1>8, <2>2 DEF ConnInv, Recorded
    <2>3. QED
      BY <1>1, <1>2, <1>3, <2>1, <2>2 DEF Recorded
  <1>10. Expected(k)'
    BY <1>2, <1>3, <1>4, <1>5 DEF ConnInv, Expected
  <1>11. \A d \in Users(k) : Numbered(d)'
    <2>1. SUFFICES ASSUME NEW d \in Users(k) PROVE Numbered(d)'
      OBVIOUS
    <2>2. Numbered(d) /\ d \in Callers
      BY <1>1 DEF ConnInv
    <2>3. step[d] # "idle" => Mine(d) \in Mutations /\ Mine(d)[1] = d
      BY <2>2, Numbers
    <2>4. QED
      BY <1>2, <1>4, <2>2, <2>3 DEF Numbered
  <1>12. QED
    BY <1>1, <1>6, <1>7, <1>9, <1>10, <1>11 DEF ConnInv

\* The other users of a connection that somebody has, or nobody.
LEMMA Bystanders ==
  ASSUME TypeOK, NEW k \in Conns, Locked(k), NEW c \in Users(k), NEW d \in Users(k), c # d
  PROVE  /\ d \notin within /\ step[d] # "commit"
         /\ holder[k] \in {c, None} => step[d] \in {"idle", "wait"}
  <1>1. d \in Callers /\ step[d] \in Steps
    BY DEF Users, TypeOK
  <1>2. d \notin within /\ step[d] # "commit"
    BY DEF Locked
  <1>3. Mutating(d) => holder[k] = d
    BY <1>2 DEF Locked
  <1>4. d # None
    BY <1>1, NoneAssumption
  <1>5. QED
    BY <1>1, <1>2, <1>3, <1>4 DEF Mutating, Steps

LEMMA OnlyUser ==
  ASSUME NEW c \in Callers, Alone(c), NEW k, k = on[c]
  PROVE  Users(k) = {c}
  BY DEF Alone, Users

\* What every step preserves, from what it does to its own connection.
LEMMA StepKept ==
  ASSUME IInv, NEW c \in Callers, NEW k \in Conns, k = on[c],
         Frame(c), FileTyped', CallersTyped', AnswersTrue', Begun', ConnInv(k)'
  PROVE  IInv'
  <1>1. TypeOK'
    BY TypePartsNext
  <1>2. \A j \in Conns : ConnInv(j)'
    BY Elsewhere DEF IInv
  <1>3. QED
    BY <1>1, <1>2 DEF IInv

\* Answers while nothing is committed.
LEMMA BegunKept ==
  ASSUME IInv, UNCHANGED <<on, within, writer>>
  PROVE  Begun'
  BY DEF IInv, Begun

LEMMA AnswersKept ==
  ASSUME TypeOK, AnswersTrue, UNCHANGED db,
         \A m \in Mutations :
           \/ answer'[m] = answer[m]
           \/ answer[m] \in {"none", "pending"} /\ answer'[m] # "returned"
  PROVE  AnswersTrue'
  BY DEF AnswersTrue, Writes

----------------------------------------------------------------------------
(* The file *)

LEMMA ClosedFile ==
  ASSUME TypeOK, NEW k \in Conns, Closed(k), left' = left \ {k}, db' \subseteq Pieces
  PROVE  /\ FileTyped' /\ journal'[k] = <<>> /\ k \notin open'
         /\ \A j \in Conns \ {k} : journal'[j] = journal[j] /\ (j \in open' <=> j \in open)
  <1>1. <<>> \in Seq(Pieces \cup {Mark})
    BY EmptySeq
  <1>2. QED
    BY <1>1 DEF TypeOK, FileTyped, Closed

LEMMA WrittenFile ==
  ASSUME TypeOK, NEW k \in Conns, NEW writes \in Seq(Pieces), Wrote(k, writes), UNCHANGED left
  PROVE  /\ FileTyped' /\ journal'[k] = journal[k] \o writes /\ k \in open' /\ UNCHANGED db
         /\ \A j \in Conns \ {k} : journal'[j] = journal[j] /\ (j \in open' <=> j \in open)
  <1>1. journal[k] \o writes \in Seq(Pieces \cup {Mark})
    <2>1. writes \in Seq(Pieces \cup {Mark})
      BY SeqMonotonic
    <2>2. QED
      BY <2>1, ConcatProperties DEF TypeOK
  <1>2. QED
    BY <1>1, NoneAssumption DEF TypeOK, FileTyped, Wrote, Writable

LEMMA SameFile ==
  ASSUME TypeOK, UNCHANGED file, UNCHANGED left
  PROVE  FileTyped' /\ UNCHANGED <<open, writer, journal, db, left>>
  BY DEF TypeOK, FileTyped, file

\* A caller takes his next step.
LEMMA Goes ==
  ASSUME TypeOK, NEW c \in Callers, NEW s, Go(c, s)
  PROVE  /\ step'[c] = s /\ \A d \in Callers \ {c} : step'[d] = step[d]
         /\ s \in Steps => step' \in [Callers -> Steps]
  BY DEF TypeOK, Go

LEMMA AnswersOne ==
  ASSUME TypeOK, NEW c \in Callers, Numbered(c), step[c] # "idle",
         NEW a \in {"none", "pending", "returned", "raised", "unknown"}, Answers(c, a)
  PROVE  /\ Mine(c) \in Mutations /\ answer[Mine(c)] = "none" /\ answer'[Mine(c)] = a
         /\ \A m \in Mutations \ {Mine(c)} : answer'[m] = answer[m]
         /\ \A m \in Mutations : m[1] # c => answer'[m] = answer[m]
         /\ answer' \in [Mutations -> {"none", "pending", "returned", "raised", "unknown"}]
  <1>1. Mine(c) \in Mutations /\ Mine(c)[1] = c /\ answer[Mine(c)] = "none"
    BY Numbers
  <1>2. QED
    BY <1>1 DEF Answers, TypeOK

\* A connection whose transaction is empty and whose users do not write.
LEMMA EmptyConnection ==
  ASSUME NEW k \in Conns, journal'[k] = <<>>,
         \A d \in Users(k)' : (~Mutating(d))' /\ step'[d] # "commit",
         \A m \in Mutations : on'[m[1]] = k => answer'[m] # "pending"
  PROVE  Recorded(k)' /\ Expected(k)'
  <1>1. Recorded(k)'
    BY Elements DEF Recorded, Finished
  <1>2. \A m \in Mutations : on'[m[1]] = k => m[1] \in Users(k)'
    BY MutationsTyped DEF Users
  <1>3. Expected(k)'
    BY <1>2 DEF Expected
  <1>4. QED
    BY <1>1, <1>3

----------------------------------------------------------------------------
(* Mutations in operation mode *)

LEMMA CallKept ==
  ASSUME IInv, NEW c \in Callers, NEW k \in Conns, k = on[c], Call(c)
  PROVE  IInv'
  <1>1. /\ TypeOK /\ k \in Conns /\ c \in Users(k) /\ ConnInv(k) /\ Numbered(c)
        /\ step[c] = "idle" /\ c \notin within /\ n[c] < MaxMutations
        /\ n' = [n EXCEPT ![c] = @ + 1] /\ Go(c, "wait")
        /\ UNCHANGED <<on, holder, left, within, answer>> /\ UNCHANGED file
    BY DEF IInv, Call, conns, TypeOK, Users, ConnInv
  <1>2. /\ step'[c] = "wait" /\ \A d \in Callers \ {c} : step'[d] = step[d]
        /\ step' \in [Callers -> Steps]
    BY <1>1, Goes DEF Steps
  <1>3. FileTyped' /\ UNCHANGED <<open, writer, journal, db, left>>
    BY <1>1, SameFile
  <1>4. /\ n'[c] = n[c] + 1 /\ n[c] \in Nat /\ n'[c] \in 1..MaxMutations
        /\ \A d \in Callers \ {c} : n'[d] = n[d]
        /\ n' \in [Callers -> 0..MaxMutations]
    BY <1>1, NumbersTyped DEF TypeOK
  <1>5. CallersTyped' /\ Frame(c)
    BY <1>1, <1>2, <1>3, <1>4 DEF TypeOK, CallersTyped, Frame
  <1>6. AnswersTrue'
    BY <1>1, <1>3 DEF IInv, AnswersTrue
  <1>7. ConnInv(k)'
    <2>1. Users(k)' = Users(k) /\ Users(k) \subseteq Callers
      BY <1>1 DEF Users
    <2>2. Locked(k)'
      BY <1>1, <1>2, <1>3, <2>1 DEF ConnInv, Locked, Mutating
    <2>3. Opened(k)'
      BY <1>1, <1>2, <1>3, <2>1 DEF ConnInv, Opened
    <2>4. \A d \in Users(k) : /\ (Mutating(d)' <=> Mutating(d))
                              /\ Mutating(d) => Part(d)' = Part(d) /\ d # c
                              /\ step'[d] = "commit" => step[d] = "commit" /\ Mine(d)' = Mine(d)
      BY <1>1, <1>2, <1>4, <2>1 DEF Mutating, Part, Mine
    <2>5. \A m \in Mutations : on[m[1]] = k => m[1] \in Users(k)
      BY MutationsTyped DEF Users
    <2>6. \A s : Finished(k, s) => Finished(k, s)'
      BY <1>1, <1>2, <1>4, FinishedKept, MutationsTyped DEF Unsettled, Mine
    <2>7. Recorded(k)'
      BY <1>1, <1>3, <2>1, <2>4, <2>6 DEF ConnInv, Recorded
    <2>8. Expected(k)'
      BY <1>1, <1>3, <2>4, <2>5 DEF ConnInv, Expected
    <2>9. ASSUME NEW d \in Users(k)
          PROVE  Numbered(d)'
      <3>1. CASE d = c
        <4>1. Mine(c)' = <<c, n[c] + 1>> /\ <<c, n[c] + 1>> \in Mutations
          BY <1>4, MutationsTyped DEF Mine
        <4>2. answer[<<c, n[c] + 1>>] = "none"
          BY <1>1, <1>4, <4>1 DEF Numbered
        <4>3. \A m \in Mutations : m[2] \in Nat
          BY MutationsTyped
        <4>4. QED
          BY <1>1, <1>4, <3>1, <4>1, <4>2, <4>3 DEF Numbered
      <3>2. CASE d # c
        BY <1>1, <1>2, <1>4, <2>1, <2>9, <3>2 DEF ConnInv, Numbered, Mine
      <3>3. QED
        BY <3>1, <3>2
    <2>10. QED
      BY <2>1, <2>2, <2>3, <2>7, <2>8, <2>9 DEF ConnInv
  <1>8. Begun'
    BY <1>1, <1>3, BegunKept
  <1>9. QED
    BY <1>1, <1>3, <1>5, <1>6, <1>7, <1>8, StepKept

\* A step of a caller in operation mode, with whom others may share the connection.
LEMMA SharedKept ==
  ASSUME TypeOK, NEW c \in Callers, NEW k \in Conns, k = on[c], ConnInv(k), Frame(c),
         c \notin within, c \notin within', holder[k] \in {c, None}, step[c] # "commit",
         step'[c] \in Steps \ {"commit"},
         \/ journal'[k] = Part(c)'
         \/ journal'[k] = journal[k] /\ ~Mutating(c) /\ (~Mutating(c))',
         IF Mutating(c)' THEN holder'[k] = c /\ k \notin left' ELSE holder'[k] = None,
         k \in open' \ left' <=> step'[c] \in {"second", "exit"},
         n'[c] = n[c], step'[c] # "idle" => step[c] # "idle",
         \A m \in Mutations : m[1] = c =>
           \/ answer'[m] = answer[m]
           \/ m = Mine(c) /\ step[c] # "idle" /\ step'[c] = "idle" /\ answer'[m] # "pending"
  PROVE  ConnInv(k)'
  <1>1. /\ Users(k)' = Users(k) /\ c \in Users(k) /\ Users(k) \subseteq Callers /\ on' = on
        /\ \A m \in Mutations : on[m[1]] = k => m[1] \in Users(k)
        /\ step[c] \in Steps /\ c # None
    BY MutationsTyped, NoneAssumption DEF Users, Frame, TypeOK
  <1>2. \A d \in Users(k) \ {c} :
          /\ d \notin within /\ step[d] \in {"idle", "wait"}
          /\ d \notin within' /\ step'[d] = step[d] /\ n'[d] = n[d] /\ Mine(d)' = Mine(d)
    BY <1>1, Bystanders DEF ConnInv, Frame, Mine
  <1>3. Locked(k)'
    BY <1>1, <1>2 DEF Locked, Mutating
  <1>4. Opened(k)'
    BY <1>1, <1>2 DEF Opened, Locked, Mutating
  <1>5. \A m \in Mutations : on[m[1]] = k =>
          /\ answer[m] # "pending" /\ m[1] \notin within /\ step[m[1]] # "commit"
          /\ answer'[m] # "pending" /\ m[1] \notin within' /\ step'[m[1]] # "commit"
    BY <1>1, <1>2 DEF ConnInv, Expected, Frame
  <1>6. Expected(k)'
    BY <1>1, <1>5 DEF Expected
  <1>7. Recorded(k)'
    <2>1. CASE Mutating(c)'
      BY <1>1, <1>2, <2>1 DEF Recorded, Mutating
    <2>2. CASE (~Mutating(c))' /\ journal'[k] = Part(c)'
      <3>1. journal'[k] = <<>>
        BY <2>2 DEF Part, Mutating
      <3>2. \A d \in Users(k)' : (~Mutating(d))'
        BY <1>1, <1>2, <2>2 DEF Mutating
      <3>3. QED
        BY <3>1, <3>2, Elements DEF Recorded, Finished
    <2>3. CASE journal'[k] = journal[k] /\ ~Mutating(c) /\ (~Mutating(c))'
      <3>1. \A d \in Users(k) : ~Mutating(d) /\ (~Mutating(d))'
        BY <1>2, <2>3 DEF Mutating
      <3>2. Mark \notin ToSet(journal[k]) /\ Finished(k, journal[k])
        BY <3>1 DEF ConnInv, Recorded
      <3>3. \A m \in Mutations : on[m[1]] = k /\ Unsettled(m) => Unsettled(m)'
        <4>1. SUFFICES ASSUME NEW m \in Mutations, on[m[1]] = k, Unsettled(m)
                       PROVE  answer'[m] = "unknown"
          BY DEF Unsettled
        <4>2. answer[m] = "unknown"
          BY <1>5, <4>1 DEF Unsettled
        <4>3. answer[Mine(c)] = "none" \/ step[c] = "idle"
          BY <1>1 DEF ConnInv, Numbered
        <4>4. QED
          BY <4>1, <4>2, <4>3 DEF Frame
      <3>4. Finished(k, journal[k])'
        BY <1>1, <2>3, <3>2, <3>3, FinishedKept
      <3>5. QED
        BY <1>1, <2>3, <3>1, <3>2, <3>4 DEF Recorded
    <2>4. QED
      BY <2>1, <2>2, <2>3
  <1>8. \A d \in Users(k) : Numbered(d)'
    <2>1. SUFFICES ASSUME NEW d \in Users(k) PROVE Numbered(d)'
      OBVIOUS
    <2>2. Numbered(d) /\ d \in Callers
      BY <1>1 DEF ConnInv
    <2>3. step[d] # "idle" => Mine(d) \in Mutations /\ Mine(d)[1] = d /\ Mine(d)[2] = n[d]
                              /\ n[d] \in Nat
      BY <2>2, Numbers
    <2>4. CASE d = c
      <3>1. Mine(c)' = Mine(c)
        BY DEF Mine
      <3>2. n[c] \in Nat
        BY NumbersTyped DEF TypeOK
      <3>3. QED
        BY <2>2, <2>3, <2>4, <3>1, <3>2 DEF Numbered
    <2>5. CASE d # c
      BY <1>2, <2>2, <2>3, <2>5 DEF Numbered, Frame
    <2>6. QED
      BY <2>4, <2>5
  <1>9. QED
    BY <1>1, <1>3, <1>4, <1>6, <1>7, <1>8 DEF ConnInv

LEMMA AcquireKept ==
  ASSUME IInv, NEW c \in Callers, NEW k \in Conns, k = on[c], Acquire(c)
  PROVE  IInv'
  <1>1. /\ TypeOK /\ ConnInv(k) /\ c \in Users(k) /\ c # None
        /\ step[c] = "wait" /\ holder[k] = None /\ k \notin open /\ Go(c, "first")
        /\ holder' = [holder EXCEPT ![k] = c]
        /\ UNCHANGED <<on, left, within, n, answer>> /\ UNCHANGED file
    BY NoneAssumption DEF IInv, Acquire, Users
  <1>2. /\ step'[c] = "first" /\ \A d \in Callers \ {c} : step'[d] = step[d]
        /\ step' \in [Callers -> Steps]
    BY <1>1, Goes DEF Steps
  <1>3. FileTyped' /\ UNCHANGED <<open, writer, journal, db, left>>
    BY <1>1, SameFile
  <1>4. CallersTyped' /\ Frame(c) /\ holder'[k] = c
    BY <1>1, <1>2, <1>3 DEF TypeOK, CallersTyped, Frame
  <1>5. c \notin within
    BY <1>1 DEF ConnInv, Locked
  <1>6. k \notin left /\ journal[k] = <<>> /\ Part(c)' = <<>> /\ Mutating(c)'
    BY <1>1, <1>2 DEF TypeOK, Part, Mutating
  <1>7. ConnInv(k)'
    BY <1>1, <1>2, <1>3, <1>4, <1>5, <1>6, SharedKept DEF Steps
  <1>8. AnswersTrue'
    BY <1>1, <1>3 DEF IInv, AnswersTrue
  <1>9. Begun'
    BY <1>1, <1>3, BegunKept
  <1>10. QED
    BY <1>3, <1>4, <1>7, <1>8, <1>9, StepKept

LEMMA RefuseKept ==
  ASSUME IInv, NEW c \in Callers, NEW k \in Conns, k = on[c], Refuse(c)
  PROVE  IInv'
  <1>1. /\ TypeOK /\ ConnInv(k) /\ c \in Users(k) /\ Numbered(c)
        /\ step[c] = "wait" /\ holder[k] = None /\ k \in open
        /\ Go(c, "idle") /\ Answers(c, "raised")
        /\ UNCHANGED <<on, holder, left, within, n>> /\ UNCHANGED file
    BY DEF IInv, Refuse, Users, conns, ConnInv
  <1>2. /\ step'[c] = "idle" /\ \A d \in Callers \ {c} : step'[d] = step[d]
        /\ step' \in [Callers -> Steps]
    BY <1>1, Goes DEF Steps
  <1>3. FileTyped' /\ UNCHANGED <<open, writer, journal, db, left>>
    BY <1>1, SameFile
  <1>4. /\ answer[Mine(c)] = "none" /\ answer'[Mine(c)] = "raised"
        /\ \A m \in Mutations \ {Mine(c)} : answer'[m] = answer[m]
        /\ \A m \in Mutations : m[1] # c => answer'[m] = answer[m]
        /\ answer' \in [Mutations -> {"none", "pending", "returned", "raised", "unknown"}]
    BY <1>1, AnswersOne
  <1>5. CallersTyped' /\ Frame(c)
    BY <1>1, <1>2, <1>3, <1>4 DEF TypeOK, CallersTyped, Frame
  <1>6. c \notin within /\ ~Mutating(c) /\ (~Mutating(c))'
    BY <1>1, <1>2 DEF ConnInv, Locked, Mutating
  <1>7. k \in left
    <2>1. \A d \in Users(k) \ {c} : d \notin within /\ step[d] \in {"idle", "wait"}
      BY <1>1, Bystanders DEF ConnInv
    <2>2. QED
      BY <1>1, <1>6, <2>1 DEF ConnInv, Opened
  <1>8. ConnInv(k)'
    BY <1>1, <1>2, <1>3, <1>4, <1>5, <1>6, <1>7, SharedKept DEF Steps
  <1>9. AnswersTrue'
    BY <1>1, <1>3, <1>4, AnswersKept DEF IInv
  <1>10. Begun'
    BY <1>1, <1>3, BegunKept
  <1>11. QED
    BY <1>3, <1>5, <1>8, <1>9, <1>10, StepKept

----------------------------------------------------------------------------
(* What a mutation has written *)

\* More in a transaction.
LEMMA JournalGrows ==
  ASSUME TypeOK, NEW k \in Conns, NEW t \in Seq(Pieces)
  PROVE  ToSet(journal[k] \o t) = ToSet(journal[k]) \cup ToSet(t)
  <1> DEFINE All == Pieces \cup {Mark}
  <1>1. journal[k] \in Seq(All) /\ t \in Seq(All)
    BY SeqMonotonic DEF TypeOK
  <1> HIDE DEF All
  <1>2. QED
    BY <1>1, Concatenated

LEMMA PartTyped ==
  ASSUME TypeOK, NEW c \in Callers, Numbered(c)
  PROVE  Part(c) \in Seq(Pieces)
  <1>1. step[c] # "idle" => <<Mine(c), 1>> \in Pieces /\ <<Mine(c), 2>> \in Pieces
    BY Numbers DEF Pieces
  <1>2. CASE step[c] = "second"
    BY <1>1, <1>2 DEF Part
  <1>3. CASE step[c] = "exit"
    BY <1>1, <1>3 DEF Part
  <1>4. CASE step[c] \notin {"second", "exit"}
    BY <1>4, EmptySeq DEF Part
  <1>5. QED
    BY <1>2, <1>3, <1>4

LEMMA PartElements ==
  ASSUME NEW c \in Callers
  PROVE  /\ ToSet(Part(c)) \subseteq Writes(Mine(c))
         /\ step[c] = "exit" => ToSet(Part(c)) = Writes(Mine(c))
  BY Elements DEF Part, Writes

\* A statement adds its write to what the mutation has written.
LEMMA StatementStep ==
  ASSUME IInv, NEW c \in Callers, NEW k \in Conns, k = on[c], Statement(c)
  PROVE  /\ Frame(c) /\ FileTyped' /\ CallersTyped' /\ AnswersTrue' /\ Begun'
         /\ step[c] \in {"first", "second"} /\ step'[c] \in {"second", "exit"}
         /\ k \in open' /\ UNCHANGED <<on, holder, left, within, n, answer>>
         /\ \E write \in Pieces :
              journal'[k] = journal[k] \o <<write>> /\ Part(c)' = Part(c) \o <<write>>
  <1> DEFINE i == IF step[c] = "first" THEN 1 ELSE 2
             write == <<Mine(c), i>>
             s == IF step[c] = "first" THEN "second" ELSE "exit"
  <1>1. /\ TypeOK /\ ConnInv(k) /\ Numbered(c) /\ step[c] \in {"first", "second"}
        /\ Wrote(k, <<write>>) /\ Go(c, s)
        /\ UNCHANGED <<on, holder, left, within, n, answer>>
    BY DEF IInv, Statement, conns, ConnInv, Users
  <1>2. write \in Pieces /\ <<write>> \in Seq(Pieces)
    BY <1>1, Numbers DEF Pieces
  <1>3. /\ step'[c] = s /\ \A d \in Callers \ {c} : step'[d] = step[d]
        /\ step' \in [Callers -> Steps]
    BY <1>1, Goes DEF Steps
  <1>4. /\ FileTyped' /\ journal'[k] = journal[k] \o <<write>> /\ k \in open' /\ UNCHANGED db
        /\ \A j \in Conns \ {k} : journal'[j] = journal[j] /\ (j \in open' <=> j \in open)
    BY <1>1, <1>2, WrittenFile
  <1>5. CallersTyped' /\ Frame(c)
    BY <1>1, <1>3, <1>4 DEF TypeOK, CallersTyped, Frame
  <1>6. AnswersTrue'
    BY <1>1, <1>4, AnswersKept DEF IInv
  <1>7. Mine(c)' = Mine(c)
    BY <1>1 DEF Mine
  <1>8. Part(c)' = Part(c) \o <<write>>
    <2>1. CASE step[c] = "first"
      <3>1. Part(c) = <<>> /\ Part(c)' = <<write>>
        BY <1>3, <1>7, <2>1 DEF Part
      <3>2. QED
        BY <1>2, <3>1, ConcatEmptySeq
    <2>2. CASE step[c] = "second"
      <3>1. Part(c) = << <<Mine(c), 1>> >> /\ Part(c)' = << <<Mine(c), 1>>, <<Mine(c), 2>> >>
        BY <1>3, <1>7, <2>2 DEF Part
      <3>2. QED
        BY <2>2, <3>1
    <2>3. QED
      BY <1>1, <2>1, <2>2
  <1>9. Begun'
    <2>1. writer \in {None, k} /\ writer' = k
      BY <1>1 DEF Wrote, Writable
    <2>2. \A d \in within : on[d] \in Conns /\ on[d] # None /\ writer = on[d]
      BY <1>1, NoneAssumption DEF TypeOK, IInv, Begun
    <2>3. QED
      BY <1>1, <2>1, <2>2 DEF Begun
  <1>10. QED
    BY <1>1, <1>2, <1>3, <1>4, <1>5, <1>6, <1>8, <1>9

LEMMA StatementKept ==
  ASSUME IInv, NEW c \in Callers, NEW k \in Conns, k = on[c], Statement(c)
  PROVE  IInv'
  <1>1. TypeOK /\ ConnInv(k) /\ c \in Users(k) /\ Numbered(c) /\ Users(k) \subseteq Callers
    BY DEF IInv, Users, ConnInv
  <1>2. /\ Frame(c) /\ FileTyped' /\ CallersTyped' /\ AnswersTrue' /\ Begun'
        /\ step[c] \in {"first", "second"} /\ step'[c] \in {"second", "exit"}
        /\ k \in open' /\ UNCHANGED <<on, holder, left, within, n, answer>>
    BY StatementStep
  <1>3. PICK write \in Pieces :
          journal'[k] = journal[k] \o <<write>> /\ Part(c)' = Part(c) \o <<write>>
    BY StatementStep
  <1>4. Mutating(c) /\ Mutating(c)'
    BY <1>2 DEF Mutating
  <1>5. CASE c \notin within
    <2>1. holder[k] = c /\ k \notin left /\ journal[k] = Part(c)
      BY <1>1, <1>4, <1>5 DEF ConnInv, Locked, Recorded
    <2>2. ConnInv(k)'
      BY <1>1, <1>2, <1>3, <1>4, <1>5, <2>1, SharedKept DEF Steps
    <2>3. QED
      BY <1>2, <2>2, StepKept
  <1>6. CASE c \in within
    <2>1. Users(k) = {c} /\ Users(k)' = {c} /\ k \in open \ left
      BY <1>1, <1>2, <1>6 DEF ConnInv, Locked, Users
    <2>2. PICK base \in Seq(Pieces) :
            journal[k] = (base \o <<Mark>>) \o Part(c) /\ Finished(k, base)
      BY <1>1, <1>4, <1>6 DEF ConnInv, Recorded
    <2>3. journal'[k] = (base \o <<Mark>>) \o Part(c)'
      <3> DEFINE All == Pieces \cup {Mark}
      <3>1. Part(c) \in Seq(Pieces)
        BY <1>1, PartTyped
      <3>2. base \in Seq(All) /\ Part(c) \in Seq(All) /\ <<Mark>> \in Seq(All)
            /\ <<write>> \in Seq(All)
        BY <3>1, SeqMonotonic
      <3>3. base \o <<Mark>> \in Seq(All)
        BY <3>2, ConcatProperties
      <3>4. ((base \o <<Mark>>) \o Part(c)) \o <<write>>
              = (base \o <<Mark>>) \o (Part(c) \o <<write>>)
        BY <3>2, <3>3, ConcatAssociative
      <3>5. QED
        BY <1>3, <2>2, <3>4
    <2>4. Finished(k, base)'
      <3>1. \A m \in Mutations : on[m[1]] = k /\ Unsettled(m) => Unsettled(m)'
        <4>1. SUFFICES ASSUME NEW m \in Mutations, on[m[1]] = k, Unsettled(m)
                       PROVE  Unsettled(m)'
          OBVIOUS
        <4>2. m[1] = c
          BY <2>1, <4>1, MutationsTyped DEF Users
        <4>3. QED
          BY <1>2, <4>1, <4>2 DEF Unsettled
      <3>2. QED
        BY <1>2, <2>2, <3>1, FinishedKept
    <2>5. Locked(k)' /\ Opened(k)'
      BY <1>1, <1>2, <1>4, <1>6, <2>1 DEF ConnInv, Locked, Opened, Mutating
    <2>6. Recorded(k)'
      BY <1>2, <1>4, <1>6, <2>1, <2>3, <2>4 DEF Recorded
    <2>7. Expected(k)'
      <3>1. ToSet(journal[k]) \subseteq ToSet(journal'[k])
        <4>1. <<write>> \in Seq(Pieces)
          OBVIOUS
        <4>2. QED
          BY <1>1, <1>3, <4>1, JournalGrows
      <3>2. \A m \in Mutations : on[m[1]] = k => m[1] = c
        BY <2>1, MutationsTyped DEF Users
      <3>3. QED
        BY <1>1, <1>2, <3>1, <3>2 DEF ConnInv, Expected
    <2>8. Numbered(c)'
      BY <1>1, <1>2 DEF Numbered, Mine
    <2>9. QED
      BY <1>2, <2>1, <2>5, <2>6, <2>7, <2>8, StepKept DEF ConnInv
  <1>7. QED
    BY <1>5, <1>6

----------------------------------------------------------------------------
(* Mutations in a transaction of their caller's own *)

\* The steps of the only user of a connection.
LEMMA AloneKept ==
  ASSUME IInv, NEW c \in Callers, NEW k \in Conns, k = on[c], Users(k) = {c},
         Frame(c), FileTyped', CallersTyped', AnswersTrue', Begun',
         Locked(k)', Opened(k)', Recorded(k)', Expected(k)', Numbered(c)'
  PROVE  IInv'
  <1>1. Users(k)' = {c}
    BY DEF Users, Frame
  <1>2. ConnInv(k)'
    BY <1>1 DEF ConnInv
  <1>3. QED
    BY <1>2, StepKept

\* ... and those of one who stays within his transaction.
LEMMA WithinKept ==
  ASSUME IInv, NEW c \in Callers, NEW k \in Conns, k = on[c],
         Frame(c), FileTyped', CallersTyped', AnswersTrue', Begun',
         c \in within, c \in within', UNCHANGED holder, k \in open', UNCHANGED left,
         step'[c] \notin {"wait", "commit"},
         Recorded(k)', Expected(k)', Numbered(c)'
  PROVE  IInv'
  <1>1. c \in Users(k) /\ Locked(k)
    BY DEF IInv, ConnInv, Users
  <1>2. Users(k) = {c} /\ k \notin left /\ holder[k] = None
    BY <1>1 DEF Locked
  <1>3. Users(k)' = {c}
    BY <1>2 DEF Users, Frame
  <1>4. Locked(k)'
    BY <1>2, <1>3 DEF Locked
  <1>5. Opened(k)'
    BY <1>3 DEF Opened
  <1>6. QED
    BY <1>2, <1>4, <1>5, AloneKept

\* What is in a transaction with a mutation in it, and what its end leaves.
LEMMA InSavepoint ==
  ASSUME TypeOK, NEW k \in Conns, ConnInv(k), NEW c \in Users(k), c \in within, Mutating(c)
  PROVE  \E base \in Seq(Pieces) :
           /\ journal[k] = (base \o <<Mark>>) \o Part(c) /\ Finished(k, base)
           /\ BeforeMark(journal[k]) = base
           /\ RemoveAt(journal[k], MarkAt(journal[k])) = base \o Part(c)
           /\ base \o Part(c) \in Seq(Pieces)
           /\ ToSet(base \o Part(c)) = ToSet(base) \cup ToSet(Part(c))
           /\ ToSet(journal[k]) = ToSet(base) \cup {Mark} \cup ToSet(Part(c))
           /\ Mark \notin ToSet(base) /\ Mark \notin ToSet(Part(c))
           /\ journal[k] # <<>>
  <1> DEFINE All == Pieces \cup {Mark}
  <1>1. c \in Callers /\ Numbered(c)
    BY DEF Users, ConnInv
  <1>2. PICK base \in Seq(Pieces) :
          journal[k] = (base \o <<Mark>>) \o Part(c) /\ Finished(k, base)
    BY DEF ConnInv, Recorded
  <1>3. Part(c) \in Seq(Pieces)
    BY <1>1, PartTyped
  <1>4. BeforeMark(journal[k]) = base /\ RemoveAt(journal[k], MarkAt(journal[k])) = base \o Part(c)
    BY <1>2, <1>3, Savepoints
  <1>5. base \o Part(c) \in Seq(Pieces) /\ ToSet(base \o Part(c)) = ToSet(base) \cup ToSet(Part(c))
    BY <1>3, Concatenated
  <1>6. base \in Seq(All) /\ Part(c) \in Seq(All) /\ <<Mark>> \in Seq(All)
    BY <1>3, SeqMonotonic
  <1>7. ToSet(journal[k]) = ToSet(base) \cup {Mark} \cup ToSet(Part(c))
    <2> HIDE DEF All
    <2>1. \A s \in Seq(All), t \in Seq(All) :
            s \o t \in Seq(All) /\ ToSet(s \o t) = ToSet(s) \cup ToSet(t)
      BY Concatenated
    <2>2. base \o <<Mark>> \in Seq(All) /\ ToSet(base \o <<Mark>>) = ToSet(base) \cup ToSet(<<Mark>>)
      BY <1>6, <2>1
    <2>3. ToSet((base \o <<Mark>>) \o Part(c)) = ToSet(base \o <<Mark>>) \cup ToSet(Part(c))
      BY <1>6, <2>1, <2>2
    <2>4. QED
      BY <1>2, <2>2, <2>3, Elements
  <1>8. journal[k] # <<>>
    BY <1>7, Elements
  <1>9. Mark \notin ToSet(base) /\ Mark \notin ToSet(Part(c))
    BY <1>3, ElementsTyped, MarkIsNoPiece
  <1>10. QED
    BY <1>2, <1>4, <1>5, <1>7, <1>8, <1>9

\* A mutation that ends: it stays whole, or it goes.
LEMMA FailsWithin ==
  ASSUME IInv, NEW c \in Callers, NEW k \in Conns, k = on[c], Fails(c), c \in within
  PROVE  IInv'
  <1>1. /\ TypeOK /\ ConnInv(k) /\ c \in Users(k) /\ Numbered(c) /\ Users(k) = {c}
        /\ step[c] \in {"first", "second", "exit"} /\ Mutating(c) /\ step[c] # "idle"
        /\ Go(c, "idle") /\ Answers(c, "raised")
        /\ journal' = [journal EXCEPT ![k] = BeforeMark(@)]
        /\ UNCHANGED <<open, writer, db, holder, on, left, within, n>>
    <2>1. TypeOK /\ ConnInv(k) /\ c \in Users(k)
      BY DEF IInv, Users
    <2>2. step[c] \in {"first", "second", "exit"}
      BY DEF Fails
    <2>3. QED
      BY <2>1, <2>2 DEF Fails, ConnInv, Locked, Mutating
  <1>2. PICK base \in Seq(Pieces) :
          /\ Finished(k, base) /\ BeforeMark(journal[k]) = base
          /\ ToSet(journal[k]) = ToSet(base) \cup {Mark} \cup ToSet(Part(c))
          /\ Mark \notin ToSet(base) /\ journal[k] # <<>>
    BY <1>1, InSavepoint
  <1>3. /\ step'[c] = "idle" /\ \A d \in Callers \ {c} : step'[d] = step[d]
        /\ step' \in [Callers -> Steps]
    BY <1>1, Goes DEF Steps
  <1>4. /\ answer[Mine(c)] = "none" /\ answer'[Mine(c)] = "raised" /\ Mine(c) \in Mutations
        /\ \A m \in Mutations \ {Mine(c)} : answer'[m] = answer[m]
        /\ \A m \in Mutations : m[1] # c => answer'[m] = answer[m]
        /\ answer' \in [Mutations -> {"none", "pending", "returned", "raised", "unknown"}]
    BY <1>1, AnswersOne
  <1>5. journal'[k] = base /\ \A j \in Conns \ {k} : journal'[j] = journal[j]
    BY <1>1, <1>2 DEF TypeOK
  <1>6. FileTyped' /\ k \in open'
    <2>1. base \in Seq(Pieces \cup {Mark})
      BY SeqMonotonic
    <2>2. k \in open /\ writer = k
      BY <1>1, <1>2 DEF TypeOK
    <2>3. QED
      BY <1>1, <1>5, <2>1, <2>2 DEF TypeOK, FileTyped
  <1>7. CallersTyped' /\ Frame(c)
    BY <1>1, <1>3, <1>4, <1>5 DEF TypeOK, CallersTyped, Frame
  <1>8. AnswersTrue'
    BY <1>1, <1>4, AnswersKept DEF IInv
  <1>9. Users(k)' = {c} /\ \A m \in Mutations : on[m[1]] = k => m[1] = c
    BY <1>1, MutationsTyped DEF Users
  <1>10. Recorded(k)'
    <2>1. \A m \in Mutations : on[m[1]] = k /\ Unsettled(m) => Unsettled(m)'
      BY <1>1, <1>3, <1>4, <1>9 DEF Unsettled
    <2>2. Finished(k, base)'
      BY <1>1, <1>2, <2>1, FinishedKept
    <2>3. QED
      BY <1>2, <1>3, <1>5, <1>9, <2>2 DEF Recorded, Mutating
  <1>11. Expected(k)'
    <2>1. ASSUME NEW m \in Mutations, on[m[1]] = k, answer'[m] = "pending"
          PROVE  m[1] \in within /\ Writes(m) \subseteq ToSet(base)
      <3>1. m # Mine(c) /\ answer[m] = "pending"
        BY <1>4, <2>1
      <3>2. m[1] \in within /\ Writes(m) \subseteq ToSet(journal[k])
        BY <1>1, <2>1, <3>1 DEF ConnInv, Expected
      <3>3. Writes(m) \cap Writes(Mine(c)) = {} /\ Mark \notin Writes(m)
        BY <3>1 DEF Writes, Mark
      <3>4. QED
        BY <1>2, <3>2, <3>3, PartElements
    <2>2. QED
      BY <1>1, <1>3, <1>5, <1>9, <2>1 DEF Expected, Writes
  <1>12. Numbered(c)'
    <2>1. Mine(c)[2] = n[c] /\ n[c] \in 1..MaxMutations
      BY <1>1, Numbers
    <2>2. QED
      BY <1>1, <1>3, <1>4, <2>1 DEF Numbered
  <1>13. Begun'
    BY <1>1, BegunKept
  <1>14. QED
    BY <1>1, <1>3, <1>6, <1>7, <1>8, <1>10, <1>11, <1>12, <1>13, WithinKept

LEMMA ExitWithin ==
  ASSUME IInv, NEW c \in Callers, NEW k \in Conns, k = on[c], Exit(c), c \in within
  PROVE  IInv'
  <1>1. /\ TypeOK /\ ConnInv(k) /\ c \in Users(k) /\ Numbered(c) /\ Users(k) = {c}
        /\ step[c] = "exit" /\ Mutating(c) /\ step[c] # "idle"
        /\ Go(c, "idle") /\ Answers(c, "pending")
        /\ journal' = [journal EXCEPT ![k] = RemoveAt(@, MarkAt(@))]
        /\ UNCHANGED <<open, writer, db, holder, on, left, within, n>>
    <2>1. TypeOK /\ ConnInv(k) /\ c \in Users(k)
      BY DEF IInv, Users
    <2>2. step[c] = "exit"
      BY DEF Exit
    <2>3. QED
      BY <2>1, <2>2 DEF Exit, ConnInv, Locked, Mutating
  <1>2. PICK base \in Seq(Pieces), rest \in Seq(Pieces) :
          /\ Finished(k, base) /\ RemoveAt(journal[k], MarkAt(journal[k])) = rest
          /\ ToSet(rest) = ToSet(base) \cup ToSet(Part(c))
          /\ ToSet(journal[k]) = ToSet(base) \cup {Mark} \cup ToSet(Part(c))
          /\ Mark \notin ToSet(base) /\ Mark \notin ToSet(Part(c)) /\ journal[k] # <<>>
    BY <1>1, InSavepoint
  <1>3. /\ step'[c] = "idle" /\ \A d \in Callers \ {c} : step'[d] = step[d]
        /\ step' \in [Callers -> Steps]
    BY <1>1, Goes DEF Steps
  <1>4. /\ answer[Mine(c)] = "none" /\ answer'[Mine(c)] = "pending" /\ Mine(c) \in Mutations
        /\ \A m \in Mutations \ {Mine(c)} : answer'[m] = answer[m]
        /\ \A m \in Mutations : m[1] # c => answer'[m] = answer[m]
        /\ answer' \in [Mutations -> {"none", "pending", "returned", "raised", "unknown"}]
    BY <1>1, AnswersOne
  <1>5. journal'[k] = rest /\ \A j \in Conns \ {k} : journal'[j] = journal[j]
    BY <1>1, <1>2 DEF TypeOK
  <1>6. FileTyped' /\ k \in open'
    <2>1. rest \in Seq(Pieces \cup {Mark})
      BY <1>2, SeqMonotonic
    <2>2. k \in open /\ writer = k
      BY <1>1, <1>2 DEF TypeOK
    <2>3. QED
      BY <1>1, <1>5, <2>1, <2>2 DEF TypeOK, FileTyped
  <1>7. CallersTyped' /\ Frame(c)
    BY <1>1, <1>3, <1>4, <1>5 DEF TypeOK, CallersTyped, Frame
  <1>8. AnswersTrue'
    BY <1>1, <1>4, AnswersKept DEF IInv
  <1>9. Users(k)' = {c} /\ \A m \in Mutations : on[m[1]] = k => m[1] = c
    BY <1>1, MutationsTyped DEF Users
  <1>10. ToSet(Part(c)) = Writes(Mine(c)) /\ Mine(c)[1] = c
    BY <1>1, PartElements, Numbers
  <1>11. Recorded(k)'
    <2>1. \A m \in Mutations : on[m[1]] = k /\ Unsettled(m) => Unsettled(m)'
      BY <1>1, <1>3, <1>4, <1>9 DEF Unsettled
    <2>2. Finished(k, base)'
      BY <1>1, <1>2, <2>1, FinishedKept
    <2>3. Unsettled(Mine(c))'
      <3>1. ASSUME NEW m, m = Mine(c) PROVE Unsettled(m)'
        BY <1>1, <1>4, <1>10, <3>1 DEF Unsettled
      <3>2. Mine(c)' = Mine(c)
        BY <1>1 DEF Mine
      <3>3. QED
        BY <3>1, <3>2
    <2>4. ASSUME NEW s, ToSet(s) = ToSet(base) \cup Writes(Mine(c))
          PROVE  Finished(k, s)'
      <3>1. SUFFICES ASSUME NEW m \in Mutations, NEW i \in 1..2, <<m, i>> \in ToSet(s)
                     PROVE  on[m[1]] = k /\ Writes(m) \subseteq ToSet(s) /\ Unsettled(m)'
        BY <1>1 DEF Finished, Writes
      <3>2. CASE <<m, i>> \in ToSet(base)
        BY <1>1, <2>2, <2>4, <3>2 DEF Finished, Writes
      <3>3. CASE <<m, i>> \in Writes(Mine(c))
        <4>1. m = Mine(c)
          BY <3>3 DEF Writes
        <4>2. QED
          BY <1>4, <1>1, <1>10, <2>4, <4>1 DEF Unsettled
      <3>4. QED
        BY <2>4, <3>1, <3>2, <3>3
    <2>5. Finished(k, rest)'
      BY <1>2, <1>10, <2>4
    <2>6. QED
      BY <1>2, <1>3, <1>5, <1>9, <2>5 DEF Recorded, Mutating
  <1>12. Expected(k)'
    <2>1. ASSUME NEW m \in Mutations, on[m[1]] = k, answer'[m] = "pending"
          PROVE  m[1] \in within /\ Writes(m) \subseteq ToSet(rest)
      <3>1. CASE m = Mine(c)
        BY <1>1, <1>2, <1>10, <3>1
      <3>2. CASE m # Mine(c)
        <4>1. m[1] \in within /\ Writes(m) \subseteq ToSet(journal[k])
          BY <1>1, <1>4, <2>1, <3>2 DEF ConnInv, Expected
        <4>2. Mark \notin Writes(m)
          BY DEF Writes, Mark
        <4>3. QED
          BY <1>2, <4>1, <4>2
      <3>3. QED
        BY <3>1, <3>2
    <2>2. QED
      BY <1>1, <1>3, <1>5, <1>9, <2>1 DEF Expected, Writes
  <1>13. Numbered(c)'
    <2>1. Mine(c)[2] = n[c] /\ n[c] \in 1..MaxMutations
      BY <1>1, Numbers
    <2>2. QED
      BY <1>1, <1>3, <1>4, <2>1 DEF Numbered
  <1>14. Begun'
    BY <1>1, BegunKept
  <1>15. QED
    BY <1>1, <1>3, <1>6, <1>7, <1>8, <1>11, <1>12, <1>13, <1>14, WithinKept

LEMMA WithoutMark ==
  ASSUME TypeOK, NEW k \in Conns, Mark \notin ToSet(journal[k])
  PROVE  journal[k] \in Seq(Pieces)
  <1> DEFINE s == journal[k]
  <1>1. s \in Seq(Pieces \cup {Mark})
    BY DEF TypeOK
  <1>2. Len(s) \in Nat /\ s \in [1..Len(s) -> Pieces \cup {Mark}] /\ DOMAIN s = 1..Len(s)
    BY <1>1, LenProperties
  <1>3. \A i \in 1..Len(s) : s[i] \in Pieces
    BY <1>2 DEF ToSet
  <1>4. s \in [1..Len(s) -> Pieces]
    BY <1>2, <1>3
  <1>5. QED
    BY <1>2, <1>4, SeqDef

LEMMA SavepointKept ==
  ASSUME IInv, NEW c \in Callers, NEW k \in Conns, k = on[c], Savepoint(c)
  PROVE  IInv'
  <1>1. /\ TypeOK /\ ConnInv(k) /\ Begun /\ c \in Users(k) /\ Numbered(c)
        /\ step[c] = "idle" /\ c \in within /\ n[c] < MaxMutations /\ ~Mutating(c)
        /\ n' = [n EXCEPT ![c] = @ + 1] /\ Go(c, "first")
        /\ journal' = [journal EXCEPT ![k] = Append(@, Mark)]
        /\ UNCHANGED <<on, holder, left, open, writer, db, within, answer>>
    BY DEF IInv, Savepoint, conns, Users, ConnInv, Mutating
  <1>2. Users(k) = {c} /\ k \in open /\ writer = k
    BY <1>1 DEF ConnInv, Locked, Begun
  <1>3. /\ step'[c] = "first" /\ \A d \in Callers \ {c} : step'[d] = step[d]
        /\ step' \in [Callers -> Steps]
    BY <1>1, Goes DEF Steps
  <1>4. /\ n'[c] = n[c] + 1 /\ n[c] \in Nat /\ n'[c] \in 1..MaxMutations
        /\ \A d \in Callers \ {c} : n'[d] = n[d]
        /\ n' \in [Callers -> 0..MaxMutations]
    BY <1>1, NumbersTyped DEF TypeOK
  <1>5. Mark \notin ToSet(journal[k]) /\ Finished(k, journal[k]) /\ journal[k] \in Seq(Pieces)
    BY <1>1, <1>2, WithoutMark DEF ConnInv, Recorded
  <1>6. PICK base \in Seq(Pieces) : base = journal[k]
    BY <1>5
  <1>7. PICK marked \in Seq(Pieces \cup {Mark}) :
          marked = base \o <<Mark>> /\ journal'[k] = marked /\ marked = marked \o <<>>
          /\ ToSet(marked) = ToSet(base) \cup {Mark}
    <2> DEFINE All == Pieces \cup {Mark}
    <2>1. base \in Seq(All) /\ Mark \in All
      BY SeqMonotonic
    <2>2. /\ Append(base, Mark) = base \o <<Mark>> /\ Append(base, Mark) \in Seq(All)
          /\ <<Mark>> \in Seq(All)
      BY <2>1, AppendIsConcat, AppendProperties
    <2>3. ToSet(base \o <<Mark>>) = ToSet(base) \cup ToSet(<<Mark>>)
      <3> HIDE DEF All
      <3>1. \A s \in Seq(All), t \in Seq(All) : ToSet(s \o t) = ToSet(s) \cup ToSet(t)
        BY Concatenated
      <3>2. QED
        BY <2>1, <2>2, <3>1
    <2>4. journal'[k] = Append(base, Mark)
      BY <1>1, <1>6 DEF TypeOK
    <2>5. QED
      BY <2>2, <2>3, <2>4, ConcatEmptySeq, Elements
  <1>8. FileTyped' /\ \A j \in Conns \ {k} : journal'[j] = journal[j]
    <2>1. journal' = [journal EXCEPT ![k] = marked]
      BY <1>1, <1>7 DEF TypeOK
    <2>2. QED
      BY <1>1, <1>2, <2>1 DEF TypeOK, FileTyped
  <1>9. CallersTyped' /\ Frame(c)
    BY <1>1, <1>3, <1>4, <1>8 DEF TypeOK, CallersTyped, Frame
  <1>10. AnswersTrue'
    BY <1>1, AnswersKept DEF IInv
  <1>11. Users(k)' = {c} /\ Mutating(c)' /\ Part(c)' = <<>>
         /\ \A m \in Mutations : on[m[1]] = k => m[1] = c
    BY <1>1, <1>2, <1>3, MutationsTyped DEF Users, Mutating, Part
  <1>12. Recorded(k)'
    <2>1. \A m \in Mutations : on[m[1]] = k /\ Unsettled(m) => Unsettled(m)'
      BY <1>1, <1>11 DEF Unsettled
    <2>2. Finished(k, base)'
      BY <1>1, <1>5, <1>6, <2>1, FinishedKept
    <2>3. journal'[k] = (base \o <<Mark>>) \o Part(c)'
      BY <1>7, <1>11
    <2>4. QED
      BY <1>1, <1>11, <2>2, <2>3 DEF Recorded
  <1>13. Expected(k)'
    BY <1>1, <1>3, <1>6, <1>7, <1>11 DEF ConnInv, Expected, Writes
  <1>14. Numbered(c)'
    <2>1. Mine(c)' = <<c, n[c] + 1>> /\ <<c, n[c] + 1>> \in Mutations
      BY <1>4, MutationsTyped DEF Mine
    <2>2. answer[<<c, n[c] + 1>>] = "none"
      BY <1>1, <1>4, <2>1 DEF Numbered
    <2>3. \A m \in Mutations : m[2] \in Nat
      BY MutationsTyped
    <2>4. QED
      BY <1>1, <1>4, <2>1, <2>2, <2>3 DEF Numbered
  <1>15. Begun'
    BY <1>1, BegunKept
  <1>16. QED
    BY <1>1, <1>2, <1>3, <1>8, <1>9, <1>10, <1>12, <1>13, <1>14, <1>15, WithinKept

----------------------------------------------------------------------------
(* The end of a transaction *)

\* What a commit adds to the database, and what is said of it.
LEMMA AnswersCommitted ==
  ASSUME TypeOK, AnswersTrue, NEW added, db' = db \cup added,
         \A m \in Mutations :
           /\ Writes(m) \cap added # {} =>
                Writes(m) \subseteq added /\ answer'[m] \in {"returned", "unknown"}
           /\ \/ answer'[m] = answer[m]
              \/ /\ answer[m] \in {"none", "pending"}
                 /\ answer'[m] = "returned" => Writes(m) \subseteq added
  PROVE  AnswersTrue'
  <1>1. SUFFICES ASSUME NEW m \in Mutations
                 PROVE  LET there == Writes(m) \cap db'
                        IN  /\ answer'[m] = "returned" => there = Writes(m)
                            /\ answer'[m] \in {"none", "pending", "raised"} => there = {}
                            /\ there \in {{}, Writes(m)}
    BY DEF AnswersTrue, Writes
  <1>2. /\ answer[m] = "returned" => Writes(m) \cap db = Writes(m)
        /\ answer[m] \in {"none", "pending", "raised"} => Writes(m) \cap db = {}
        /\ Writes(m) \cap db \in {{}, Writes(m)}
    BY DEF AnswersTrue
  <1>3. CASE Writes(m) \cap added # {}
    <2>1. Writes(m) \cap db' = Writes(m)
      BY <1>3
    <2>2. QED
      BY <1>3, <2>1
  <1>4. CASE Writes(m) \cap added = {}
    <2>1. Writes(m) \cap db' = Writes(m) \cap db
      BY <1>4
    <2>2. <<m, 1>> \in Writes(m)
      <3>1. 1 \in 1..2
        OBVIOUS
      <3>2. QED
        BY <3>1 DEF Writes
    <2>3. answer'[m] = "returned" => answer[m] = "returned"
      BY <1>4, <2>2
    <2>4. answer'[m] \in {"none", "pending", "raised"} => answer[m] \in {"none", "pending", "raised"}
      OBVIOUS
    <2>5. QED
      BY <1>2, <2>1, <2>3, <2>4
  <1>5. QED
    BY <1>3, <1>4

\* The write lock of another connection's transaction stays.
LEMMA BegunClosed ==
  ASSUME IInv, NEW k \in Conns, Closed(k), UNCHANGED on,
         \A d \in within' : d \in within /\ on[d] # k
  PROVE  Begun'
  BY DEF IInv, Begun, Closed

LEMMA FailsAlone ==
  ASSUME IInv, NEW c \in Callers, NEW k \in Conns, k = on[c], Fails(c), c \notin within
  PROVE  IInv'
  <1>1. /\ TypeOK /\ ConnInv(k) /\ c \in Users(k) /\ Numbered(c) /\ Users(k) \subseteq Callers
        /\ step[c] \in {"first", "second", "exit"} /\ Mutating(c) /\ step[c] # "idle"
        /\ holder[k] = c /\ k \notin left
        /\ Go(c, "idle") /\ Answers(c, "raised") /\ Closed(k) /\ Released(c)
        /\ UNCHANGED <<db, on, left, within, n>>
    <2>1. TypeOK /\ ConnInv(k) /\ c \in Users(k) /\ Users(k) \subseteq Callers
      BY DEF IInv, Users
    <2>2. step[c] \in {"first", "second", "exit"}
      BY DEF Fails
    <2>3. QED
      BY <2>1, <2>2 DEF Fails, ConnInv, Locked, Mutating, RolledBack
  <1>2. /\ step'[c] = "idle" /\ \A d \in Callers \ {c} : step'[d] = step[d]
        /\ step' \in [Callers -> Steps]
    BY <1>1, Goes DEF Steps
  <1>3. /\ answer[Mine(c)] = "none" /\ answer'[Mine(c)] = "raised"
        /\ \A m \in Mutations \ {Mine(c)} : answer'[m] = answer[m]
        /\ \A m \in Mutations : m[1] # c => answer'[m] = answer[m]
        /\ answer' \in [Mutations -> {"none", "pending", "returned", "raised", "unknown"}]
    BY <1>1, AnswersOne
  <1>4. /\ FileTyped' /\ journal'[k] = <<>> /\ k \notin open'
        /\ \A j \in Conns \ {k} : journal'[j] = journal[j] /\ (j \in open' <=> j \in open)
    <2>1. db' \subseteq Pieces /\ left' = left \ {k}
      BY <1>1 DEF TypeOK
    <2>2. QED
      BY <1>1, <2>1, ClosedFile
  <1>5. holder'[k] = None /\ holder' \in [Conns -> Callers \cup {None}]
        /\ \A j \in Conns \ {k} : holder'[j] = holder[j]
    BY <1>1 DEF Released, TypeOK
  <1>6. CallersTyped' /\ Frame(c)
    BY <1>1, <1>2, <1>3, <1>4, <1>5 DEF TypeOK, CallersTyped, Frame
  <1>7. AnswersTrue'
    BY <1>1, <1>3, AnswersKept DEF IInv
  <1>8. (~Mutating(c))' /\ Part(c)' = <<>>
    BY <1>2 DEF Mutating, Part
  <1>9. ConnInv(k)'
    BY <1>1, <1>2, <1>3, <1>4, <1>5, <1>6, <1>8, SharedKept DEF Steps
  <1>10. Begun'
    <2>1. \A d \in within : on[d] # k
      BY <1>1, Bystanders DEF ConnInv, Users, TypeOK
    <2>2. QED
      BY <1>1, <2>1, BegunClosed
  <1>11. QED
    BY <1>4, <1>6, <1>7, <1>9, <1>10, StepKept

LEMMA ExitAlone ==
  ASSUME IInv, NEW c \in Callers, NEW k \in Conns, k = on[c], Exit(c), c \notin within
  PROVE  IInv'
  <1>1. /\ TypeOK /\ ConnInv(k) /\ c \in Users(k) /\ Numbered(c) /\ Users(k) \subseteq Callers
        /\ step[c] = "exit" /\ Mutating(c) /\ step[c] # "idle"
        /\ holder[k] = c /\ k \notin left /\ journal[k] = Part(c)
        /\ Go(c, "idle") /\ Answers(c, "returned") /\ Closed(k) /\ Released(c)
        /\ db' = db \cup (ToSet(journal[k]) \ {Mark})
        /\ UNCHANGED <<on, left, within, n>>
    <2>1. TypeOK /\ ConnInv(k) /\ c \in Users(k) /\ Users(k) \subseteq Callers
      BY DEF IInv, Users
    <2>2. step[c] = "exit" /\ Mutating(c)
      BY DEF Exit, Mutating
    <2>3. QED
      BY <2>1, <2>2 DEF Exit, ConnInv, Locked, Recorded, Committed
  <1>2. /\ step'[c] = "idle" /\ \A d \in Callers \ {c} : step'[d] = step[d]
        /\ step' \in [Callers -> Steps]
    BY <1>1, Goes DEF Steps
  <1>3. /\ answer[Mine(c)] = "none" /\ answer'[Mine(c)] = "returned" /\ Mine(c) \in Mutations
        /\ \A m \in Mutations \ {Mine(c)} : answer'[m] = answer[m]
        /\ \A m \in Mutations : m[1] # c => answer'[m] = answer[m]
        /\ answer' \in [Mutations -> {"none", "pending", "returned", "raised", "unknown"}]
    BY <1>1, AnswersOne
  <1>4. db' = db \cup Writes(Mine(c)) /\ Writes(Mine(c)) \subseteq Pieces
    <2>1. ToSet(journal[k]) = Writes(Mine(c))
      BY <1>1, PartElements
    <2>2. Mark \notin Writes(Mine(c)) /\ Writes(Mine(c)) \subseteq Pieces
      BY <1>3 DEF Writes, Mark, Pieces
    <2>3. QED
      BY <1>1, <2>1, <2>2
  <1>5. /\ FileTyped' /\ journal'[k] = <<>> /\ k \notin open'
        /\ \A j \in Conns \ {k} : journal'[j] = journal[j] /\ (j \in open' <=> j \in open)
    <2>1. db' \subseteq Pieces /\ left' = left \ {k}
      BY <1>1, <1>4 DEF TypeOK
    <2>2. QED
      BY <1>1, <2>1, ClosedFile
  <1>6. holder'[k] = None /\ holder' \in [Conns -> Callers \cup {None}]
        /\ \A j \in Conns \ {k} : holder'[j] = holder[j]
    BY <1>1 DEF Released, TypeOK
  <1>7. CallersTyped' /\ Frame(c)
    BY <1>1, <1>2, <1>3, <1>5, <1>6 DEF TypeOK, CallersTyped, Frame
  <1>8. AnswersTrue'
    <2>1. \A m \in Mutations : Writes(m) \cap Writes(Mine(c)) # {} => m = Mine(c)
      BY DEF Writes
    <2>2. QED
      BY <1>1, <1>3, <1>4, <2>1, AnswersCommitted DEF IInv
  <1>9. (~Mutating(c))' /\ Part(c)' = <<>>
    BY <1>2 DEF Mutating, Part
  <1>10. ConnInv(k)'
    BY <1>1, <1>2, <1>3, <1>5, <1>6, <1>7, <1>9, SharedKept DEF Steps
  <1>11. Begun'
    <2>1. \A d \in within : on[d] # k
      BY <1>1, Bystanders DEF ConnInv, Users, TypeOK
    <2>2. QED
      BY <1>1, <2>1, BegunClosed
  <1>12. QED
    BY <1>5, <1>7, <1>8, <1>10, <1>11, StepKept

LEMMA SettledOnes ==
  ASSUME TypeOK, NEW c \in Callers, Settled(c, "returned") \/ Settled(c, "raised") \/ Settled(c, "unknown")
  PROVE  /\ answer' \in [Mutations -> {"none", "pending", "returned", "raised", "unknown"}]
         /\ \A m \in Mutations :
              /\ m[1] # c => answer'[m] = answer[m]
              /\ answer[m] # "pending" => answer'[m] = answer[m]
              /\ m[1] = c /\ answer[m] = "pending" =>
                   /\ Settled(c, "returned") => answer'[m] = "returned"
                   /\ Settled(c, "raised") => answer'[m] = "raised"
                   /\ Settled(c, "unknown") => answer'[m] = "unknown"
              /\ m[1] = c => answer'[m] # "pending"
  BY DEF Settled, TypeOK

\* A caller whose transaction ends, in whichever way.
LEMMA EndsFacts ==
  ASSUME IInv, NEW c \in Callers, NEW k \in Conns, k = on[c], Ends(c)
  PROVE  /\ TypeOK /\ ConnInv(k) /\ c \in Users(k) /\ Numbered(c) /\ Users(k) = {c}
         /\ step[c] = "idle" /\ ~Mutating(c) /\ holder[k] = None /\ k \in open /\ k \notin left
         /\ within' = within \ {c} /\ UNCHANGED <<on, holder, step, n>>
         /\ Users(k)' = {c} /\ (~Mutating(c))' /\ c \notin within'
         /\ Mark \notin ToSet(journal[k]) /\ Finished(k, journal[k])
         /\ \A m \in Mutations : on[m[1]] = k => m[1] = c
  <1>1. /\ TypeOK /\ ConnInv(k) /\ c \in Users(k) /\ step[c] = "idle" /\ c \in within
        /\ ~Mutating(c) /\ within' = within \ {c} /\ UNCHANGED <<on, holder, step, n>>
    BY DEF IInv, Ends, Users, Mutating
  <1>2. Users(k) = {c} /\ holder[k] = None /\ k \in open /\ k \notin left /\ Numbered(c)
    BY <1>1 DEF ConnInv, Locked
  <1>3. Users(k)' = {c} /\ (~Mutating(c))'
    BY <1>1, <1>2 DEF Users, Mutating
  <1>4. Mark \notin ToSet(journal[k]) /\ Finished(k, journal[k])
    BY <1>1, <1>2 DEF ConnInv, Recorded
  <1>5. \A m \in Mutations : on[m[1]] = k => m[1] = c
    BY <1>2, MutationsTyped DEF Users
  <1>6. QED
    BY <1>1, <1>2, <1>3, <1>4, <1>5

\* A connection after the transaction of its only user: closed, or left open.
LEMMA EndedKept ==
  ASSUME IInv, NEW c \in Callers, NEW k \in Conns, k = on[c], Users(k) = {c},
         Frame(c), FileTyped', CallersTyped', AnswersTrue', Begun',
         holder'[k] = None, step'[c] = "idle", c \notin within', n[c] = n'[c],
         k \in open' => k \in left',
         Recorded(k)', \A m \in Mutations : m[1] = c => answer'[m] # "pending",
         \A m \in Mutations : m[1] = c /\ answer'[m] # "none" =>
           answer[m] # "none" \/ (m = Mine(c) /\ step[c] # "idle")
  PROVE  IInv'
  <1>1. c \in Users(k) /\ ConnInv(k) /\ TypeOK /\ Numbered(c)
    BY DEF IInv, Users, ConnInv
  <1>2. Users(k)' = {c} /\ on' = on
    BY DEF Users, Frame
  <1>3. Locked(k)' /\ Opened(k)'
    BY <1>2 DEF Locked, Opened, Mutating
  <1>4. Expected(k)'
    <2>1. \A m \in Mutations : on[m[1]] = k => m[1] = c
      BY MutationsTyped DEF Users
    <2>2. QED
      BY <1>2, <2>1 DEF Expected
  <1>5. Numbered(c)'
    <2>1. step[c] # "idle" => Mine(c)[2] = n[c] /\ n[c] \in 1..MaxMutations
      BY <1>1, Numbers
    <2>2. QED
      BY <1>1, <2>1 DEF Numbered
  <1>6. QED
    BY <1>3, <1>4, <1>5, AloneKept

\* COMMIT, of all that is in the transaction of the connection's only user.
LEMMA CommitAllKept ==
  ASSUME IInv, NEW c \in Callers, NEW k \in Conns, k = on[c], CommitAll(c)
  PROVE  IInv'
  <1>1. /\ TypeOK /\ ConnInv(k) /\ c \in Users(k) /\ Numbered(c) /\ Users(k) = {c}
        /\ step[c] = "idle" /\ holder[k] = None /\ k \notin left
        /\ within' = within \ {c} /\ UNCHANGED <<on, holder, step, n>>
        /\ Users(k)' = {c} /\ (~Mutating(c))' /\ c \notin within'
        /\ Mark \notin ToSet(journal[k]) /\ Finished(k, journal[k])
        /\ \A m \in Mutations : on[m[1]] = k => m[1] = c
    BY EndsFacts DEF CommitAll
  <1>2. /\ Closed(k) /\ db' = db \cup (ToSet(journal[k]) \ {Mark})
        /\ Settled(c, "returned") /\ UNCHANGED left
    BY DEF CommitAll, Committed
  <1>3. /\ answer' \in [Mutations -> {"none", "pending", "returned", "raised", "unknown"}]
        /\ \A m \in Mutations :
             /\ m[1] # c => answer'[m] = answer[m]
             /\ answer[m] # "pending" => answer'[m] = answer[m]
             /\ m[1] = c /\ answer[m] = "pending" => answer'[m] = "returned"
             /\ m[1] = c => answer'[m] # "pending"
    BY <1>1, <1>2, SettledOnes
  <1>4. PICK added : added = ToSet(journal[k]) /\ db' = db \cup added /\ added \subseteq Pieces
    <2>1. ToSet(journal[k]) \subseteq Pieces
      BY <1>1, WithoutMark, ElementsTyped
    <2>2. QED
      BY <1>1, <1>2, <2>1
  <1>5. /\ FileTyped' /\ journal'[k] = <<>> /\ k \notin open'
        /\ \A j \in Conns \ {k} : journal'[j] = journal[j] /\ (j \in open' <=> j \in open)
    <2>1. db' \subseteq Pieces /\ left' = left \ {k}
      BY <1>1, <1>2, <1>4 DEF TypeOK
    <2>2. QED
      BY <1>1, <1>2, <2>1, ClosedFile
  <1>6. CallersTyped' /\ Frame(c)
    BY <1>1, <1>2, <1>3, <1>5 DEF TypeOK, CallersTyped, Frame
  <1>7. AnswersTrue'
    <2>1. ASSUME NEW m \in Mutations, Writes(m) \cap added # {}
          PROVE  Writes(m) \subseteq added /\ answer'[m] \in {"returned", "unknown"}
      <3>1. PICK i \in 1..2 : <<m, i>> \in added
        BY <2>1 DEF Writes
      <3>2. on[m[1]] = k /\ Writes(m) \subseteq added /\ Unsettled(m)
        BY <1>1, <1>4, <3>1 DEF Finished
      <3>3. QED
        BY <1>1, <1>3, <3>2 DEF Unsettled
    <2>2. ASSUME NEW m \in Mutations, answer'[m] # answer[m]
          PROVE  /\ answer[m] \in {"none", "pending"}
                 /\ answer'[m] = "returned" => Writes(m) \subseteq added
      <3>1. m[1] = c /\ answer[m] = "pending"
        BY <1>3, <2>2
      <3>2. QED
        BY <1>1, <1>4, <3>1 DEF ConnInv, Expected
    <2>3. QED
      BY <1>1, <1>4, <2>1, <2>2, AnswersCommitted DEF IInv
  <1>8. Recorded(k)'
    BY <1>1, <1>5, Elements DEF Recorded, Finished
  <1>9. Begun'
    BY <1>1, <1>2, BegunClosed DEF Users, TypeOK
  <1>10. QED
    BY <1>1, <1>3, <1>5, <1>6, <1>7, <1>8, <1>9, EndedKept

LEMMA RollbackKept ==
  ASSUME IInv, NEW c \in Callers, NEW k \in Conns, k = on[c], Rollback(c)
  PROVE  IInv'
  <1>1. /\ TypeOK /\ ConnInv(k) /\ c \in Users(k) /\ Numbered(c) /\ Users(k) = {c}
        /\ step[c] = "idle" /\ holder[k] = None /\ k \notin left
        /\ within' = within \ {c} /\ UNCHANGED <<on, holder, step, n>>
        /\ Users(k)' = {c} /\ (~Mutating(c))' /\ c \notin within'
    BY EndsFacts DEF Rollback
  <1>2. Closed(k) /\ UNCHANGED db /\ Settled(c, "raised") /\ UNCHANGED left
    BY DEF Rollback, RolledBack
  <1>3. /\ answer' \in [Mutations -> {"none", "pending", "returned", "raised", "unknown"}]
        /\ \A m \in Mutations :
             /\ m[1] # c => answer'[m] = answer[m]
             /\ answer[m] # "pending" => answer'[m] = answer[m]
             /\ m[1] = c /\ answer[m] = "pending" => answer'[m] = "raised"
             /\ m[1] = c => answer'[m] # "pending"
    BY <1>1, <1>2, SettledOnes
  <1>4. /\ FileTyped' /\ journal'[k] = <<>> /\ k \notin open'
        /\ \A j \in Conns \ {k} : journal'[j] = journal[j] /\ (j \in open' <=> j \in open)
    <2>1. db' \subseteq Pieces /\ left' = left \ {k}
      BY <1>1, <1>2 DEF TypeOK
    <2>2. QED
      BY <1>1, <1>2, <2>1, ClosedFile
  <1>5. CallersTyped' /\ Frame(c)
    BY <1>1, <1>2, <1>3, <1>4 DEF TypeOK, CallersTyped, Frame
  <1>6. AnswersTrue'
    BY <1>1, <1>2, <1>3, AnswersKept DEF IInv
  <1>7. Recorded(k)'
    BY <1>1, <1>4, Elements DEF Recorded, Finished
  <1>8. Begun'
    BY <1>1, <1>2, BegunClosed DEF Users, TypeOK
  <1>9. QED
    BY <1>1, <1>3, <1>4, <1>5, <1>6, <1>7, <1>8, EndedKept

LEMMA CommitRaisesKept ==
  ASSUME IInv, NEW c \in Callers, NEW k \in Conns, k = on[c], CommitRaises(c)
  PROVE  IInv'
  <1>1. /\ TypeOK /\ ConnInv(k) /\ c \in Users(k) /\ Numbered(c) /\ Users(k) = {c}
        /\ step[c] = "idle" /\ holder[k] = None /\ k \in open
        /\ within' = within \ {c} /\ UNCHANGED <<on, holder, step, n>>
        /\ Users(k)' = {c} /\ (~Mutating(c))' /\ c \notin within'
        /\ Mark \notin ToSet(journal[k]) /\ Finished(k, journal[k])
        /\ \A m \in Mutations : on[m[1]] = k => m[1] = c
    BY EndsFacts DEF CommitRaises
  <1>2. /\ Settled(c, "unknown") /\ left' = left \cup {k}
        /\ UNCHANGED <<open, writer, journal, db>>
    BY DEF CommitRaises, file
  <1>3. /\ answer' \in [Mutations -> {"none", "pending", "returned", "raised", "unknown"}]
        /\ \A m \in Mutations :
             /\ m[1] # c => answer'[m] = answer[m]
             /\ answer[m] # "pending" => answer'[m] = answer[m]
             /\ m[1] = c /\ answer[m] = "pending" => answer'[m] = "unknown"
             /\ m[1] = c => answer'[m] # "pending"
    BY <1>1, <1>2, SettledOnes
  <1>4. FileTyped' /\ CallersTyped' /\ Frame(c)
    BY <1>1, <1>2, <1>3 DEF TypeOK, FileTyped, CallersTyped, Frame
  <1>5. AnswersTrue'
    BY <1>1, <1>2, <1>3, AnswersKept DEF IInv
  <1>6. Recorded(k)'
    <2>1. \A m \in Mutations : on[m[1]] = k /\ Unsettled(m) => Unsettled(m)'
      BY <1>1, <1>3 DEF Unsettled
    <2>2. Finished(k, journal[k])'
      <3>1. ASSUME NEW s, s = journal[k] PROVE Finished(k, s)'
        BY <1>1, <2>1, <3>1, FinishedKept
      <3>2. QED
        BY <1>2, <3>1
    <2>3. QED
      BY <1>1, <1>2, <2>2 DEF Recorded
  <1>7. Begun'
    BY <1>1, <1>2 DEF IInv, Begun
  <1>8. QED
    BY <1>1, <1>2, <1>3, <1>4, <1>5, <1>6, <1>7, EndedKept

----------------------------------------------------------------------------
(* The calls of the only user of a connection, outside a transaction of his own *)

LEMMA SoleFacts ==
  ASSUME IInv, NEW c \in Callers, NEW k \in Conns, k = on[c],
         step[c] = "idle", c \notin within, Alone(c)
  PROVE  /\ TypeOK /\ ConnInv(k) /\ c \in Users(k) /\ Numbered(c) /\ Users(k) = {c}
         /\ ~Mutating(c) /\ holder[k] = None
         /\ Mark \notin ToSet(journal[k]) /\ Finished(k, journal[k])
         /\ \A m \in Mutations :
              /\ on[m[1]] = k => m[1] = c
              /\ m[1] = c => answer[m] # "pending"
  <1>1. TypeOK /\ ConnInv(k) /\ c \in Users(k) /\ Users(k) = {c} /\ ~Mutating(c)
    BY OnlyUser DEF IInv, Users, Mutating
  <1>2. holder[k] = None /\ Numbered(c) /\ Mark \notin ToSet(journal[k]) /\ Finished(k, journal[k])
    BY <1>1 DEF ConnInv, Locked, Recorded
  <1>3. \A m \in Mutations : on[m[1]] = k => m[1] = c
    BY <1>1, MutationsTyped DEF Users
  <1>4. \A m \in Mutations : m[1] = c => answer[m] # "pending"
    BY <1>1 DEF ConnInv, Expected
  <1>5. QED
    BY <1>1, <1>2, <1>3, <1>4

LEMMA BeginKept ==
  ASSUME IInv, NEW c \in Callers, NEW k \in Conns, k = on[c], Begin(c)
  PROVE  IInv'
  <1>1. /\ TypeOK /\ ConnInv(k) /\ c \in Users(k) /\ Numbered(c) /\ Users(k) = {c}
        /\ ~Mutating(c) /\ holder[k] = None
        /\ \A m \in Mutations :
             /\ on[m[1]] = k => m[1] = c
             /\ m[1] = c => answer[m] # "pending"
    BY SoleFacts DEF Begin
  <1>2. /\ step[c] = "idle" /\ c \notin within /\ k \notin open /\ writer = None
        /\ open' = open \cup {k} /\ writer' = k /\ within' = within \cup {c}
        /\ UNCHANGED <<on, holder, left, journal, db, step, n, answer>>
    BY DEF Begin, conns
  <1>3. journal[k] = <<>> /\ k \notin left
    BY <1>1, <1>2 DEF TypeOK
  <1>4. FileTyped'
    BY <1>1, <1>2, NoneAssumption DEF TypeOK, FileTyped
  <1>5. CallersTyped' /\ Frame(c)
    BY <1>1, <1>2 DEF TypeOK, CallersTyped, Frame
  <1>6. AnswersTrue'
    BY <1>1, <1>2, AnswersKept DEF IInv
  <1>7. Begun'
    <2>1. \A d \in within : writer = on[d] /\ on[d] # None
      BY <1>1, NoneAssumption DEF IInv, Begun, TypeOK
    <2>2. QED
      BY <1>2, <2>1 DEF Begun
  <1>8. Users(k)' = {c} /\ (~Mutating(c))'
    BY <1>1, <1>2 DEF Users, Mutating
  <1>9. Locked(k)' /\ Opened(k)'
    BY <1>1, <1>2, <1>3, <1>8 DEF Locked, Opened, Mutating
  <1>10. Recorded(k)'
    BY <1>2, <1>3, <1>8, Elements DEF Recorded, Finished
  <1>11. Expected(k)'
    BY <1>1, <1>2 DEF Expected
  <1>12. Numbered(c)'
    BY <1>1, <1>2 DEF Numbered
  <1>13. QED
    BY <1>1, <1>4, <1>5, <1>6, <1>7, <1>9, <1>10, <1>11, <1>12, AloneKept

\* The invitation store has written its row and is about to commit.
LEMMA InviteKept ==
  ASSUME IInv, NEW c \in Callers, NEW k \in Conns, k = on[c], Invite(c)
  PROVE  IInv'
  <1>1. /\ TypeOK /\ ConnInv(k) /\ c \in Users(k) /\ Numbered(c) /\ Users(k) = {c}
        /\ ~Mutating(c) /\ holder[k] = None
        /\ Mark \notin ToSet(journal[k]) /\ Finished(k, journal[k])
        /\ \A m \in Mutations :
             /\ on[m[1]] = k => m[1] = c
             /\ m[1] = c => answer[m] # "pending"
    BY SoleFacts DEF Invite, Invites
  <1>2. /\ step[c] = "idle" /\ c \notin within /\ n[c] < MaxMutations
        /\ n' = [n EXCEPT ![c] = @ + 1] /\ Go(c, "commit")
        /\ LET new == <<c, n[c] + 1>> IN Wrote(k, << <<new, 1>>, <<new, 2>> >>)
        /\ UNCHANGED <<on, holder, within, left, answer>>
    BY DEF Invite, Invites
  <1>3. /\ step'[c] = "commit" /\ \A d \in Callers \ {c} : step'[d] = step[d]
        /\ step' \in [Callers -> Steps]
    BY <1>1, <1>2, Goes DEF Steps
  <1>4. /\ n'[c] = n[c] + 1 /\ n[c] \in Nat /\ n'[c] \in 1..MaxMutations
        /\ \A d \in Callers \ {c} : n'[d] = n[d]
        /\ n' \in [Callers -> 0..MaxMutations]
    BY <1>1, <1>2, NumbersTyped DEF TypeOK
  <1>5. PICK new \in Mutations :
          /\ new = <<c, n[c] + 1>> /\ new[1] = c /\ new[2] = n[c] + 1
          /\ answer[new] = "none" /\ Mine(c)' = new
    <2>1. PICK new \in Mutations : new = <<c, n[c] + 1>>
      BY <1>4, MutationsTyped
    <2>2. answer[new] = "none"
      BY <1>1, <1>4, <2>1 DEF Numbered
    <2>3. Mine(c)' = new
      BY <1>4, <2>1 DEF Mine
    <2>4. QED
      BY <2>1, <2>2, <2>3
  <1>6. PICK writes \in Seq(Pieces) : Wrote(k, writes) /\ ToSet(writes) = Writes(new)
    <2>1. <<new, 1>> \in Pieces /\ <<new, 2>> \in Pieces
      BY DEF Pieces
    <2>2. ToSet(<< <<new, 1>>, <<new, 2>> >>) = {<<new, 1>>, <<new, 2>>}
      BY Elements
    <2>3. Wrote(k, << <<new, 1>>, <<new, 2>> >>)
      BY <1>2, <1>5
    <2>4. ToSet(<< <<new, 1>>, <<new, 2>> >>) = Writes(new)
      BY <2>2 DEF Writes
    <2>5. << <<new, 1>>, <<new, 2>> >> \in Seq(Pieces)
      BY <2>1
    <2>6. QED
      BY <2>3, <2>4, <2>5
  <1>7. /\ FileTyped' /\ journal'[k] = journal[k] \o writes /\ k \in open' /\ UNCHANGED db
        /\ \A j \in Conns \ {k} : journal'[j] = journal[j] /\ (j \in open' <=> j \in open)
    BY <1>1, <1>2, <1>6, WrittenFile
  <1>8. PICK s : s = journal'[k] /\ ToSet(s) = ToSet(journal[k]) \cup Writes(new)
    <2>1. ToSet(journal[k] \o writes) = ToSet(journal[k]) \cup ToSet(writes)
      BY <1>1, JournalGrows
    <2>2. QED
      BY <1>6, <1>7, <2>1
  <1>9. CallersTyped' /\ Frame(c)
    BY <1>1, <1>2, <1>3, <1>4, <1>7 DEF TypeOK, CallersTyped, Frame
  <1>10. AnswersTrue'
    BY <1>1, <1>2, <1>7, AnswersKept DEF IInv
  <1>11. Begun'
    <2>1. writer \in {None, k} /\ writer' = k
      BY <1>6 DEF Wrote, Writable
    <2>2. \A d \in within : on[d] \in Conns /\ on[d] # None /\ writer = on[d]
      BY <1>1, NoneAssumption DEF TypeOK, IInv, Begun
    <2>3. QED
      BY <1>2, <2>1, <2>2 DEF Begun
  <1>12. Users(k)' = {c} /\ (~Mutating(c))'
    BY <1>1, <1>2, <1>3 DEF Users, Mutating
  <1>13. Locked(k)' /\ Opened(k)'
    BY <1>1, <1>2, <1>3, <1>7, <1>12 DEF Locked, Opened, Mutating
  <1>14. Recorded(k)'
    <2>1. Mark \notin ToSet(s)
      BY <1>1, <1>8 DEF Writes, Mark
    <2>2. ASSUME NEW m \in Mutations, NEW i \in 1..2, <<m, i>> \in ToSet(s)
          PROVE  on[m[1]] = k /\ Writes(m) \subseteq ToSet(s) /\ Unsettled(m)'
      <3>1. CASE <<m, i>> \in ToSet(journal[k])
        <4>1. on[m[1]] = k /\ Writes(m) \subseteq ToSet(journal[k]) /\ Unsettled(m)
          BY <1>1, <3>1 DEF Finished
        <4>2. answer[m] = "unknown"
          BY <1>1, <1>2, <4>1 DEF Unsettled
        <4>3. QED
          BY <1>2, <1>8, <4>1, <4>2 DEF Unsettled
      <3>2. CASE <<m, i>> \in Writes(new)
        <4>1. m = new
          BY <3>2 DEF Writes
        <4>2. Unsettled(m)'
          BY <1>3, <1>5, <4>1 DEF Unsettled
        <4>3. QED
          BY <1>2, <1>5, <1>8, <4>1, <4>2
      <3>3. QED
        BY <1>8, <2>2, <3>1, <3>2
    <2>3. Finished(k, s)'
      BY <1>2, <2>2 DEF Finished, Writes
    <2>4. QED
      BY <1>8, <1>12, <2>1, <2>3 DEF Recorded
  <1>15. Expected(k)'
    <2>1. ASSUME NEW m \in Mutations, on[m[1]] = k
          PROVE  /\ answer[m] # "pending" /\ m[1] = c
                 /\ m = Mine(c)' => Writes(m) \subseteq ToSet(s)
      BY <1>1, <1>5, <1>8, <2>1
    <2>2. QED
      BY <1>2, <1>8, <2>1 DEF Expected, Writes, Mine
  <1>16. Numbered(c)'
    <2>1. \A m \in Mutations : m[2] \in Nat
      BY MutationsTyped
    <2>2. QED
      BY <1>1, <1>2, <1>4, <1>5, <2>1 DEF Numbered
  <1>17. QED
    BY <1>1, <1>7, <1>9, <1>10, <1>11, <1>13, <1>14, <1>15, <1>16, AloneKept

LEMMA InviteRaisesKept ==
  ASSUME IInv, NEW c \in Callers, NEW k \in Conns, k = on[c], InviteRaises(c)
  PROVE  IInv'
  <1>1. /\ TypeOK /\ ConnInv(k) /\ c \in Users(k) /\ Numbered(c) /\ Users(k) = {c}
        /\ ~Mutating(c) /\ holder[k] = None
        /\ Mark \notin ToSet(journal[k]) /\ Finished(k, journal[k])
        /\ \A m \in Mutations :
             /\ on[m[1]] = k => m[1] = c
             /\ m[1] = c => answer[m] # "pending"
    BY SoleFacts DEF InviteRaises, Invites
  <1>2. /\ step[c] = "idle" /\ c \notin within /\ n[c] < MaxMutations
        /\ n' = [n EXCEPT ![c] = @ + 1] /\ open' = open \cup {k} /\ left' = left \cup {k}
        /\ IF writer = None THEN writer' \in {None, k} ELSE writer' = writer
        /\ answer' = [answer EXCEPT ![<<c, n[c] + 1>>] = "raised"]
        /\ UNCHANGED <<on, holder, within, journal, db, step>>
    BY DEF InviteRaises, Invites
  <1>3. /\ n'[c] = n[c] + 1 /\ n[c] \in Nat /\ n'[c] \in 1..MaxMutations
        /\ \A d \in Callers \ {c} : n'[d] = n[d]
        /\ n' \in [Callers -> 0..MaxMutations]
    BY <1>1, <1>2, NumbersTyped DEF TypeOK
  <1>4. PICK new \in Mutations :
          new = <<c, n[c] + 1>> /\ new[1] = c /\ new[2] = n[c] + 1 /\ answer[new] = "none"
    <2>1. <<c, n[c] + 1>> \in Mutations
      BY <1>3, MutationsTyped
    <2>2. answer[<<c, n[c] + 1>>] = "none"
      BY <1>1, <1>3, <2>1 DEF Numbered
    <2>3. QED
      BY <2>1, <2>2
  <1>5. /\ answer'[new] = "raised" /\ \A m \in Mutations \ {new} : answer'[m] = answer[m]
        /\ answer' \in [Mutations -> {"none", "pending", "returned", "raised", "unknown"}]
    BY <1>1, <1>2, <1>4 DEF TypeOK
  <1>6. FileTyped'
    BY <1>1, <1>2, NoneAssumption DEF TypeOK, FileTyped
  <1>7. CallersTyped' /\ Frame(c)
    BY <1>1, <1>2, <1>3, <1>4, <1>5 DEF TypeOK, CallersTyped, Frame
  <1>8. AnswersTrue'
    BY <1>1, <1>2, <1>4, <1>5, AnswersKept DEF IInv
  <1>9. Begun'
    <2>1. \A d \in within : writer = on[d] /\ on[d] # None
      BY <1>1, NoneAssumption DEF IInv, Begun, TypeOK
    <2>2. QED
      BY <1>2, <2>1 DEF Begun
  <1>10. Users(k)' = {c} /\ (~Mutating(c))'
    BY <1>1, <1>2 DEF Users, Mutating
  <1>11. Locked(k)' /\ Opened(k)'
    BY <1>1, <1>2, <1>10 DEF Locked, Opened, Mutating
  <1>12. Recorded(k)'
    <2>1. \A m \in Mutations : on[m[1]] = k /\ Unsettled(m) => Unsettled(m)'
      BY <1>1, <1>2, <1>4, <1>5 DEF Unsettled
    <2>2. ASSUME NEW s, s = journal[k] PROVE Finished(k, s)'
      BY <1>1, <1>2, <2>1, <2>2, FinishedKept
    <2>3. Finished(k, journal[k])'
      BY <1>2, <2>2
    <2>4. QED
      BY <1>1, <1>2, <1>10, <2>3 DEF Recorded
  <1>13. Expected(k)'
    BY <1>1, <1>2, <1>4, <1>5 DEF Expected
  <1>14. Numbered(c)'
    <2>1. \A m \in Mutations : m[2] \in Nat
      BY MutationsTyped
    <2>2. QED
      BY <1>1, <1>2, <1>3, <1>4, <1>5, <2>1 DEF Numbered
  <1>15. QED
    BY <1>1, <1>6, <1>7, <1>8, <1>9, <1>11, <1>12, <1>13, <1>14, AloneKept

\* The invitation store commits all that is open on the connection, or leaves it open.
LEMMA InviteCommitFacts ==
  ASSUME IInv, NEW c \in Callers, NEW k \in Conns, k = on[c], InviteCommit(c)
  PROVE  /\ TypeOK /\ ConnInv(k) /\ c \in Users(k) /\ Numbered(c) /\ Users(k) = {c}
         /\ step[c] = "commit" /\ k \in open /\ holder[k] = None
         /\ c \notin within /\ c \notin within'
         /\ Mark \notin ToSet(journal[k]) /\ Finished(k, journal[k])
         /\ Mine(c) \in Mutations /\ answer[Mine(c)] = "none"
         /\ Writes(Mine(c)) \subseteq ToSet(journal[k])
         /\ UNCHANGED <<on, holder, within, n>>
         /\ step'[c] = "idle" /\ \A d \in Callers \ {c} : step'[d] = step[d]
         /\ step' \in [Callers -> Steps]
         /\ Users(k)' = {c} /\ (~Mutating(c))'
         /\ \A m \in Mutations :
              /\ on[m[1]] = k => m[1] = c
              /\ m[1] = c => answer[m] # "pending"
  <1>1. /\ TypeOK /\ ConnInv(k) /\ c \in Users(k) /\ Numbered(c) /\ step[c] = "commit"
        /\ Go(c, "idle") /\ UNCHANGED <<on, holder, within, n>>
    BY DEF IInv, InviteCommit, Users, ConnInv
  <1>2. Users(k) = {c} /\ k \in open /\ c \notin within /\ ~Mutating(c)
    BY <1>1 DEF ConnInv, Locked, Mutating
  <1>3. holder[k] = None /\ Mark \notin ToSet(journal[k]) /\ Finished(k, journal[k])
    BY <1>1, <1>2 DEF ConnInv, Locked, Recorded
  <1>4. Mine(c) \in Mutations /\ Mine(c)[1] = c /\ answer[Mine(c)] = "none"
    BY <1>1, Numbers
  <1>5. Writes(Mine(c)) \subseteq ToSet(journal[k])
    BY <1>1, <1>4 DEF ConnInv, Expected
  <1>6. /\ step'[c] = "idle" /\ \A d \in Callers \ {c} : step'[d] = step[d]
        /\ step' \in [Callers -> Steps]
    BY <1>1, Goes DEF Steps
  <1>7. Users(k)' = {c} /\ (~Mutating(c))'
    BY <1>1, <1>2, <1>6 DEF Users, Mutating
  <1>8. \A m \in Mutations : on[m[1]] = k => m[1] = c
    BY <1>2, MutationsTyped DEF Users
  <1>9. \A m \in Mutations : m[1] = c => answer[m] # "pending"
    BY <1>1, <1>2 DEF ConnInv, Expected
  <1>10. QED
    BY <1>1, <1>2, <1>3, <1>4, <1>5, <1>6, <1>7, <1>8, <1>9

LEMMA InviteCommitKept ==
  ASSUME IInv, NEW c \in Callers, NEW k \in Conns, k = on[c], InviteCommit(c)
  PROVE  IInv'
  <1>1. /\ TypeOK /\ ConnInv(k) /\ c \in Users(k) /\ Numbered(c) /\ Users(k) = {c}
        /\ step[c] = "commit" /\ k \in open /\ holder[k] = None
        /\ c \notin within /\ c \notin within'
        /\ Mark \notin ToSet(journal[k]) /\ Finished(k, journal[k])
        /\ Mine(c) \in Mutations /\ answer[Mine(c)] = "none"
        /\ Writes(Mine(c)) \subseteq ToSet(journal[k])
        /\ UNCHANGED <<on, holder, within, n>>
        /\ step'[c] = "idle" /\ \A d \in Callers \ {c} : step'[d] = step[d]
        /\ step' \in [Callers -> Steps]
        /\ Users(k)' = {c} /\ (~Mutating(c))'
        /\ \A m \in Mutations :
             /\ on[m[1]] = k => m[1] = c
             /\ m[1] = c => answer[m] # "pending"
    BY InviteCommitFacts
  <1>2. CASE Committed(k) /\ Answers(c, "returned") /\ left' = left \ {k}
    <2>1. Closed(k) /\ db' = db \cup (ToSet(journal[k]) \ {Mark})
      BY <1>2 DEF Committed
    <2>2. /\ answer'[Mine(c)] = "returned"
          /\ \A m \in Mutations \ {Mine(c)} : answer'[m] = answer[m]
          /\ \A m \in Mutations : m[1] # c => answer'[m] = answer[m]
          /\ answer' \in [Mutations -> {"none", "pending", "returned", "raised", "unknown"}]
      BY <1>1, <1>2, AnswersOne
    <2>3. PICK added : added = ToSet(journal[k]) /\ db' = db \cup added /\ added \subseteq Pieces
      <3>1. ToSet(journal[k]) \subseteq Pieces
        BY <1>1, WithoutMark, ElementsTyped
      <3>2. QED
        BY <1>1, <2>1, <3>1
    <2>4. /\ FileTyped' /\ journal'[k] = <<>> /\ k \notin open'
          /\ \A j \in Conns \ {k} : journal'[j] = journal[j] /\ (j \in open' <=> j \in open)
      <3>1. db' \subseteq Pieces
        BY <1>1, <2>3 DEF TypeOK
      <3>2. QED
        BY <1>1, <1>2, <2>1, <3>1, ClosedFile
    <2>5. CallersTyped' /\ Frame(c)
      BY <1>1, <1>2, <2>2, <2>4 DEF TypeOK, CallersTyped, Frame
    <2>6. AnswersTrue'
      <3>1. ASSUME NEW m \in Mutations, Writes(m) \cap added # {}
            PROVE  Writes(m) \subseteq added /\ answer'[m] \in {"returned", "unknown"}
        <4>1. PICK i \in 1..2 : <<m, i>> \in added
          BY <3>1 DEF Writes
        <4>2. on[m[1]] = k /\ Writes(m) \subseteq added /\ Unsettled(m)
          BY <1>1, <2>3, <4>1 DEF Finished
        <4>3. m[1] = c
          BY <1>1, <4>2
        <4>4. answer[m] = "unknown" \/ m = Mine(c)
          BY <1>1, <4>2, <4>3 DEF Unsettled
        <4>5. QED
          BY <1>1, <2>2, <4>2, <4>4
      <3>2. ASSUME NEW m \in Mutations, answer'[m] # answer[m]
            PROVE  /\ answer[m] \in {"none", "pending"}
                   /\ answer'[m] = "returned" => Writes(m) \subseteq added
        BY <1>1, <2>2, <2>3, <3>2
      <3>3. QED
        BY <1>1, <2>3, <3>1, <3>2, AnswersCommitted DEF IInv
    <2>7. Recorded(k)'
      BY <1>1, <2>4, Elements DEF Recorded, Finished
    <2>8. Begun'
      BY <1>1, <2>1, BegunClosed DEF Users, TypeOK
    <2>9. QED
      BY <1>1, <2>2, <2>4, <2>5, <2>6, <2>7, <2>8, EndedKept
  <1>3. CASE Answers(c, "unknown") /\ left' = left \cup {k} /\ UNCHANGED file
    <2>1. /\ answer'[Mine(c)] = "unknown"
          /\ \A m \in Mutations \ {Mine(c)} : answer'[m] = answer[m]
          /\ \A m \in Mutations : m[1] # c => answer'[m] = answer[m]
          /\ answer' \in [Mutations -> {"none", "pending", "returned", "raised", "unknown"}]
      BY <1>1, <1>3, AnswersOne
    <2>2. UNCHANGED <<open, writer, journal, db>> /\ k \in left'
      BY <1>3 DEF file
    <2>3. FileTyped' /\ CallersTyped' /\ Frame(c)
      BY <1>1, <1>3, <2>1, <2>2 DEF TypeOK, FileTyped, CallersTyped, Frame
    <2>4. AnswersTrue'
      BY <1>1, <2>1, <2>2, AnswersKept DEF IInv
    <2>5. Recorded(k)'
      <3>1. \A m \in Mutations : on[m[1]] = k /\ Unsettled(m) => Unsettled(m)'
        BY <1>1, <2>1 DEF Unsettled
      <3>2. ASSUME NEW s, s = journal[k] PROVE Finished(k, s)'
        BY <1>1, <3>1, <3>2, FinishedKept
      <3>3. Finished(k, journal[k])'
        BY <2>2, <3>2
      <3>4. QED
        BY <1>1, <2>2, <3>3 DEF Recorded
    <2>6. Begun'
      BY <1>1, <2>2, BegunKept
    <2>7. QED
      BY <1>1, <2>1, <2>2, <2>3, <2>4, <2>5, <2>6, EndedKept
  <1>4. QED
    BY <1>2, <1>3 DEF InviteCommit

----------------------------------------------------------------------------
(* The invariant *)

LEMMA InitIInv == Init => IInv
  <1> SUFFICES ASSUME Init PROVE IInv
    OBVIOUS
  <1>1. TypeOK
    <2>1. 0 \in 0..MaxMutations
      BY NumbersTyped
    <2>2. <<>> \in Seq(Pieces \cup {Mark})
      BY EmptySeq
    <2>3. QED
      BY <2>1, <2>2 DEF Init, TypeOK, Steps
  <1>2. AnswersTrue
    BY DEF Init, AnswersTrue, Writes
  <1>3. Begun
    BY DEF Init, Begun
  <1>4. ASSUME NEW k \in Conns PROVE ConnInv(k)
    <2>1. \A c \in Users(k) : c \in Callers /\ step[c] = "idle" /\ ~Mutating(c)
      BY DEF Init, Users, Mutating
    <2>2. \A m \in Mutations : m[1] \in Callers
      BY MutationsTyped
    <2>3. Locked(k) /\ Opened(k)
      BY <2>1 DEF Init, Locked, Opened
    <2>4. Recorded(k)
      BY <2>1, Elements DEF Init, Recorded, Finished
    <2>5. Expected(k)
      BY <2>2 DEF Init, Expected
    <2>6. \A c \in Users(k) : Numbered(c)
      BY <2>1 DEF Init, Numbered
    <2>7. QED
      BY <2>3, <2>4, <2>5, <2>6 DEF ConnInv
  <1>5. QED
    BY <1>1, <1>2, <1>3, <1>4 DEF IInv

LEMMA StutterKept ==
  ASSUME IInv, UNCHANGED vars
  PROVE  IInv'
  <1>1. UNCHANGED <<on, holder, left, open, writer, journal, db, step, within, n, answer>>
    BY DEF vars, file
  <1>2. TypeOK' /\ AnswersTrue' /\ Begun'
    BY <1>1 DEF IInv, TypeOK, AnswersTrue, Begun
  <1>3. \A k \in Conns : Locked(k)' /\ Opened(k)' /\ Expected(k)'
    BY <1>1 DEF IInv, ConnInv, Locked, Opened, Expected, Users, Mutating, Mine
  <1>4. \A k : Users(k)' = Users(k) /\ \A s : Finished(k, s) => Finished(k, s)'
    BY <1>1 DEF Users, Finished, Unsettled, Mine
  <1>5. \A c : (Mutating(c)' <=> Mutating(c)) /\ Part(c)' = Part(c)
    BY <1>1 DEF Mutating, Part, Mine
  <1>6. ASSUME NEW k \in Conns PROVE Recorded(k)'
    <2>1. Recorded(k)
      BY DEF IInv, ConnInv
    <2>2. \A s, t : s = t /\ Finished(k, s) => Finished(k, t)'
      BY <1>4
    <2>3. (\A c \in Users(k) : ~Mutating(c)) =>
            Mark \notin ToSet(journal[k]) /\ Finished(k, journal[k])'
      BY <1>1, <2>1, <2>2 DEF Recorded
    <2>4. ASSUME NEW c \in Users(k), Mutating(c)
          PROVE  IF c \in within
                 THEN \E base \in Seq(Pieces) :
                        /\ journal[k] = (base \o <<Mark>>) \o Part(c)
                        /\ Finished(k, base)'
                 ELSE journal[k] = Part(c)
      BY <1>4, <2>1, <2>4 DEF Recorded
    <2>5. QED
      BY <1>1, <1>4, <1>5, <2>3, <2>4 DEF Recorded
  <1>7. \A c : Numbered(c) => Numbered(c)'
    BY <1>1 DEF Numbered, Mine
  <1>8. \A k \in Conns : ConnInv(k)'
    BY <1>3, <1>4, <1>6, <1>7 DEF IInv, ConnInv
  <1>9. QED
    BY <1>2, <1>8 DEF IInv

LEMMA StepIInv == IInv /\ [Next]_vars => IInv'
  <1> SUFFICES ASSUME IInv, [Next]_vars PROVE IInv'
    OBVIOUS
  <1>1. CASE UNCHANGED vars
    BY <1>1, StutterKept
  <1>2. CASE Next
    <2>1. PICK c \in Callers :
            \/ Call(c) \/ Acquire(c) \/ Refuse(c) \/ Savepoint(c)
            \/ Statement(c) \/ Fails(c) \/ Exit(c)
            \/ Begin(c) \/ CommitAll(c) \/ Rollback(c) \/ CommitRaises(c)
            \/ Invite(c) \/ InviteRaises(c) \/ InviteCommit(c)
      BY <1>2 DEF Next
    <2>2. PICK k \in Conns : k = on[c]
      BY DEF IInv, TypeOK
    <2>3. CASE Call(c)          BY <2>2, <2>3, CallKept
    <2>4. CASE Acquire(c)       BY <2>2, <2>4, AcquireKept
    <2>5. CASE Refuse(c)        BY <2>2, <2>5, RefuseKept
    <2>6. CASE Savepoint(c)     BY <2>2, <2>6, SavepointKept
    <2>7. CASE Statement(c)     BY <2>2, <2>7, StatementKept
    <2>8. CASE Fails(c)         BY <2>2, <2>8, FailsWithin, FailsAlone
    <2>9. CASE Exit(c)          BY <2>2, <2>9, ExitWithin, ExitAlone
    <2>10. CASE Begin(c)        BY <2>2, <2>10, BeginKept
    <2>11. CASE CommitAll(c)    BY <2>2, <2>11, CommitAllKept
    <2>12. CASE Rollback(c)     BY <2>2, <2>12, RollbackKept
    <2>13. CASE CommitRaises(c) BY <2>2, <2>13, CommitRaisesKept
    <2>14. CASE Invite(c)       BY <2>2, <2>14, InviteKept
    <2>15. CASE InviteRaises(c) BY <2>2, <2>15, InviteRaisesKept
    <2>16. CASE InviteCommit(c) BY <2>2, <2>16, InviteCommitKept
    <2>17. QED
      BY <2>1, <2>3, <2>4, <2>5, <2>6, <2>7, <2>8, <2>9, <2>10, <2>11, <2>12, <2>13, <2>14,
         <2>15, <2>16
  <1>3. QED
    BY <1>1, <1>2

\* What holds of every behaviour of the threads.
THEOREM Invariance == Spec => []IInv
  BY InitIInv, StepIInv, PTL DEF Spec

----------------------------------------------------------------------------
(* The theorems *)

\* The state of the threads, the connections and the file is of the types it should be,
\* and a transaction has writes only where it has the file's write lock.
THEOREM TypeCorrect == Spec => []TypeOK
  <1>1. IInv => TypeOK
    BY DEF IInv
  <1>2. QED
    BY <1>1, Invariance, PTL

\* A mutation, a savepoint or a transaction that has ended, well or by an exception,
\* leaves no lock and no savepoint, and no transaction but where a call that raised
\* left one (_Mutation.__exit__, ImmediateTransaction.__exit__).
THEOREM ConnectionsLeftClean == Spec => []CleanWhenIdle
  <1>1. IInv => CleanWhenIdle
    <2> SUFFICES ASSUME IInv, NEW k \in Conns,
                        \A c \in Callers : on[c] = k => step[c] \in {"idle", "wait"} /\ c \notin within
                 PROVE  /\ holder[k] = None
                        /\ k \in open => k \in left
                        /\ Mark \notin ToSet(journal[k])
      BY DEF CleanWhenIdle
    <2>1. ConnInv(k) /\ \A c \in Users(k) : step[c] \in {"idle", "wait"} /\ ~Mutating(c) /\ c \notin within
      BY DEF IInv, Users, Mutating
    <2>2. QED
      BY <2>1 DEF ConnInv, Locked, Opened, Recorded
  <1>2. QED
    BY <1>1, Invariance, PTL

\* What the stores told their callers is what the database holds, whichever statement,
\* commit or transaction failed: a mutation is there whole when it returned, and not at
\* all when it raised (_Mutation, ImmediateTransaction, SQLiteInvitationStore).
THEOREM AnswersAreTrue == Spec => []AnswersTrue
  <1>1. IInv => AnswersTrue
    BY DEF IInv
  <1>2. QED
    BY <1>1, Invariance, PTL
=============================================================================
