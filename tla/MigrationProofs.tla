--------------------------- MODULE MigrationProofs ---------------------------
(***************************************************************************)
(* Proofs about Migration, for every set of users, processes and stored    *)
(* databases: an upgrade loses no row of the tables it rebuilds, and what  *)
(* it commits is a database of the current version.                        *)
(***************************************************************************)
EXTENDS Migration, SequenceTheorems, TLAPS

----------------------------------------------------------------------------
(* The inductive invariant *)

\* What the steps have made of a user's row, in a table of this layout.
KeptRow(old, new, u, layout) ==
  \/ old = Null /\ new = Null
  \/ /\ old # Null /\ new # Null
     /\ new.name = IF layout = 2 THEN old.name
                   ELSE IF old.name = Null THEN u ELSE old.name
     /\ new.state = IF layout \in {2, 3} \/ old.state \notin {"enabled", "flagged"}
                    THEN old.state ELSE WithStatus(old).state

\* The rows of the database found at the beginning, old, as far as they were upgraded.
Kept(old, d) ==
  /\ \A u \in Users : KeptRow(old.user[u], d.user[u], u, d.users)
  /\ d.identities = old.identities /\ d.granted = old.granted
  /\ d.events = old.events
  /\ old.users # 2 => d.children = old.children /\ d.users # 2

\* A stamp of version 5 is on tables of version 5: true of the databases that hosts find
\* and create when they call create_tables on no unsupported layout.
Stamped(d) == d.version = SchemaVersion => d.users = 5
TrueStamps == "unsupported" \notin BootstrapStates /\ \A d \in Databases : Stamped(d)

Sound(d) == Inspect(d) = "current" /\ d.users = 5

\* The steps that a call has ahead of it, for the image they find.
Last(o) == IF o = "initialize" THEN <<"auth", "others">> ELSE <<>>

AuthAhead(o, pl, d) ==
  o = "initialize" /\ pl = <<"auth">> \o (UpgradePlan(d) \o Last(o)) /\ ~Refused(o, d)
StepsAhead(o, pl, d) == pl = UpgradeSteps(d) \o Last(o) /\ TablesPresent(d)
StampAhead(o, pl, d) ==
  pl = <<"stamp">> \o Last(o) /\ TablesPresent(d) /\ Modern(d) /\ d.users = 5
TablesAhead(o, pl, d) ==
  /\ pl = <<"create_tables">> \o Last(o)
  /\ TrueStamps => Inspect(d) \in {"empty", "current", "older"}
Upgraded(o, pl, d) ==
  pl \in {Last(o), <<"others">>, <<>>} /\ (TrueStamps => Sound(d))

Ahead(o, pl, d) ==
  \/ AuthAhead(o, pl, d) \/ StepsAhead(o, pl, d) \/ StampAhead(o, pl, d)
  \/ TablesAhead(o, pl, d) \/ Upgraded(o, pl, d)

\* A call that creates tables began on no layout that is unsupported.
Bootstraps(p) ==
  step[p] \in {"begin", "inspect"} /\ op[p] = "create_tables" => Inspect(stored) # "unsupported"

CallInv(p) ==
  /\ step[p] # "idle" => op[p] \in Operations
  /\ step[p] = "inspect" => image = stored /\ plan = <<>>
  /\ step[p] = "upgrade" => Ahead(op[p], plan, image)
  /\ TrueStamps => Bootstraps(p)

RowInv(old, d) == Fits(d) /\ Kept(old, d)
DataInv(old, d) == RowInv(old, d) /\ (TrueStamps => Stamped(d))

IInv ==
  /\ TypeOK
  /\ DataInv(origin, stored) /\ DataInv(origin, image)
  /\ \A p \in Processes : CallInv(p)

----------------------------------------------------------------------------
(* Plans *)

StepNames == {"auth", "rebuild_grants", "rebuild_audit", "v2_to_v3", "v3_to_v4", "v4_to_v5",
              "stamp", "create_tables", "others"}

LEMMA Cons ==
  ASSUME NEW S, NEW x \in S, NEW s \in Seq(S)
  PROVE  /\ <<x>> \o s \in Seq(S) /\ <<x>> \o s # <<>>
         /\ Head(<<x>> \o s) = x /\ Tail(<<x>> \o s) = s
  <1>1. <<x>> \in Seq(S) /\ Len(<<x>>) = 1 /\ Len(s) \in Nat /\ <<x>>[1] = x
    BY LenProperties
  <1>2. /\ <<x>> \o s \in Seq(S) /\ Len(<<x>> \o s) = 1 + Len(s)
        /\ \A i \in 1 .. 1 + Len(s) : (<<x>> \o s)[i] = IF i <= 1 THEN <<x>>[i] ELSE s[i - 1]
    BY <1>1, ConcatProperties
  <1>3. <<x>> \o s # <<>>
    BY <1>1, <1>2, EmptySeq
  <1>4. /\ Head(<<x>> \o s) = (<<x>> \o s)[1] /\ Tail(<<x>> \o s) \in Seq(S)
        /\ Len(Tail(<<x>> \o s)) = Len(<<x>> \o s) - 1
        /\ \A i \in 1 .. Len(Tail(<<x>> \o s)) : Tail(<<x>> \o s)[i] = (<<x>> \o s)[i + 1]
    BY <1>2, <1>3, HeadTailProperties
  <1>5. Head(<<x>> \o s) = x
    BY <1>1, <1>2, <1>4
  <1>6. \A i \in 1..Len(s) : Tail(<<x>> \o s)[i] = s[i]
    <2>1. SUFFICES ASSUME NEW i \in 1..Len(s) PROVE Tail(<<x>> \o s)[i] = s[i]
      OBVIOUS
    <2>2. i \in 1..Len(Tail(<<x>> \o s)) /\ i + 1 \in 1..(1 + Len(s)) /\ ~(i + 1 <= 1)
          /\ (i + 1) - 1 = i
      BY <1>1, <1>2, <1>4
    <2>3. QED
      BY <1>2, <1>4, <2>2
  <1>7. Len(Tail(<<x>> \o s)) = Len(s)
    BY <1>1, <1>2, <1>4
  <1>8. Tail(<<x>> \o s) = s
    BY <1>4, <1>6, <1>7, SeqEqual
  <1>9. QED
    BY <1>2, <1>3, <1>5, <1>8

\* Plans and their concatenation, as an algebra: the provers are lost in long chains of \o.
Plans == Seq(StepNames)
Cat(s, t) == s \o t

LEMMA PlansJoined ==
  \A s, t, u \in Seq(StepNames) :
    s \o t \in Seq(StepNames) /\ (s \o t) \o u = s \o (t \o u)
  BY ConcatProperties, ConcatAssociative

LEMMA Algebra ==
  /\ <<>> \in Plans /\ \A x \in StepNames : <<x>> \in Plans
  /\ \A s, t, u \in Plans : Cat(s, t) \in Plans /\ Cat(Cat(s, t), u) = Cat(s, Cat(t, u))
  /\ \A s \in Plans : Cat(<<>>, s) = s /\ Cat(s, <<>>) = s
  /\ \A x \in StepNames, s \in Plans :
       Cat(<<x>>, s) # <<>> /\ Head(Cat(<<x>>, s)) = x /\ Tail(Cat(<<x>>, s)) = s
  <1>1. <<>> \in Plans /\ \A x \in StepNames : <<x>> \in Plans
    BY DEF Plans
  <1>2. \A s, t, u \in Plans : Cat(s, t) \in Plans /\ Cat(Cat(s, t), u) = Cat(s, Cat(t, u))
    BY PlansJoined DEF Plans, Cat
  <1>3. \A s \in Plans : Cat(<<>>, s) = s /\ Cat(s, <<>>) = s
    BY ConcatEmptySeq DEF Plans, Cat
  <1>4. \A x \in StepNames, s \in Plans :
          Cat(<<x>>, s) # <<>> /\ Head(Cat(<<x>>, s)) = x /\ Tail(Cat(<<x>>, s)) = s
    BY Cons DEF Plans, Cat
  <1>5. QED
    BY <1>1, <1>2, <1>3, <1>4

\* A plan in its order: each part is there or not, and the stamp is always there.
Option(w, x) == w = <<>> \/ w = <<x>>
Leads(q, x, s) == q # <<>> /\ Head(q) = x /\ Tail(q) = s

Stamping == <<"stamp">>
Chain(w1, w2, w3, w4, w5) == Cat(Cat(Cat(Cat(Cat(w1, w2), w3), w4), w5), Stamping)
Nested(w1, w2, w3, w4, w5, s) == Cat(w1, Cat(w2, Cat(w3, Cat(w4, Cat(w5, s)))))

LEMMA Names ==
  {"rebuild_grants", "rebuild_audit", "v2_to_v3", "v3_to_v4", "v4_to_v5", "stamp", "auth",
   "create_tables", "others"} = StepNames
  BY DEF StepNames

LEMMA Part ==
  ASSUME NEW x \in StepNames, NEW w, NEW s \in Plans, Option(w, x)
  PROVE  /\ w \in Plans /\ Cat(w, s) \in Plans
         /\ w = <<>> => Cat(w, s) = s
         /\ w # <<>> => Leads(Cat(w, s), x, s)
  <1>1. CASE w = <<>>
    BY <1>1, Algebra
  <1>2. CASE w = <<x>>
    <2>1. w # <<>>
      BY <1>2
    <2>2. w \in Plans /\ Cat(w, s) \in Plans
      BY <1>2, Algebra
    <2>3. Leads(Cat(w, s), x, s)
      BY <1>2, Algebra DEF Leads
    <2>4. QED
      BY <2>1, <2>2, <2>3
  <1>3. QED
    BY <1>1, <1>2 DEF Option

LEMMA Regrouped ==
  ASSUME NEW a \in Plans, NEW b \in Plans, NEW c \in Plans, NEW d \in Plans, NEW e \in Plans,
         NEW f \in Plans, NEW last \in Plans
  PROVE  Cat(Cat(Cat(Cat(Cat(Cat(a, b), c), d), e), f), last)
           = Cat(a, Cat(b, Cat(c, Cat(d, Cat(e, Cat(f, last))))))
  <1>1. \A s, t, u \in Plans : Cat(s, t) \in Plans /\ Cat(Cat(s, t), u) = Cat(s, Cat(t, u))
    BY Algebra
  <1>2. PICK x2 \in Plans : x2 = Cat(a, b)
    BY <1>1
  <1>3. PICK x3 \in Plans : x3 = Cat(x2, c)
    BY <1>1
  <1>4. PICK x4 \in Plans : x4 = Cat(x3, d)
    BY <1>1
  <1>5. PICK x5 \in Plans : x5 = Cat(x4, e)
    BY <1>1
  <1>6. PICK y6 \in Plans : y6 = Cat(f, last)
    BY <1>1
  <1>7. PICK y5 \in Plans : y5 = Cat(e, y6)
    BY <1>1
  <1>8. PICK y4 \in Plans : y4 = Cat(d, y5)
    BY <1>1
  <1>9. PICK y3 \in Plans : y3 = Cat(c, y4)
    BY <1>1
  <1>10. Cat(Cat(x5, f), last) = Cat(x5, y6)
    BY <1>1, <1>6
  <1>11. Cat(x5, y6) = Cat(x4, y5)
    BY <1>1, <1>5, <1>7
  <1>12. Cat(x4, y5) = Cat(x3, y4)
    BY <1>1, <1>4, <1>8
  <1>13. Cat(x3, y4) = Cat(x2, y3)
    BY <1>1, <1>3, <1>9
  <1>14. Cat(x2, y3) = Cat(a, Cat(b, y3))
    BY <1>1, <1>2
  <1>15. QED
    BY <1>2, <1>3, <1>4, <1>5, <1>6, <1>7, <1>8, <1>9, <1>10, <1>11, <1>12, <1>13, <1>14

LEMMA Ordered ==
  \A a, b, c, d, e, last : {a, b, c, d, e, last} \subseteq Plans =>
    Cat(Chain(a, b, c, d, e), last) = Nested(a, b, c, d, e, Cat(Stamping, last))
  <1>1. SUFFICES ASSUME NEW a \in Plans, NEW b \in Plans, NEW c \in Plans, NEW d \in Plans,
                        NEW e \in Plans, NEW last \in Plans
                 PROVE  Cat(Chain(a, b, c, d, e), last)
                          = Nested(a, b, c, d, e, Cat(Stamping, last))
    OBVIOUS
  <1>2. PICK f \in Plans : f = Stamping
    BY Algebra DEF StepNames, Stamping
  <1>3. Cat(Cat(Cat(Cat(Cat(Cat(a, b), c), d), e), f), last)
          = Cat(a, Cat(b, Cat(c, Cat(d, Cat(e, Cat(f, last))))))
    BY Regrouped, SMTT(60)
  <1>4. QED
    BY <1>2, <1>3 DEF Chain, Nested

LEMMA ChainParts ==
  ASSUME NEW w1 \in Plans, NEW w2 \in Plans, NEW w3 \in Plans, NEW w4 \in Plans,
         NEW w5 \in Plans, NEW last \in Plans
  PROVE  \E r2, r3, r4, r5 \in Plans :
           LET none == <<>>
               Rest == Cat(Stamping, last)
           IN  /\ r5 = Cat(w5, Rest) /\ r4 = Cat(w4, r5) /\ r3 = Cat(w3, r4) /\ r2 = Cat(w2, r3)
               /\ Cat(Chain(w1, w2, w3, w4, w5), last) = Cat(w1, r2)
               /\ Cat(Chain(none, w2, w3, w4, w5), last) = r2
               /\ Cat(Chain(none, none, w3, w4, w5), last) = r3
               /\ Cat(Chain(none, none, none, w4, w5), last) = r4
               /\ Cat(Chain(none, none, none, none, w5), last) = r5
  <1>1. PICK no \in Plans : no = <<>> /\ \A s \in Plans : Cat(no, s) = s
    BY Algebra
  <1>2. PICK rest \in Plans : rest = Cat(Stamping, last)
    BY Algebra DEF StepNames, Stamping
  <1>3. \A s, t \in Plans : Cat(s, t) \in Plans
    BY Algebra
  <1>4. PICK r5 \in Plans : r5 = Cat(w5, rest)
    BY <1>3
  <1>5. PICK r4 \in Plans : r4 = Cat(w4, r5)
    BY <1>3
  <1>6. PICK r3 \in Plans : r3 = Cat(w3, r4)
    BY <1>3
  <1>7. PICK r2 \in Plans : r2 = Cat(w2, r3)
    BY <1>3
  <1>8. /\ Nested(w1, w2, w3, w4, w5, rest) = Cat(w1, r2)
        /\ Nested(no, w2, w3, w4, w5, rest) = r2
        /\ Nested(no, no, w3, w4, w5, rest) = r3
        /\ Nested(no, no, no, w4, w5, rest) = r4
        /\ Nested(no, no, no, no, w5, rest) = r5
    BY <1>1, <1>4, <1>5, <1>6, <1>7 DEF Nested
  <1>9. /\ Cat(Chain(w1, w2, w3, w4, w5), last) = Nested(w1, w2, w3, w4, w5, rest)
        /\ Cat(Chain(no, w2, w3, w4, w5), last) = Nested(no, w2, w3, w4, w5, rest)
        /\ Cat(Chain(no, no, w3, w4, w5), last) = Nested(no, no, w3, w4, w5, rest)
        /\ Cat(Chain(no, no, no, w4, w5), last) = Nested(no, no, no, w4, w5, rest)
        /\ Cat(Chain(no, no, no, no, w5), last) = Nested(no, no, no, no, w5, rest)
    <2>1. \A a, b, c, d, e, l : {a, b, c, d, e, l} \subseteq Plans =>
            Cat(Chain(a, b, c, d, e), l) = Nested(a, b, c, d, e, Cat(Stamping, l))
      BY Ordered
    <2>2. Cat(Chain(w1, w2, w3, w4, w5), last) = Nested(w1, w2, w3, w4, w5, rest)
      BY <1>2, <2>1
    <2>3. Cat(Chain(no, w2, w3, w4, w5), last) = Nested(no, w2, w3, w4, w5, rest)
      BY <1>2, <2>1
    <2>4. Cat(Chain(no, no, w3, w4, w5), last) = Nested(no, no, w3, w4, w5, rest)
      BY <1>2, <2>1
    <2>5. Cat(Chain(no, no, no, w4, w5), last) = Nested(no, no, no, w4, w5, rest)
      BY <1>2, <2>1
    <2>6. Cat(Chain(no, no, no, no, w5), last) = Nested(no, no, no, no, w5, rest)
      BY <1>2, <2>1
    <2>7. QED
      BY <2>2, <2>3, <2>4, <2>5, <2>6
  <1>10. QED
    BY <1>1, <1>2, <1>4, <1>5, <1>6, <1>7, <1>8, <1>9

\* What a plan begins with, and what is then left of it.
LEMMA ChainSteps ==
  ASSUME NEW w1, NEW w2, NEW w3, NEW w4, NEW w5, NEW last \in Plans,
         Option(w1, "rebuild_grants"), Option(w2, "rebuild_audit"), Option(w3, "v2_to_v3"),
         Option(w4, "v3_to_v4"), Option(w5, "v4_to_v5")
  PROVE  LET q == Cat(Chain(w1, w2, w3, w4, w5), last)
             none == <<>>
         IN  /\ w1 # none => Leads(q, "rebuild_grants", Cat(Chain(none, w2, w3, w4, w5), last))
             /\ w1 = none /\ w2 # none =>
                  Leads(q, "rebuild_audit", Cat(Chain(none, none, w3, w4, w5), last))
             /\ w1 = none /\ w2 = none /\ w3 # none =>
                  Leads(q, "v2_to_v3", Cat(Chain(none, none, none, w4, w5), last))
             /\ w1 = none /\ w2 = none /\ w3 = none /\ w4 # none =>
                  Leads(q, "v3_to_v4", Cat(Chain(none, none, none, none, w5), last))
             /\ w1 = none /\ w2 = none /\ w3 = none /\ w4 = none /\ w5 # none =>
                  Leads(q, "v4_to_v5", Cat(<<"stamp">>, last))
             /\ w1 = none /\ w2 = none /\ w3 = none /\ w4 = none /\ w5 = none =>
                  Leads(q, "stamp", last)
  <1> DEFINE Takes(x) == \A w, s : Option(w, x) /\ s \in Plans =>
                           /\ w \in Plans /\ Cat(w, s) \in Plans
                           /\ w = <<>> => Cat(w, s) = s
                           /\ w # <<>> => Leads(Cat(w, s), x, s)
  <1>1. /\ Takes("rebuild_grants") /\ Takes("rebuild_audit") /\ Takes("v2_to_v3")
        /\ Takes("v3_to_v4") /\ Takes("v4_to_v5")
    <2>1. SUFFICES ASSUME NEW x \in StepNames PROVE Takes(x)
      BY DEF StepNames
    <2>2. QED
      BY Part
  <1>2. PICK rest \in Plans : rest = Cat(Stamping, last) /\ Leads(rest, "stamp", last)
    <2>1. "stamp" \in StepNames
      BY DEF StepNames
    <2>2. <<"stamp">> \in Plans /\ Cat(<<"stamp">>, last) \in Plans
          /\ Leads(Cat(<<"stamp">>, last), "stamp", last)
      BY <2>1, Algebra DEF Leads
    <2>3. QED
      BY <2>2 DEF Stamping
  <1>3. PICK r2, r3, r4, r5 \in Plans :
          /\ r5 = Cat(w5, Cat(Stamping, last)) /\ r4 = Cat(w4, r5) /\ r3 = Cat(w3, r4)
          /\ r2 = Cat(w2, r3)
          /\ Cat(Chain(w1, w2, w3, w4, w5), last) = Cat(w1, r2)
          /\ Cat(Chain(<<>>, w2, w3, w4, w5), last) = r2
          /\ Cat(Chain(<<>>, <<>>, w3, w4, w5), last) = r3
          /\ Cat(Chain(<<>>, <<>>, <<>>, w4, w5), last) = r4
          /\ Cat(Chain(<<>>, <<>>, <<>>, <<>>, w5), last) = r5
    <2>1. w1 \in Plans /\ w2 \in Plans /\ w3 \in Plans /\ w4 \in Plans /\ w5 \in Plans
      BY <1>1, <1>2
    <2>2. QED
      BY <2>1, ChainParts
  <1>4. /\ w1 # <<>> => Leads(Cat(w1, r2), "rebuild_grants", r2)
        /\ w1 = <<>> => Cat(w1, r2) = r2
        /\ w2 # <<>> => Leads(r2, "rebuild_audit", r3)
        /\ w2 = <<>> => r2 = r3
        /\ w3 # <<>> => Leads(r3, "v2_to_v3", r4)
        /\ w3 = <<>> => r3 = r4
        /\ w4 # <<>> => Leads(r4, "v3_to_v4", r5)
        /\ w4 = <<>> => r4 = r5
        /\ w5 # <<>> => Leads(r5, "v4_to_v5", rest)
        /\ w5 = <<>> => r5 = rest
    BY <1>1, <1>2, <1>3
  <1>5. QED
    BY <1>2, <1>3, <1>4 DEF Stamping

\* The steps of _upgrade_um_schema_to_current.
GrantsStep(d) == When(LegacyGrants(d), "rebuild_grants")
AuditStep(d) == When(LegacyAudit(d), "rebuild_audit")
V3Step(d) == When(d.users = 2, "v2_to_v3")
V4Step(d) == When(d.users \in {2, 3}, "v3_to_v4")
V5Step(d) == When(d.version # SchemaVersion, "v4_to_v5")

LEMMA Chained ==
  ASSUME NEW d, NEW last
  PROVE  UpgradeSteps(d) \o last =
           Cat(Chain(GrantsStep(d), AuditStep(d), V3Step(d), V4Step(d), V5Step(d)), last)
  BY DEF UpgradeSteps, Chain, Cat, Stamping, GrantsStep, AuditStep, V3Step, V4Step, V5Step

LEMMA StepsOptional ==
  ASSUME NEW d
  PROVE  /\ Option(GrantsStep(d), "rebuild_grants") /\ Option(AuditStep(d), "rebuild_audit")
         /\ Option(V3Step(d), "v2_to_v3") /\ Option(V4Step(d), "v3_to_v4")
         /\ Option(V5Step(d), "v4_to_v5")
         /\ (GrantsStep(d) = <<>>) <=> ~LegacyGrants(d)
         /\ (AuditStep(d) = <<>>) <=> ~LegacyAudit(d)
         /\ (V3Step(d) = <<>>) <=> d.users # 2
         /\ (V4Step(d) = <<>>) <=> d.users \notin {2, 3}
         /\ (V5Step(d) = <<>>) <=> d.version = SchemaVersion
  <1>1. /\ Option(GrantsStep(d), "rebuild_grants") /\ Option(AuditStep(d), "rebuild_audit")
        /\ Option(V3Step(d), "v2_to_v3") /\ Option(V4Step(d), "v3_to_v4")
        /\ Option(V5Step(d), "v4_to_v5")
    BY DEF When, Option, GrantsStep, AuditStep, V3Step, V4Step, V5Step
  <1>2. /\ (GrantsStep(d) = <<>>) <=> ~LegacyGrants(d)
        /\ (AuditStep(d) = <<>>) <=> ~LegacyAudit(d)
        /\ (V3Step(d) = <<>>) <=> d.users # 2
        /\ (V4Step(d) = <<>>) <=> d.users \notin {2, 3}
        /\ (V5Step(d) = <<>>) <=> d.version = SchemaVersion
    <2>1. \A x : <<x>> # <<>>
      OBVIOUS
    <2>2. QED
      BY <2>1 DEF When, GrantsStep, AuditStep, V3Step, V4Step, V5Step
  <1>3. QED
    BY <1>1, <1>2

LEMMA PlanSteps ==
  ASSUME NEW d, NEW last \in Plans
  PROVE  LET q == UpgradeSteps(d) \o last
             none == <<>>
         IN  /\ LegacyGrants(d) =>
                  Leads(q, "rebuild_grants",
                        Cat(Chain(none, AuditStep(d), V3Step(d), V4Step(d), V5Step(d)), last))
             /\ ~LegacyGrants(d) /\ LegacyAudit(d) =>
                  Leads(q, "rebuild_audit",
                        Cat(Chain(none, none, V3Step(d), V4Step(d), V5Step(d)), last))
             /\ ~LegacyGrants(d) /\ ~LegacyAudit(d) =>
                  /\ d.users = 2 =>
                       Leads(q, "v2_to_v3",
                             Cat(Chain(none, none, none, V4Step(d), V5Step(d)), last))
                  /\ d.users = 3 =>
                       Leads(q, "v3_to_v4",
                             Cat(Chain(none, none, none, none, V5Step(d)), last))
                  /\ d.users \notin {2, 3} =>
                       /\ d.version # SchemaVersion =>
                            Leads(q, "v4_to_v5", Cat(<<"stamp">>, last))
                       /\ d.version = SchemaVersion => Leads(q, "stamp", last)
  <1>1. PICK w1, w2, w3, w4, w5 :
          /\ w1 = GrantsStep(d) /\ w2 = AuditStep(d) /\ w3 = V3Step(d) /\ w4 = V4Step(d)
          /\ w5 = V5Step(d)
    OBVIOUS
  <1>2. /\ Option(w1, "rebuild_grants") /\ Option(w2, "rebuild_audit")
        /\ Option(w3, "v2_to_v3") /\ Option(w4, "v3_to_v4") /\ Option(w5, "v4_to_v5")
    BY <1>1, StepsOptional
  <1> DEFINE q == Cat(Chain(w1, w2, w3, w4, w5), last)
  <1>3. /\ w1 # <<>> => Leads(q, "rebuild_grants", Cat(Chain(<<>>, w2, w3, w4, w5), last))
        /\ w1 = <<>> /\ w2 # <<>> =>
             Leads(q, "rebuild_audit", Cat(Chain(<<>>, <<>>, w3, w4, w5), last))
        /\ w1 = <<>> /\ w2 = <<>> /\ w3 # <<>> =>
             Leads(q, "v2_to_v3", Cat(Chain(<<>>, <<>>, <<>>, w4, w5), last))
        /\ w1 = <<>> /\ w2 = <<>> /\ w3 = <<>> /\ w4 # <<>> =>
             Leads(q, "v3_to_v4", Cat(Chain(<<>>, <<>>, <<>>, <<>>, w5), last))
        /\ w1 = <<>> /\ w2 = <<>> /\ w3 = <<>> /\ w4 = <<>> /\ w5 # <<>> =>
             Leads(q, "v4_to_v5", Cat(<<"stamp">>, last))
        /\ w1 = <<>> /\ w2 = <<>> /\ w3 = <<>> /\ w4 = <<>> /\ w5 = <<>> =>
             Leads(q, "stamp", last)
    BY <1>2, ChainSteps
  <1> HIDE DEF q
  <1>4. UpgradeSteps(d) \o last = q
    BY <1>1, Chained DEF q
  <1>5. /\ (w1 = <<>>) <=> ~LegacyGrants(d)
        /\ (w2 = <<>>) <=> ~LegacyAudit(d)
        /\ (w3 = <<>>) <=> d.users # 2
        /\ (w4 = <<>>) <=> d.users \notin {2, 3}
        /\ (w5 = <<>>) <=> d.version = SchemaVersion
    BY <1>1, StepsOptional
  <1>6. QED
    BY <1>1, <1>3, <1>4, <1>5

LEMMA LastTyped ==
  ASSUME NEW o
  PROVE  /\ Last(o) \in Plans
         /\ o # "initialize" => Last(o) = <<>>
         /\ o = "initialize" =>
              Last(o) # <<>> /\ Head(Last(o)) = "auth" /\ Tail(Last(o)) = <<"others">>
         /\ <<"others">> # <<>> /\ Head(<<"others">>) = "others" /\ Tail(<<"others">>) = <<>>
  <1>1. <<>> \in Seq(StepNames) /\ <<"auth", "others">> \in Seq(StepNames)
    BY DEF StepNames
  <1>2. /\ <<"auth", "others">> # <<>> /\ Head(<<"auth", "others">>) = "auth"
        /\ Tail(<<"auth", "others">>) = <<"others">>
        /\ <<"others">> # <<>> /\ Head(<<"others">>) = "others" /\ Tail(<<"others">>) = <<>>
    OBVIOUS
  <1>3. QED
    BY <1>1, <1>2 DEF Last, Plans

----------------------------------------------------------------------------
(* What the steps do *)

\* The image e that a step makes of d: what it changes, and what no step touches.
Becomes(d, e, version, users, grants, audit, user, children) ==
  /\ e \in DatabaseType
  /\ e.version = version /\ e.users = users /\ e.grants = grants /\ e.audit = audit
  /\ e.user = user /\ e.children = children
  /\ e.identities = d.identities /\ e.granted = d.granted /\ e.events = d.events

Statuses(d) == [u \in Users |-> IF d.user[u] = Null THEN Null ELSE WithStatus(d.user[u])]

LEMMA RowsTyped ==
  ASSUME NEW d \in DatabaseType
  PROVE  /\ Normalised(d) \in [Users -> UserRows \cup {Null}]
         /\ Statuses(d) \in [Users -> UserRows \cup {Null}]
  <1>1. d.user \in [Users -> UserRows \cup {Null}]
    BY DEF DatabaseType
  <1>2. ASSUME NEW u \in Users, d.user[u] # Null
        PROVE  [d.user[u] EXCEPT !.name = u] \in UserRows /\ WithStatus(d.user[u]) \in UserRows
    BY <1>1, <1>2 DEF UserRows, WithStatus
  <1>3. QED
    BY <1>1, <1>2 DEF Normalised, Statuses

LEMMA RebuildsTables ==
  ASSUME NEW d \in DatabaseType
  PROVE  /\ Becomes(d, RebuildGrantsTable(d), d.version, d.users, "modern", d.audit, d.user,
                    d.children)
         /\ Becomes(d, RebuildAuditTable(d), d.version, d.users, d.grants, "modern", d.user,
                    d.children)
         /\ Becomes(d, [d EXCEPT !.auth = "current"], d.version, d.users, d.grants, d.audit,
                    d.user, d.children)
         /\ Becomes(d, [d EXCEPT !.others = TRUE], d.version, d.users, d.grants, d.audit,
                    d.user, d.children)
  <1>1. Becomes(d, RebuildGrantsTable(d), d.version, d.users, "modern", d.audit, d.user,
                d.children)
    BY DEF Becomes, RebuildGrantsTable, DatabaseType
  <1>2. Becomes(d, RebuildAuditTable(d), d.version, d.users, d.grants, "modern", d.user,
                d.children)
    BY DEF Becomes, RebuildAuditTable, DatabaseType
  <1>3. Becomes(d, [d EXCEPT !.auth = "current"], d.version, d.users, d.grants, d.audit,
                d.user, d.children)
    BY DEF Becomes, DatabaseType
  <1>4. Becomes(d, [d EXCEPT !.others = TRUE], d.version, d.users, d.grants, d.audit,
                d.user, d.children)
    BY DEF Becomes, DatabaseType
  <1>5. QED
    BY <1>1, <1>2, <1>3, <1>4

LEMMA RebuildsUsers ==
  ASSUME NEW d \in DatabaseType
  PROVE  /\ Becomes(d, UsersV2ToV3(d), d.version, 3, d.grants, d.audit, Normalised(d), {})
         /\ Becomes(d, UsersV3ToV4(d), d.version, 4, d.grants, d.audit, Statuses(d), d.children)
         /\ Becomes(d, UsersV4ToV5(d), d.version, 5, d.grants, d.audit, d.user, d.children)
  <1>1. /\ 3 \in {Missing} \cup 2..5 /\ 4 \in {Missing} \cup 2..5 /\ 5 \in {Missing} \cup 2..5
        /\ {} \in SUBSET Users
    BY DEF Missing
  <1>2. PICK user \in [Users -> UserRows \cup {Null}] : user = Normalised(d)
    BY RowsTyped
  <1>3. PICK user4 \in [Users -> UserRows \cup {Null}] : user4 = Statuses(d)
    BY RowsTyped
  <1>4. Becomes(d, UsersV2ToV3(d), d.version, 3, d.grants, d.audit, Normalised(d), {})
    <2>1. UsersV2ToV3(d) = [d EXCEPT !.users = 3, !.user = user, !.children = {}]
      BY <1>2 DEF UsersV2ToV3, Dropped, DatabaseType
    <2>2. QED
      BY <1>1, <1>2, <2>1 DEF Becomes, DatabaseType
  <1>5. Becomes(d, UsersV3ToV4(d), d.version, 4, d.grants, d.audit, Statuses(d), d.children)
    <2>1. UsersV3ToV4(d) = [d EXCEPT !.users = 4, !.user = user4]
      BY <1>3 DEF UsersV3ToV4, Statuses
    <2>2. QED
      BY <1>1, <1>3, <2>1 DEF Becomes, DatabaseType
  <1>6. Becomes(d, UsersV4ToV5(d), d.version, 5, d.grants, d.audit, d.user, d.children)
    <2>1. UsersV4ToV5(d) = [d EXCEPT !.users = 5]
      BY DEF UsersV4ToV5, Dropped, DatabaseType
    <2>2. QED
      BY <1>1, <2>1 DEF Becomes, DatabaseType
  <1>7. QED
    BY <1>4, <1>5, <1>6

LEMMA CreatesTables ==
  ASSUME NEW d \in DatabaseType
  PROVE  LET users == IF d.users = Missing THEN 5 ELSE d.users
             grants == IF d.grants = "missing" THEN "modern" ELSE d.grants
             audit == IF d.audit = "missing" THEN "modern" ELSE d.audit
         IN  /\ Becomes(d, CreateTables(d), IF d.version = Missing THEN 5 ELSE d.version,
                        users, grants, audit, d.user, d.children)
             /\ Becomes(d, Stamp(d), 5, users, grants, audit, d.user, d.children)
  <1> DEFINE users == IF d.users = Missing THEN 5 ELSE d.users
             grants == IF d.grants = "missing" THEN "modern" ELSE d.grants
             audit == IF d.audit = "missing" THEN "modern" ELSE d.audit
             version == IF d.version = Missing THEN 5 ELSE d.version
  <1>1. /\ users \in {Missing} \cup 2..5 /\ grants \in {"missing", "legacy", "modern"}
        /\ audit \in {"missing", "legacy", "modern"} /\ version \in {Missing} \cup 1..5
        /\ 5 \in {Missing} \cup 1..5
    BY DEF DatabaseType, Missing
  <1>2. CreateTables(d) = [d EXCEPT !.version = version, !.users = users, !.grants = grants,
                                    !.audit = audit]
    BY DEF CreateTables, SchemaVersion, DatabaseType
  <1> HIDE DEF users, grants, audit, version
  <1>3. Becomes(d, CreateTables(d), version, users, grants, audit, d.user, d.children)
    BY <1>1, <1>2 DEF Becomes, DatabaseType
  <1>4. Becomes(d, Stamp(d), 5, users, grants, audit, d.user, d.children)
    <2>1. Stamp(d) = [CreateTables(d) EXCEPT !.version = 5]
      BY DEF Stamp, SchemaVersion
    <2>2. QED
      BY <1>1, <1>3, <2>1 DEF Becomes, DatabaseType
  <1>5. QED
    BY <1>3, <1>4 DEF users, grants, audit, version

----------------------------------------------------------------------------
(* The rows through the steps *)

LEMMA SameRows ==
  ASSUME NEW old \in DatabaseType, NEW d \in DatabaseType, NEW e, NEW version, NEW grants, NEW audit,
         RowInv(old, d), Becomes(d, e, version, d.users, grants, audit, d.user, d.children)
  PROVE  RowInv(old, e)
  BY DEF RowInv, Fits, Present, Kept, Becomes

LEMMA RowsToV3 ==
  ASSUME NEW old \in DatabaseType, NEW d \in DatabaseType, NEW e, NEW version, NEW grants, NEW audit,
         RowInv(old, d), d.users = 2,
         Becomes(d, e, version, 3, grants, audit, Normalised(d), {})
  PROVE  RowInv(old, e)
  <1>1. d.user \in [Users -> UserRows \cup {Null}]
    BY DEF DatabaseType
  <1>2. ASSUME NEW u \in Users
        PROVE  /\ KeptRow(old.user[u], e.user[u], u, 3)
               /\ e.user[u] # Null => /\ e.user[u].name # Null
                                      /\ e.user[u].state \in {"enabled", "flagged"}
    <2>1. CASE d.user[u] = Null
      BY <2>1 DEF Becomes, Normalised, RowInv, Kept, KeptRow
    <2>2. CASE d.user[u] # Null
      <3>1. d.user[u] \in UserRows /\ d.user[u].state \in {"enabled", "flagged"}
        BY <1>1, <2>2 DEF RowInv, Fits, Present
      <3>2. /\ e.user[u] \in UserRows
            /\ e.user[u].state = d.user[u].state
            /\ e.user[u].name = IF d.user[u].name = Null THEN u ELSE d.user[u].name
        BY <2>2, <3>1 DEF Becomes, Normalised, UserRows
      <3>3. /\ old.user[u] # Null /\ d.user[u].name = old.user[u].name
            /\ d.user[u].state = old.user[u].state
        BY <2>2 DEF RowInv, Kept, KeptRow
      <3>4. e.user[u] # Null /\ u # Null
        BY <3>2, NullAssumption, NamesAssumption
      <3>5. QED
        BY <3>1, <3>2, <3>3, <3>4 DEF KeptRow
    <2>3. QED
      BY <2>1, <2>2
  <1>3. QED
    BY <1>2 DEF RowInv, Fits, Present, Kept, Becomes, Missing

LEMMA RowsToV4 ==
  ASSUME NEW old \in DatabaseType, NEW d \in DatabaseType, NEW e, NEW version, NEW grants, NEW audit,
         RowInv(old, d), d.users = 3,
         Becomes(d, e, version, 4, grants, audit, Statuses(d), d.children)
  PROVE  RowInv(old, e)
  <1>1. d.user \in [Users -> UserRows \cup {Null}]
    BY DEF DatabaseType
  <1>2. ASSUME NEW u \in Users
        PROVE  /\ KeptRow(old.user[u], e.user[u], u, 4)
               /\ e.user[u] # Null => /\ e.user[u].name # Null
                                      /\ e.user[u].state \notin {"enabled", "flagged"}
    <2>1. CASE d.user[u] = Null
      BY <2>1 DEF Becomes, Statuses, RowInv, Kept, KeptRow
    <2>2. CASE d.user[u] # Null
      <3>1. /\ d.user[u] \in UserRows /\ d.user[u].state \in {"enabled", "flagged"}
            /\ d.user[u].name # Null
        BY <1>1, <2>2 DEF RowInv, Fits, Present
      <3>2. /\ e.user[u] \in UserRows
            /\ e.user[u].name = d.user[u].name
            /\ e.user[u].state = IF d.user[u].state = "flagged" THEN "disabled" ELSE "active"
        BY <2>2, <3>1 DEF Becomes, Statuses, UserRows, WithStatus
      <3>3. /\ old.user[u] # Null /\ d.user[u].state = old.user[u].state
            /\ d.user[u].name = IF old.user[u].name = Null THEN u ELSE old.user[u].name
        BY <2>2 DEF RowInv, Kept, KeptRow
      <3>4. e.user[u] # Null
        BY <3>2, NullAssumption
      <3>5. WithStatus(old.user[u]).state = e.user[u].state
        BY <3>2, <3>3 DEF WithStatus
      <3>6. QED
        BY <3>1, <3>2, <3>3, <3>4, <3>5 DEF KeptRow
    <2>3. QED
      BY <2>1, <2>2
  <1>3. QED
    BY <1>2 DEF RowInv, Fits, Present, Kept, Becomes, Missing

LEMMA RowsToV5 ==
  ASSUME NEW old \in DatabaseType, NEW d \in DatabaseType, NEW e, NEW version, NEW grants, NEW audit,
         RowInv(old, d), d.users \notin {2, 3},
         Becomes(d, e, version, 5, grants, audit, d.user, d.children)
  PROVE  RowInv(old, e)
  <1>1. ASSUME NEW u \in Users
        PROVE  KeptRow(old.user[u], e.user[u], u, 5)
    BY DEF RowInv, Kept, KeptRow, Becomes
  <1>2. QED
    BY <1>1 DEF RowInv, Fits, Present, Kept, Becomes, Missing

----------------------------------------------------------------------------
(* The steps that are left *)

LEMMA EffectsNamed ==
  ASSUME NEW d
  PROVE  /\ Effect("rebuild_grants", d) = RebuildGrantsTable(d)
         /\ Effect("rebuild_audit", d) = RebuildAuditTable(d)
         /\ Effect("v2_to_v3", d) = UsersV2ToV3(d)
         /\ Effect("v3_to_v4", d) = UsersV3ToV4(d)
         /\ Effect("v4_to_v5", d) = UsersV4ToV5(d)
         /\ Effect("create_tables", d) = CreateTables(d)
         /\ Effect("stamp", d) = Stamp(d)
         /\ Effect("auth", d) = [d EXCEPT !.auth = "current"]
         /\ Effect("others", d) = [d EXCEPT !.others = TRUE]
  BY DEF Effect

LEMMA GrantsRebuilt ==
  ASSUME NEW old \in DatabaseType, NEW d \in DatabaseType, NEW o, NEW pl,
         StepsAhead(o, pl, d), DataInv(old, d), LegacyGrants(d)
  PROVE  LET e == Effect(Head(pl), d)
         IN  e \in DatabaseType /\ DataInv(old, e) /\ StepsAhead(o, Tail(pl), e)
  <1>1. Leads(pl, "rebuild_grants",
              Cat(Chain(<<>>, AuditStep(d), V3Step(d), V4Step(d), V5Step(d)), Last(o)))
    BY LastTyped, PlanSteps DEF StepsAhead
  <1>2. PICK e : e = RebuildGrantsTable(d)
    OBVIOUS
  <1>3. Effect(Head(pl), d) = e
    BY <1>1, <1>2, EffectsNamed DEF Leads
  <1>4. Becomes(d, e, d.version, d.users, "modern", d.audit, d.user, d.children)
    BY <1>2, RebuildsTables
  <1>5. /\ GrantsStep(e) = <<>> /\ AuditStep(e) = AuditStep(d) /\ V3Step(e) = V3Step(d)
        /\ V4Step(e) = V4Step(d) /\ V5Step(e) = V5Step(d)
    BY <1>4 DEF Becomes, GrantsStep, AuditStep, V3Step, V4Step, V5Step, LegacyGrants,
                LegacyAudit, When
  <1>6. Tail(pl) = UpgradeSteps(e) \o Last(o)
    BY <1>1, <1>5, Chained DEF Leads
  <1>7. TablesPresent(e) /\ (Stamped(d) => Stamped(e))
    BY <1>4 DEF Becomes, TablesPresent, Stamped, StepsAhead
  <1>8. RowInv(old, e)
    BY <1>4, SameRows DEF DataInv
  <1>9. QED
    BY <1>3, <1>4, <1>6, <1>7, <1>8 DEF Becomes, DataInv, StepsAhead

LEMMA AuditRebuilt ==
  ASSUME NEW old \in DatabaseType, NEW d \in DatabaseType, NEW o, NEW pl,
         StepsAhead(o, pl, d), DataInv(old, d), ~LegacyGrants(d), LegacyAudit(d)
  PROVE  LET e == Effect(Head(pl), d)
         IN  e \in DatabaseType /\ DataInv(old, e) /\ StepsAhead(o, Tail(pl), e)
  <1>1. Leads(pl, "rebuild_audit",
              Cat(Chain(<<>>, <<>>, V3Step(d), V4Step(d), V5Step(d)), Last(o)))
    BY LastTyped, PlanSteps DEF StepsAhead
  <1>2. PICK e : e = RebuildAuditTable(d)
    OBVIOUS
  <1>3. Effect(Head(pl), d) = e
    BY <1>1, <1>2, EffectsNamed DEF Leads
  <1>4. Becomes(d, e, d.version, d.users, d.grants, "modern", d.user, d.children)
    BY <1>2, RebuildsTables
  <1>5. /\ GrantsStep(e) = <<>> /\ AuditStep(e) = <<>> /\ V3Step(e) = V3Step(d)
        /\ V4Step(e) = V4Step(d) /\ V5Step(e) = V5Step(d)
    BY <1>4 DEF Becomes, GrantsStep, AuditStep, V3Step, V4Step, V5Step, LegacyGrants,
                LegacyAudit, When
  <1>6. Tail(pl) = UpgradeSteps(e) \o Last(o)
    BY <1>1, <1>5, Chained DEF Leads
  <1>7. TablesPresent(e) /\ (Stamped(d) => Stamped(e))
    BY <1>4 DEF Becomes, TablesPresent, Stamped, StepsAhead
  <1>8. RowInv(old, e)
    BY <1>4, SameRows DEF DataInv
  <1>9. QED
    BY <1>3, <1>4, <1>6, <1>7, <1>8 DEF Becomes, DataInv, StepsAhead

LEMMA V3Rebuilt ==
  ASSUME NEW old \in DatabaseType, NEW d \in DatabaseType, NEW o, NEW pl,
         StepsAhead(o, pl, d), DataInv(old, d), ~LegacyGrants(d), ~LegacyAudit(d), d.users = 2
  PROVE  LET e == Effect(Head(pl), d)
         IN  e \in DatabaseType /\ DataInv(old, e) /\ StepsAhead(o, Tail(pl), e)
  <1>1. Leads(pl, "v2_to_v3", Cat(Chain(<<>>, <<>>, <<>>, V4Step(d), V5Step(d)), Last(o)))
    BY LastTyped, PlanSteps DEF StepsAhead
  <1>2. PICK e : e = UsersV2ToV3(d)
    OBVIOUS
  <1>3. Effect(Head(pl), d) = e
    BY <1>1, <1>2, EffectsNamed DEF Leads
  <1>4. Becomes(d, e, d.version, 3, d.grants, d.audit, Normalised(d), {})
    BY <1>2, RebuildsUsers
  <1>5. /\ GrantsStep(e) = <<>> /\ AuditStep(e) = <<>> /\ V3Step(e) = <<>>
        /\ V4Step(e) = V4Step(d) /\ V5Step(e) = V5Step(d)
    BY <1>4 DEF Becomes, GrantsStep, AuditStep, V3Step, V4Step, V5Step, LegacyGrants,
                LegacyAudit, When
  <1>6. Tail(pl) = UpgradeSteps(e) \o Last(o)
    BY <1>1, <1>5, Chained DEF Leads
  <1>7. TablesPresent(e) /\ (Stamped(d) => Stamped(e))
    BY <1>4 DEF Becomes, TablesPresent, Stamped, StepsAhead, Missing
  <1>8. RowInv(old, e)
    BY <1>4, RowsToV3 DEF DataInv
  <1>9. QED
    BY <1>3, <1>4, <1>6, <1>7, <1>8 DEF Becomes, DataInv, StepsAhead

LEMMA V4Rebuilt ==
  ASSUME NEW old \in DatabaseType, NEW d \in DatabaseType, NEW o, NEW pl,
         StepsAhead(o, pl, d), DataInv(old, d), ~LegacyGrants(d), ~LegacyAudit(d), d.users = 3
  PROVE  LET e == Effect(Head(pl), d)
         IN  e \in DatabaseType /\ DataInv(old, e) /\ StepsAhead(o, Tail(pl), e)
  <1>1. Leads(pl, "v3_to_v4", Cat(Chain(<<>>, <<>>, <<>>, <<>>, V5Step(d)), Last(o)))
    BY LastTyped, PlanSteps DEF StepsAhead
  <1>2. PICK e : e = UsersV3ToV4(d)
    OBVIOUS
  <1>3. Effect(Head(pl), d) = e
    BY <1>1, <1>2, EffectsNamed DEF Leads
  <1>4. Becomes(d, e, d.version, 4, d.grants, d.audit, Statuses(d), d.children)
    BY <1>2, RebuildsUsers
  <1>5. /\ GrantsStep(e) = <<>> /\ AuditStep(e) = <<>> /\ V3Step(e) = <<>>
        /\ V4Step(e) = <<>> /\ V5Step(e) = V5Step(d)
    BY <1>4 DEF Becomes, GrantsStep, AuditStep, V3Step, V4Step, V5Step, LegacyGrants,
                LegacyAudit, When
  <1>6. Tail(pl) = UpgradeSteps(e) \o Last(o)
    BY <1>1, <1>5, Chained DEF Leads
  <1>7. TablesPresent(e) /\ (Stamped(d) => Stamped(e))
    BY <1>4 DEF Becomes, TablesPresent, Stamped, StepsAhead, Missing
  <1>8. RowInv(old, e)
    BY <1>4, RowsToV4 DEF DataInv
  <1>9. QED
    BY <1>3, <1>4, <1>6, <1>7, <1>8 DEF Becomes, DataInv, StepsAhead

LEMMA V5Rebuilt ==
  ASSUME NEW old \in DatabaseType, NEW d \in DatabaseType, NEW o, NEW pl,
         StepsAhead(o, pl, d), DataInv(old, d), ~LegacyGrants(d), ~LegacyAudit(d),
         d.users \notin {2, 3}, d.version # SchemaVersion
  PROVE  LET e == Effect(Head(pl), d)
         IN  e \in DatabaseType /\ DataInv(old, e) /\ StampAhead(o, Tail(pl), e)
  <1>1. Leads(pl, "v4_to_v5", Cat(<<"stamp">>, Last(o)))
    BY LastTyped, PlanSteps DEF StepsAhead
  <1>2. PICK e : e = UsersV4ToV5(d)
    OBVIOUS
  <1>3. Effect(Head(pl), d) = e
    BY <1>1, <1>2, EffectsNamed DEF Leads
  <1>4. Becomes(d, e, d.version, 5, d.grants, d.audit, d.user, d.children)
    BY <1>2, RebuildsUsers
  <1>5. Tail(pl) = <<"stamp">> \o Last(o)
    BY <1>1 DEF Leads, Cat
  <1>6. TablesPresent(e) /\ Modern(e) /\ e.users = 5 /\ Stamped(e)
    BY <1>4 DEF Becomes, TablesPresent, Stamped, StepsAhead, Missing, Modern, DatabaseType,
                LegacyGrants, LegacyAudit
  <1>7. RowInv(old, e)
    BY <1>4, RowsToV5 DEF DataInv
  <1>8. QED
    BY <1>3, <1>4, <1>5, <1>6, <1>7 DEF Becomes, DataInv, StampAhead

\* The stamp finds tables of version 5, or a stamp of version 5 that is there already.
LEMMA StampPut ==
  ASSUME NEW old \in DatabaseType, NEW d \in DatabaseType, NEW o, NEW pl,
         DataInv(old, d), Leads(pl, "stamp", Last(o)), TablesPresent(d), Modern(d),
         d.users = 5 \/ d.version = SchemaVersion
  PROVE  LET e == Effect(Head(pl), d)
         IN  e \in DatabaseType /\ DataInv(old, e) /\ Upgraded(o, Tail(pl), e)
  <1>1. PICK e : e = Stamp(d)
    OBVIOUS
  <1>2. Effect(Head(pl), d) = e
    BY <1>1, EffectsNamed DEF Leads
  <1>3. Becomes(d, e, 5, d.users, d.grants, d.audit, d.user, d.children)
    BY <1>1, CreatesTables DEF TablesPresent
  <1>4. RowInv(old, e)
    BY <1>3, SameRows DEF DataInv
  <1>5. TrueStamps => Stamped(e) /\ Sound(e)
    <2>1. SUFFICES ASSUME TrueStamps PROVE e.users = 5
      BY <1>3 DEF Becomes, Stamped, Sound, Inspect, NoTables, TablesPresent, Modern, LayoutOf,
                  Missing, SchemaVersion
    <2>2. QED
      BY <1>3, <2>1 DEF Becomes, DataInv, Stamped
  <1>6. QED
    BY <1>2, <1>3, <1>4, <1>5 DEF Becomes, DataInv, Upgraded, Leads

LEMMA StepsNext ==
  ASSUME NEW old \in DatabaseType, NEW d \in DatabaseType, NEW o, NEW pl,
         StepsAhead(o, pl, d), DataInv(old, d)
  PROVE  LET e == Effect(Head(pl), d)
         IN  e \in DatabaseType /\ DataInv(old, e) /\ Ahead(o, Tail(pl), e)
  <1>1. CASE LegacyGrants(d)
    BY <1>1, GrantsRebuilt DEF Ahead
  <1>2. CASE ~LegacyGrants(d) /\ LegacyAudit(d)
    BY <1>2, AuditRebuilt DEF Ahead
  <1>3. CASE ~LegacyGrants(d) /\ ~LegacyAudit(d) /\ d.users = 2
    BY <1>3, V3Rebuilt DEF Ahead
  <1>4. CASE ~LegacyGrants(d) /\ ~LegacyAudit(d) /\ d.users = 3
    BY <1>4, V4Rebuilt DEF Ahead
  <1>5. CASE ~LegacyGrants(d) /\ ~LegacyAudit(d) /\ d.users \notin {2, 3}
    <2>1. CASE d.version # SchemaVersion
      BY <1>5, <2>1, V5Rebuilt DEF Ahead
    <2>2. CASE d.version = SchemaVersion
      <3>1. Leads(pl, "stamp", Last(o))
        BY <1>5, <2>2, LastTyped, PlanSteps DEF StepsAhead
      <3>2. TablesPresent(d) /\ Modern(d)
        BY <1>5 DEF StepsAhead, TablesPresent, Modern, DatabaseType, LegacyGrants, LegacyAudit
      <3>3. QED
        BY <2>2, <3>1, <3>2, StampPut DEF Ahead
    <2>3. QED
      BY <2>1, <2>2
  <1>6. QED
    BY <1>1, <1>2, <1>3, <1>4, <1>5

LEMMA StampNext ==
  ASSUME NEW old \in DatabaseType, NEW d \in DatabaseType, NEW o, NEW pl,
         StampAhead(o, pl, d), DataInv(old, d)
  PROVE  LET e == Effect(Head(pl), d)
         IN  e \in DatabaseType /\ DataInv(old, e) /\ Ahead(o, Tail(pl), e)
  <1>1. "stamp" \in StepNames /\ Last(o) \in Plans
    BY LastTyped DEF StepNames
  <1>2. Leads(pl, "stamp", Last(o))
    BY <1>1, Algebra DEF StampAhead, Leads, Cat
  <1>3. QED
    BY <1>2, StampPut DEF Ahead, StampAhead

LEMMA TablesNext ==
  ASSUME NEW old \in DatabaseType, NEW d \in DatabaseType, NEW o, NEW pl,
         TablesAhead(o, pl, d), DataInv(old, d), ~Rejected(Head(pl), d)
  PROVE  LET e == Effect(Head(pl), d)
         IN  e \in DatabaseType /\ DataInv(old, e) /\ Ahead(o, Tail(pl), e)
  <1>1. "create_tables" \in StepNames /\ Last(o) \in Plans
    BY LastTyped DEF StepNames
  <1>2. Leads(pl, "create_tables", Last(o))
    BY <1>1, Algebra DEF TablesAhead, Leads, Cat
  <1>3. PICK e : e = CreateTables(d)
    OBVIOUS
  <1>4. Effect(Head(pl), d) = e
    BY <1>2, <1>3, EffectsNamed DEF Leads
  <1>5. Becomes(d, e, IF d.version = Missing THEN 5 ELSE d.version,
                IF d.users = Missing THEN 5 ELSE d.users,
                IF d.grants = "missing" THEN "modern" ELSE d.grants,
                IF d.audit = "missing" THEN "modern" ELSE d.audit, d.user, d.children)
    BY <1>3, CreatesTables
  <1>6. d.version \in {Missing, SchemaVersion}
    BY <1>2 DEF Leads, Rejected
  <1>7. RowInv(old, e)
    <2>1. CASE d.users = Missing
      BY <1>5, <2>1, RowsToV5 DEF DataInv, Missing
    <2>2. CASE d.users # Missing
      BY <1>5, <2>2, SameRows DEF DataInv
    <2>3. QED
      BY <2>1, <2>2
  <1>8. TrueStamps => Stamped(e) /\ Sound(e)
    <2>1. SUFFICES ASSUME TrueStamps PROVE Stamped(e) /\ Sound(e)
      OBVIOUS
    <2>2. CASE Inspect(d) = "empty"
      <3>1. NoTables(d)
        BY <2>2 DEF Inspect
      <3>2. QED
        BY <1>5, <3>1 DEF NoTables, Becomes, Stamped, Sound, Inspect, TablesPresent, Modern,
                          LayoutOf, Missing, SchemaVersion
    <2>3. CASE Inspect(d) \in {"current", "older"}
      <3>1. /\ TablesPresent(d) /\ Modern(d) /\ d.version # Missing
            /\ Inspect(d) = "current" => d.version = SchemaVersion
            /\ Inspect(d) = "older" => d.version # SchemaVersion
        BY <2>3 DEF Inspect
      <3>2. d.version = SchemaVersion /\ d.users = 5
        BY <1>6, <2>1, <3>1 DEF DataInv, Stamped
      <3>3. QED
        BY <1>5, <3>1, <3>2 DEF Becomes, Stamped, Sound, Inspect, NoTables, TablesPresent, Modern,
                          LayoutOf, Missing, SchemaVersion
    <2>4. QED
      BY <2>1, <2>2, <2>3 DEF TablesAhead
  <1>9. QED
    BY <1>2, <1>4, <1>5, <1>7, <1>8 DEF Becomes, DataInv, Upgraded, Leads, Ahead

LEMMA UpgradedNext ==
  ASSUME NEW old \in DatabaseType, NEW d \in DatabaseType, NEW o, NEW pl,
         Upgraded(o, pl, d), DataInv(old, d), pl # <<>>
  PROVE  LET e == Effect(Head(pl), d)
         IN  e \in DatabaseType /\ DataInv(old, e) /\ Ahead(o, Tail(pl), e)
  <1>1. \/ o = "initialize" /\ Head(pl) = "auth" /\ Tail(pl) = <<"others">>
        \/ Head(pl) = "others" /\ Tail(pl) = <<>>
    BY LastTyped DEF Upgraded
  <1>2. PICK e : e = Effect(Head(pl), d)
    OBVIOUS
  <1>3. Becomes(d, e, d.version, d.users, d.grants, d.audit, d.user, d.children)
    <2>1. CASE Head(pl) = "auth"
      <3>1. e = [d EXCEPT !.auth = "current"]
        BY <1>2, <2>1, EffectsNamed
      <3>2. QED
        BY <3>1, RebuildsTables
    <2>2. CASE Head(pl) = "others"
      BY <1>2, <2>2, EffectsNamed, RebuildsTables
    <2>3. QED
      BY <1>1, <2>1, <2>2
  <1>4. RowInv(old, e)
    BY <1>3, SameRows DEF DataInv
  <1>5. TrueStamps => Stamped(e) /\ Sound(e)
    BY <1>3 DEF Upgraded, Becomes, Stamped, Sound, Inspect, NoTables, TablesPresent, Modern,
                LayoutOf, Missing, SchemaVersion
  <1>6. QED
    BY <1>1, <1>2, <1>3, <1>4, <1>5 DEF Becomes, DataInv, Upgraded, Ahead

LEMMA PlanTyped ==
  ASSUME NEW d
  PROVE  UpgradeSteps(d) \in Plans /\ UpgradePlan(d) \in Plans
  <1>1. \A w : \A x \in StepNames : Option(w, x) => w \in Plans
    BY Algebra DEF Option
  <1>2. /\ GrantsStep(d) \in Plans /\ AuditStep(d) \in Plans /\ V3Step(d) \in Plans
        /\ V4Step(d) \in Plans /\ V5Step(d) \in Plans
    <2>1. /\ "rebuild_grants" \in StepNames /\ "rebuild_audit" \in StepNames
          /\ "v2_to_v3" \in StepNames /\ "v3_to_v4" \in StepNames /\ "v4_to_v5" \in StepNames
      BY DEF StepNames
    <2>2. QED
      BY <1>1, <2>1, StepsOptional
  <1>3. <<>> \in Plans /\ <<"stamp">> \in Plans /\ <<"create_tables">> \in Plans
    BY Algebra, Names
  <1>4. \A s, t \in Plans : Cat(s, t) \in Plans
    BY Algebra
  <1>5. Chain(GrantsStep(d), AuditStep(d), V3Step(d), V4Step(d), V5Step(d)) \in Plans
    BY <1>2, <1>3, <1>4 DEF Chain, Stamping
  <1>6. UpgradeSteps(d) =
          Chain(GrantsStep(d), AuditStep(d), V3Step(d), V4Step(d), V5Step(d))
    BY DEF UpgradeSteps, Chain, Cat, Stamping, GrantsStep, AuditStep, V3Step, V4Step, V5Step
  <1>7. UpgradeSteps(d) \in Plans
    BY <1>5, <1>6
  <1>8. QED
    BY <1>3, <1>7 DEF UpgradePlan

\* The plan of an inspection that does not refuse.
LEMMA PlanAhead ==
  ASSUME NEW d \in DatabaseType, NEW o, o # "create_tables", ~Refused(o, d),
         TrueStamps => Stamped(d)
  PROVE  Ahead(o, UpgradePlan(d) \o Last(o), d)
  <1>1. CASE Inspect(d) = "empty"
    <2>1. TablesAhead(o, UpgradePlan(d) \o Last(o), d)
      BY <1>1 DEF UpgradePlan, TablesAhead
    <2>2. QED
      BY <2>1 DEF Ahead
  <1>2. CASE Inspect(d) = "current"
    <2>1. UpgradePlan(d) = <<>>
      BY <1>2 DEF UpgradePlan
    <2>2. UpgradePlan(d) \o Last(o) = Last(o)
      BY <2>1, LastTyped, Algebra DEF Cat
    <2>3. d.version = SchemaVersion
      BY <1>2 DEF Inspect
    <2>4. QED
      BY <1>2, <2>2, <2>3 DEF Ahead, Upgraded, Sound, Stamped
  <1>3. CASE Inspect(d) \notin {"empty", "current"}
    <2>1. UpgradePlan(d) = UpgradeSteps(d)
      BY <1>3 DEF UpgradePlan
    <2>2. TablesPresent(d)
      <3>1. CASE Inspect(d) = "unsupported"
        BY <3>1 DEF Refused, Migratable
      <3>2. CASE Inspect(d) # "unsupported"
        BY <1>3, <3>2 DEF Inspect
      <3>3. QED
        BY <3>1, <3>2
    <2>3. QED
      BY <2>1, <2>2 DEF Ahead, StepsAhead
  <1>4. QED
    BY <1>1, <1>2, <1>3

LEMMA AuthNext ==
  ASSUME NEW old \in DatabaseType, NEW d \in DatabaseType, NEW o, NEW pl,
         AuthAhead(o, pl, d), DataInv(old, d)
  PROVE  LET e == Effect(Head(pl), d)
         IN  e \in DatabaseType /\ DataInv(old, e) /\ Ahead(o, Tail(pl), e)
  <1>1. "auth" \in StepNames /\ UpgradePlan(d) \o Last(o) \in Plans
    BY LastTyped, PlanTyped, Algebra DEF StepNames, Cat
  <1>2. Leads(pl, "auth", UpgradePlan(d) \o Last(o))
    BY <1>1, Algebra DEF AuthAhead, Leads, Cat
  <1>3. PICK e : e = [d EXCEPT !.auth = "current"]
    OBVIOUS
  <1>4. Effect(Head(pl), d) = e
    BY <1>2, <1>3, EffectsNamed DEF Leads
  <1>5. /\ Becomes(d, e, d.version, d.users, d.grants, d.audit, d.user, d.children)
        /\ e.auth = "current"
    BY <1>3, RebuildsTables DEF DatabaseType
  <1>6. RowInv(old, e)
    BY <1>5, SameRows DEF DataInv
  <1>7. /\ Inspect(e) = Inspect(d) /\ UpgradePlan(e) = UpgradePlan(d)
        /\ Migratable(e) <=> Migratable(d)
        /\ Stamped(e) <=> Stamped(d)
    <2>1. Inspect(e) = Inspect(d)
      BY <1>5 DEF Becomes, Inspect, NoTables, TablesPresent, Modern, LayoutOf
    <2>2. UpgradeSteps(e) = UpgradeSteps(d)
      BY <1>5 DEF Becomes, UpgradeSteps, LegacyGrants, LegacyAudit
    <2>3. QED
      BY <1>5, <2>1, <2>2 DEF Becomes, UpgradePlan, Migratable, TablesPresent, Modern, LayoutOf,
                              LegacyGrants, LegacyAudit, Stamped
  <1>8. ~Refused(o, e) /\ o # "create_tables"
    BY <1>5, <1>7 DEF AuthAhead, Refused
  <1>9. TrueStamps => Stamped(e)
    BY <1>7 DEF DataInv
  <1>10. Ahead(o, UpgradePlan(e) \o Last(o), e)
    BY <1>5, <1>8, <1>9, PlanAhead DEF Becomes
  <1>11. QED
    BY <1>2, <1>4, <1>5, <1>6, <1>7, <1>9, <1>10 DEF Becomes, DataInv, Leads

LEMMA StageNext ==
  ASSUME NEW old \in DatabaseType, NEW d \in DatabaseType, NEW o, NEW pl,
         Ahead(o, pl, d), DataInv(old, d), pl # <<>>, ~Rejected(Head(pl), d)
  PROVE  LET e == Effect(Head(pl), d)
         IN  e \in DatabaseType /\ DataInv(old, e) /\ Ahead(o, Tail(pl), e)
  BY AuthNext, StepsNext, StampNext, TablesNext, UpgradedNext DEF Ahead

LEMMA StageBegins ==
  ASSUME NEW d \in DatabaseType, NEW o \in Operations, ~Refused(o, d),
         TrueStamps => Stamped(d),
         TrueStamps /\ o = "create_tables" => Inspect(d) # "unsupported"
  PROVE  Ahead(o, Plan(o, d), d)
  <1>1. o \in {"initialize", "migrate_sqlite_schema", "create_tables"}
    BY OperationsAssumption
  <1>2. CASE o = "create_tables"
    <2>1. Last(o) = <<>> /\ Plan(o, d) = <<"create_tables">>
      BY <1>2 DEF Last, Plan
    <2>2. <<"create_tables">> \o <<>> = <<"create_tables">>
      OBVIOUS
    <2>3. Inspect(d) \in {"empty", "unsupported", "canonical_unversioned", "current", "older"}
      BY DEF Inspect
    <2>4. TablesAhead(o, Plan(o, d), d)
      BY <1>2, <2>1, <2>2, <2>3 DEF TablesAhead, Refused
    <2>5. QED
      BY <2>4 DEF Ahead
  <1>3. CASE o = "migrate_sqlite_schema"
    <2>1. Last(o) = <<>> /\ Plan(o, d) = UpgradePlan(d)
      BY <1>3 DEF Last, Plan
    <2>2. UpgradePlan(d) \o <<>> = UpgradePlan(d)
      BY PlanTyped, Algebra DEF Cat
    <2>3. QED
      BY <1>3, <2>1, <2>2, PlanAhead
  <1>4. CASE o = "initialize"
    <2>1. /\ Last(o) = <<"auth", "others">>
          /\ Plan(o, d) = (When(d.auth = "legacy", "auth") \o UpgradePlan(d)) \o Last(o)
      BY <1>4 DEF Last, Plan
    <2>2. PICK w \in Plans : /\ w = When(d.auth = "legacy", "auth")
                             /\ w = IF d.auth = "legacy" THEN <<"auth">> ELSE <<>>
      BY Algebra, Names DEF When
    <2>3. Plan(o, d) = w \o (UpgradePlan(d) \o Last(o))
      <3>1. PICK last \in Plans : last = Last(o)
        BY LastTyped
      <3>2. PICK steps \in Plans : steps = UpgradePlan(d)
        BY PlanTyped
      <3>3. (w \o steps) \o last = w \o (steps \o last)
        BY Algebra DEF Cat
      <3>4. QED
        BY <2>1, <2>2, <3>1, <3>2, <3>3
    <2>4. CASE d.auth = "legacy"
      BY <1>4, <2>2, <2>3, <2>4 DEF Ahead, AuthAhead
    <2>5. CASE d.auth # "legacy"
      <3>1. Plan(o, d) = UpgradePlan(d) \o Last(o)
        BY <2>2, <2>3, <2>5, LastTyped, PlanTyped, Algebra DEF Cat
      <3>2. QED
        BY <1>4, <3>1, PlanAhead
    <2>6. QED
      BY <2>4, <2>5
  <1>5. QED
    BY <1>1, <1>2, <1>3, <1>4

LEMMA PlanDone ==
  ASSUME NEW d \in DatabaseType, NEW o, Ahead(o, <<>>, d)
  PROVE  Upgraded(o, <<>>, d)
  <1>1. \A x \in StepNames, s \in Plans : <<x>> \o s # <<>>
    BY Algebra DEF Cat
  <1>2. "auth" \in StepNames /\ "stamp" \in StepNames /\ "create_tables" \in StepNames
    BY DEF StepNames
  <1>3. Last(o) \in Plans /\ UpgradePlan(d) \o Last(o) \in Plans
    BY LastTyped, PlanTyped, Algebra DEF Cat
  <1>4. ~AuthAhead(o, <<>>, d) /\ ~StampAhead(o, <<>>, d) /\ ~TablesAhead(o, <<>>, d)
    BY <1>1, <1>2, <1>3 DEF AuthAhead, StampAhead, TablesAhead
  <1>5. ~StepsAhead(o, <<>>, d)
    <2>1. UpgradeSteps(d) \o Last(o) # <<>>
      BY <1>3, PlanSteps DEF Leads
    <2>2. QED
      BY <2>1 DEF StepsAhead
  <1>6. QED
    BY <1>4, <1>5 DEF Ahead

----------------------------------------------------------------------------
(* The invariant *)

LEMMA RowsAsFound ==
  ASSUME NEW d \in DatabaseType, Fits(d)
  PROVE  RowInv(d, d)
  <1>1. ASSUME NEW u \in Users PROVE KeptRow(d.user[u], d.user[u], u, d.users)
    BY DEF Fits, Present, KeptRow
  <1>2. QED
    BY <1>1 DEF RowInv, Kept

LEMMA InitIInv ==
  ASSUME Init PROVE IInv
  <1>1. stored \in DatabaseType /\ image = stored /\ origin = stored /\ Fits(stored)
    BY DatabasesAssumption DEF Init
  <1>2. TypeOK
    BY <1>1, NamesAssumption DEF Init, TypeOK
  <1>3. TrueStamps => Stamped(stored)
    BY DEF Init, TrueStamps
  <1>4. DataInv(origin, stored) /\ DataInv(origin, image)
    BY <1>1, <1>3, RowsAsFound DEF DataInv
  <1>5. \A p \in Processes : CallInv(p)
    BY DEF Init, CallInv, Bootstraps
  <1>6. QED
    BY <1>2, <1>4, <1>5 DEF IInv

LEMMA Unowned ==
  ASSUME TypeOK, NEW q \in Processes, owner # q
  PROVE  step[q] \in {"idle", "begin"}
  BY DEF TypeOK

LEMMA StartKept ==
  ASSUME IInv, NEW p \in Processes, NEW o \in Operations, Start(p, o)
  PROVE  IInv'
  <1>1. TypeOK'
    BY DEF IInv, TypeOK, Start
  <1>2. ASSUME NEW q \in Processes PROVE CallInv(q)'
    <2>1. CASE q = p
      <3>1. op'[q] = o /\ step'[q] = "begin" /\ stored' = stored
        BY <2>1 DEF Start, IInv, TypeOK
      <3>2. TrueStamps /\ o = "create_tables" => Inspect(stored) # "unsupported"
        BY DEF Start, TrueStamps
      <3>3. QED
        BY <3>1, <3>2 DEF CallInv, Bootstraps
    <2>2. CASE q # p
      <3>1. /\ op'[q] = op[q] /\ step'[q] = step[q] /\ stored' = stored /\ image' = image
            /\ plan' = plan
        BY <2>2 DEF Start, IInv, TypeOK
      <3>2. QED
        BY <3>1 DEF IInv, CallInv, Bootstraps
    <2>3. QED
      BY <2>1, <2>2
  <1>3. QED
    BY <1>1, <1>2 DEF IInv, Start

LEMMA BeginKept ==
  ASSUME IInv, NEW p \in Processes, Begin(p)
  PROVE  IInv'
  <1>1. TypeOK'
    BY NamesAssumption DEF IInv, TypeOK, Begin
  <1>2. ASSUME NEW q \in Processes PROVE CallInv(q)'
    <2>1. /\ op' = op /\ stored' = stored /\ image' = stored /\ plan' = <<>>
          /\ step'[p] = "inspect" /\ step[p] = "begin"
      BY DEF Begin, IInv, TypeOK
    <2>2. CASE q = p
      BY <2>1, <2>2 DEF IInv, CallInv, Bootstraps
    <2>3. CASE q # p
      <3>1. step'[q] = step[q] /\ step[q] \in {"idle", "begin"}
        BY <2>3, Unowned, NamesAssumption DEF Begin, IInv, TypeOK
      <3>2. QED
        BY <2>1, <3>1 DEF IInv, CallInv, Bootstraps
    <2>4. QED
      BY <2>2, <2>3
  <1>3. QED
    BY <1>1, <1>2 DEF IInv, Begin

LEMMA BusyKept ==
  ASSUME IInv, NEW p \in Processes, Busy(p)
  PROVE  IInv'
  <1>1. TypeOK'
    BY DEF IInv, TypeOK, Busy
  <1>2. ASSUME NEW q \in Processes PROVE CallInv(q)'
    <2>1. stored' = stored /\ image' = image /\ plan' = plan
      BY DEF Busy
    <2>2. CASE q = p
      <3>1. step'[q] = "idle"
        BY <2>2 DEF Busy, IInv, TypeOK
      <3>2. QED
        BY <3>1 DEF CallInv, Bootstraps
    <2>3. CASE q # p
      <3>1. op'[q] = op[q] /\ step'[q] = step[q]
        BY <2>3 DEF Busy, IInv, TypeOK
      <3>2. QED
        BY <2>1, <3>1 DEF IInv, CallInv, Bootstraps
    <2>4. QED
      BY <2>2, <2>3
  <1>3. QED
    BY <1>1, <1>2 DEF IInv, Busy

LEMMA InspectedKept ==
  ASSUME IInv, NEW p \in Processes, Inspected(p)
  PROVE  IInv'
  <1>1. owner = p /\ step[p] = "inspect" /\ op[p] \in Operations /\ image = stored
    BY DEF IInv, TypeOK, CallInv, Inspected
  <1>2. TypeOK'
    BY <1>1, NamesAssumption DEF IInv, TypeOK, Inspected
  <1>3. Ahead(op[p], Plan(op[p], image), image)
    <2>1. PICK d \in DatabaseType : d = image
      BY DEF IInv, TypeOK
    <2>2. PICK o \in Operations : o = op[p]
      BY <1>1
    <2>3. ~Refused(o, d) /\ (TrueStamps => Stamped(d))
      BY <2>1, <2>2 DEF Inspected, IInv, DataInv
    <2>4. TrueStamps /\ o = "create_tables" => Inspect(d) # "unsupported"
      BY <1>1, <2>1, <2>2 DEF IInv, CallInv, Bootstraps
    <2>5. Ahead(o, Plan(o, d), d)
      BY <2>3, <2>4, StageBegins
    <2>6. QED
      BY <2>1, <2>2, <2>5
  <1>4. ASSUME NEW q \in Processes PROVE CallInv(q)'
    <2>1. op' = op /\ stored' = stored /\ image' = image /\ plan' = Plan(op[p], image)
      BY DEF Inspected
    <2>2. CASE q = p
      <3>1. step'[q] = "upgrade"
        BY <2>2 DEF Inspected, IInv, TypeOK
      <3>2. QED
        BY <1>1, <1>3, <2>1, <2>2, <3>1 DEF CallInv, Bootstraps
    <2>3. CASE q # p
      <3>1. step'[q] = step[q] /\ step[q] \in {"idle", "begin"}
        BY <1>1, <2>3, Unowned DEF Inspected, IInv, TypeOK
      <3>2. QED
        BY <2>1, <3>1 DEF IInv, CallInv, Bootstraps
    <2>4. QED
      BY <2>2, <2>3
  <1>5. QED
    BY <1>2, <1>4 DEF IInv, Inspected

LEMMA UpgradeKept ==
  ASSUME IInv, NEW p \in Processes, Upgrade(p)
  PROVE  IInv'
  <1>1. owner = p /\ step[p] = "upgrade" /\ op[p] \in Operations
    BY DEF IInv, TypeOK, CallInv, Upgrade
  <1>2. /\ image' \in DatabaseType /\ DataInv(origin, image')
        /\ Ahead(op[p], plan', image')
    <2>1. PICK d \in DatabaseType : d = image
      BY DEF IInv, TypeOK
    <2>2. PICK old \in DatabaseType : old = origin
      BY DEF IInv, TypeOK
    <2>3. PICK o, pl : o = op[p] /\ pl = plan
      OBVIOUS
    <2>4. Ahead(o, pl, d) /\ DataInv(old, d) /\ pl # <<>> /\ ~Rejected(Head(pl), d)
      BY <1>1, <2>1, <2>2, <2>3 DEF IInv, CallInv, Upgrade
    <2>5. PICK e : e = Effect(Head(pl), d)
      OBVIOUS
    <2>6. e \in DatabaseType /\ DataInv(old, e) /\ Ahead(o, Tail(pl), e)
      BY <2>4, <2>5, StageNext
    <2>7. image' = e /\ plan' = Tail(pl)
      BY <2>1, <2>3, <2>5 DEF Upgrade
    <2>8. QED
      BY <2>2, <2>3, <2>6, <2>7
  <1>3. TypeOK'
    BY <1>1, <1>2, NamesAssumption DEF IInv, TypeOK, Upgrade
  <1>4. ASSUME NEW q \in Processes PROVE CallInv(q)'
    <2>1. op' = op /\ stored' = stored /\ step' = step
      BY DEF Upgrade
    <2>2. CASE q = p
      BY <1>1, <1>2, <2>1, <2>2 DEF CallInv, Bootstraps
    <2>3. CASE q # p
      <3>1. step[q] \in {"idle", "begin"}
        BY <1>1, <2>3, Unowned DEF IInv
      <3>2. QED
        BY <2>1, <3>1 DEF IInv, CallInv, Bootstraps
    <2>4. QED
      BY <2>2, <2>3
  <1>5. QED
    BY <1>2, <1>3, <1>4 DEF IInv, Upgrade

\* Only a commit changes what is stored, and it stores an upgraded image.
LEMMA CommitStores ==
  ASSUME IInv, NEW p \in Processes, Commit(p)
  PROVE  owner = p /\ (TrueStamps => Sound(stored'))
  <1>1. owner = p /\ step[p] = "upgrade" /\ plan = <<>>
    BY DEF IInv, TypeOK, Commit
  <1>2. PICK d \in DatabaseType : d = image
    BY DEF IInv, TypeOK
  <1>3. Ahead(op[p], <<>>, d)
    BY <1>1, <1>2 DEF IInv, CallInv
  <1>4. PICK o : o = op[p]
    OBVIOUS
  <1>5. Upgraded(o, <<>>, d)
    BY <1>3, <1>4, PlanDone
  <1>6. QED
    BY <1>1, <1>2, <1>5 DEF Upgraded, Commit

LEMMA CommitKept ==
  ASSUME IInv, NEW p \in Processes, Commit(p)
  PROVE  IInv'
  <1>1. owner = p /\ (TrueStamps => Sound(stored'))
    BY CommitStores
  <1>2. TypeOK'
    BY <1>1, NamesAssumption DEF IInv, TypeOK, Commit, End
  <1>3. ASSUME NEW q \in Processes PROVE CallInv(q)'
    <2>1. CASE q = p
      <3>1. step'[q] = "idle"
        BY <2>1 DEF Commit, End, IInv, TypeOK
      <3>2. QED
        BY <3>1 DEF CallInv, Bootstraps
    <2>2. CASE q # p
      <3>1. op'[q] = op[q] /\ step'[q] = step[q] /\ step[q] \in {"idle", "begin"}
        BY <1>1, <2>2, Unowned DEF Commit, End, IInv, TypeOK
      <3>2. TrueStamps => Inspect(stored') = "current"
        BY <1>1 DEF Sound
      <3>3. QED
        BY <3>1, <3>2 DEF IInv, CallInv, Bootstraps
    <2>3. QED
      BY <2>1, <2>2
  <1>4. QED
    BY <1>2, <1>3 DEF IInv, Commit, End

LEMMA RollbackKept ==
  ASSUME IInv, NEW p \in Processes, owner = p, Rollback(p)
  PROVE  IInv'
  <1>1. TypeOK'
    BY NamesAssumption DEF IInv, TypeOK, Rollback, End
  <1>2. ASSUME NEW q \in Processes PROVE CallInv(q)'
    <2>1. CASE q = p
      <3>1. step'[q] = "idle"
        BY <2>1 DEF Rollback, End, IInv, TypeOK
      <3>2. QED
        BY <3>1 DEF CallInv, Bootstraps
    <2>2. CASE q # p
      <3>1. /\ op'[q] = op[q] /\ step'[q] = step[q] /\ step[q] \in {"idle", "begin"}
            /\ stored' = stored
        BY <2>2, Unowned DEF Rollback, End, IInv, TypeOK
      <3>2. QED
        BY <3>1 DEF IInv, CallInv, Bootstraps
    <2>3. QED
      BY <2>1, <2>2
  <1>3. QED
    BY <1>1, <1>2 DEF IInv, Rollback, End

LEMMA StepIInv ==
  ASSUME IInv, [Next]_vars PROVE IInv'
  <1>1. CASE UNCHANGED vars
    <2>1. /\ stored' = stored /\ image' = image /\ owner' = owner /\ op' = op /\ step' = step
          /\ plan' = plan /\ origin' = origin
      BY <1>1 DEF vars
    <2>2. TypeOK'
      BY <2>1 DEF IInv, TypeOK
    <2>3. ASSUME NEW q \in Processes PROVE CallInv(q)'
      BY <2>1 DEF IInv, CallInv, Bootstraps
    <2>4. QED
      BY <2>1, <2>2, <2>3 DEF IInv
  <1>2. ASSUME NEW p \in Processes, NEW o \in Operations, Start(p, o) PROVE IInv'
    BY <1>2, StartKept
  <1>3. ASSUME NEW p \in Processes, Proceed(p) PROVE IInv'
    <2>1. CASE Begin(p)
      BY <2>1, BeginKept
    <2>2. CASE Busy(p)
      BY <2>2, BusyKept
    <2>3. CASE Inspected(p)
      BY <2>3, InspectedKept
    <2>4. CASE Upgrade(p)
      BY <2>4, UpgradeKept
    <2>5. CASE Commit(p)
      BY <2>5, CommitKept
    <2>6. CASE Refuse(p)
      <3>1. owner = p /\ Rollback(p)
        BY <2>6 DEF IInv, TypeOK, Refuse
      <3>2. QED
        BY <3>1, RollbackKept
    <2>7. QED
      BY <1>3, <2>1, <2>2, <2>3, <2>4, <2>5, <2>6 DEF Proceed
  <1>4. ASSUME NEW p \in Processes, Interrupt(p) PROVE IInv'
    BY <1>4, RollbackKept DEF Interrupt
  <1>5. QED
    BY <1>1, <1>2, <1>3, <1>4 DEF Next

\* What holds of the databases, the transaction and the plans in every state.
THEOREM Invariance == Spec => []IInv
  <1>1. Init => IInv
    BY InitIInv
  <1>2. IInv /\ [Next]_vars => IInv'
    BY StepIInv
  <1>3. QED
    BY <1>1, <1>2, PTL DEF Spec

----------------------------------------------------------------------------
(* The theorems *)

\* A database has the columns its inspection looks for, and at most one process is
\* within a transaction, which works on an image of its own.
THEOREM TypeCorrect == Spec => []TypeOK
  <1>1. IInv => TypeOK
    BY DEF IInv
  <1>2. QED
    BY <1>1, Invariance, PTL

\* Whatever database a process finds, and however many open it at once, fail or stop in
\* the middle: once it is of the current version, every user, identity, grant and audit
\* event of the tables it had is there, with the status its flag said.
THEOREM RowsAlwaysSurvive == Spec => []RowsSurvive
  <1>1. ASSUME IInv PROVE RowsSurvive
    <2>1. SUFFICES ASSUME Inspect(stored) = "current" PROVE RowsSurvive
      BY DEF RowsSurvive
    <2>2. stored.users \in {4, 5}
      BY <2>1 DEF Inspect, LayoutOf, SchemaVersion
    <2>3. ASSUME NEW u \in Users PROVE KeptUser(origin.user[u], stored.user[u], u)
      BY <1>1, <2>2 DEF IInv, DataInv, RowInv, Kept, KeptRow, KeptUser
    <2>4. QED
      BY <1>1, <2>3 DEF IInv, DataInv, RowInv, Kept, RowsSurvive
  <1>2. QED
    BY <1>1, Invariance, PTL

\* A commit that changes a database leaves it current with tables of version 5, where the
\* stamps of the databases that are found are true and no host calls create_tables on an
\* unsupported layout; neither can be left out.
THEOREM UpgradesAreComplete ==
  ASSUME TrueStamps
  PROVE  Spec => UpgradeComplete
  <1>1. IInv /\ [Next]_vars => [Inspect(stored') = "current" /\ stored'.users = 5]_stored
    <2>1. SUFFICES ASSUME IInv, [Next]_vars, stored' # stored
                   PROVE  Sound(stored')
      BY DEF Sound
    <2>2. PICK p \in Processes : Commit(p)
      BY <2>1 DEF Next, vars, Start, Proceed, Begin, Busy, Inspected, Upgrade, Refuse, Interrupt,
                  Rollback
    <2>3. QED
      BY <2>1, <2>2, CommitStores
  <1>2. QED
    BY <1>1, Invariance, PTL DEF Spec, UpgradeComplete
=============================================================================
