--------------------------- MODULE ClientSetupProofs ---------------------------
(***************************************************************************)
(* Proofs about ClientSetup, for any tenants, replicas and finite set of   *)
(* package files.  The first part shows that the order of the versions is  *)
(* a strict order in which every set of packages has a first element, the  *)
(* second what a lookup finds, the third the invariants.                   *)
(***************************************************************************)
EXTENDS ClientSetup, FiniteSetTheorems, TLAPS

(* A total and transitive relation has a first element in every finite     *)
(* set that is not empty.                                                  *)
LEMMA FiniteHasFirst ==
    ASSUME NEW S, IsFiniteSet(S), S # {}, NEW R,
           \A x, y \in S : x # y => <<x, y>> \in R \/ <<y, x>> \in R,
           \A x, y, z \in S : <<x, y>> \in R /\ <<y, z>> \in R => <<x, z>> \in R
    PROVE  \E x \in S : \A y \in S \ {x} : <<x, y>> \in R
  <1> DEFINE HasFirst(P) == \E x \in P : \A y \in P \ {x} : <<x, y>> \in R
             T == {P \in SUBSET S : P # {} /\ ~HasFirst(P)}
  <1>1. SUFFICES ASSUME T # {} PROVE FALSE
    OBVIOUS
  <1>2. T \subseteq FiniteSubsetsOf(S)
    BY FS_Subset DEF FiniteSubsetsOf
  <1>3. PICK P \in T : \A Q \in T : <<Q, P>> \notin StrictSubsetOrdering(S)
    <2>1. IsWellFoundedOn(StrictSubsetOrdering(S), FiniteSubsetsOf(S))
      BY FS_StrictSubsetOrderingWellFounded
    <2> HIDE DEF T
    <2>2. QED
      BY <1>1, <1>2, <2>1, WFMin
  <1>4. PICK p \in P : TRUE
    OBVIOUS
  <1>5. P \ {p} # {}
    OBVIOUS
  <1>6. P \ {p} \notin T
    <2>1. <<P \ {p}, P>> \in StrictSubsetOrdering(S)
      BY <1>4 DEF StrictSubsetOrdering
    <2>2. QED
      BY <1>3, <2>1
  <1>7. PICK q \in P \ {p} : \A y \in (P \ {p}) \ {q} : <<q, y>> \in R
    BY <1>5, <1>6
  <1>8. CASE <<q, p>> \in R
    <2>1. \A y \in P \ {q} : <<q, y>> \in R
      BY <1>7, <1>8
    <2>2. QED
      BY <2>1, <1>7
  <1>9. CASE <<p, q>> \in R
    <2>1. \A y \in P \ {p} : <<p, y>> \in R
      BY <1>4, <1>7, <1>9
    <2>2. QED
      BY <2>1, <1>4
  <1>10. QED
    BY <1>4, <1>7, <1>8, <1>9

(* So does a set of numbers with a bound.                                  *)
LEMMA LeastIndex ==
    ASSUME NEW n \in Nat
    PROVE  \A S \in SUBSET (1 .. n) : S # {} => \E i \in S : \A j \in S : i <= j
  <1> DEFINE R == {e \in Int \X Int : e[1] < e[2]}
  <1>1. \A x, y \in Int : <<x, y>> \in R <=> x < y
    OBVIOUS
  <1> HIDE DEF R
  <1>2. ASSUME NEW S, S \subseteq 1 .. n, S # {}
        PROVE  \E i \in S : \A j \in S : i <= j
    <2>1. IsFiniteSet(S) /\ S # {}
      <3>1. IsFiniteSet(1 .. n)
        BY FS_Interval
      <3>2. QED
        BY <1>2, <3>1, FS_Subset
    <2>2. S \subseteq Int
      BY <1>2
    <2>3. \A x, y \in S : x # y => <<x, y>> \in R \/ <<y, x>> \in R
      BY <1>1, <2>2
    <2>4. \A x, y, z \in S : <<x, y>> \in R /\ <<y, z>> \in R => <<x, z>> \in R
      BY <1>1, <2>2
    <2>5. PICK i \in S : \A j \in S \ {i} : <<i, j>> \in R
      BY <2>1, <2>3, <2>4, FiniteHasFirst
    <2>6. \A j \in S : i # j => i < j
      BY <1>1, <2>2, <2>5
    <2>7. QED
      BY <2>2, <2>6
  <1>3. QED
    BY <1>2

-----------------------------------------------------------------------------
(* Less is a strict weak order of sequences of numbers.                    *)
LEMMA LessAsymmetric ==
    ASSUME NEW a \in Seq(Nat), NEW b \in Seq(Nat), Less(a, b), Less(b, a)
    PROVE  FALSE
  <1>1. PICK i \in 1 .. Len(b) :
           /\ \A j \in 1 .. i - 1 : j <= Len(a) /\ a[j] = b[j]
           /\ i > Len(a) \/ a[i] < b[i]
    BY DEF Less
  <1>2. PICK k \in 1 .. Len(a) :
           /\ \A j \in 1 .. k - 1 : j <= Len(b) /\ b[j] = a[j]
           /\ k > Len(b) \/ b[k] < a[k]
    BY DEF Less
  <1>3. Len(a) \in Nat /\ Len(b) \in Nat
    OBVIOUS
  <1>4. CASE i < k
    BY <1>1, <1>2, <1>3, <1>4
  <1>5. CASE k < i
    BY <1>1, <1>2, <1>3, <1>5
  <1>6. CASE i = k
    <2>1. a[i] \in Nat /\ b[i] \in Nat
      BY <1>1, <1>2, <1>3, <1>6
    <2>2. QED
      BY <1>1, <1>2, <1>3, <1>6, <2>1
  <1>7. QED
    BY <1>3, <1>4, <1>5, <1>6

LEMMA LessSplits ==
    ASSUME NEW a \in Seq(Nat), NEW b \in Seq(Nat), NEW c \in Seq(Nat), Less(a, c)
    PROVE  Less(a, b) \/ Less(b, c)
  <1>1. PICK i \in 1 .. Len(c) :
           /\ \A j \in 1 .. i - 1 : j <= Len(a) /\ a[j] = c[j]
           /\ i > Len(a) \/ a[i] < c[i]
    BY DEF Less
  <1>2. Len(a) \in Nat /\ Len(b) \in Nat /\ Len(c) \in Nat
    OBVIOUS
  <1> DEFINE Differ == {j \in 1 .. i - 1 : j > Len(b) \/ b[j] # c[j]}
  <1>3. CASE Differ = {}
    <2>1. \A j \in 1 .. i - 1 : j <= Len(b) /\ b[j] = c[j]
      <3>1. \A j \in 1 .. i - 1 : ~(j > Len(b) \/ b[j] # c[j])
        BY <1>3
      <3>2. QED
        BY <1>1, <1>2, <3>1
    <2>2. CASE i > Len(b) \/ b[i] < c[i]
      BY <1>1, <2>1, <2>2 DEF Less
    <2>3. CASE i <= Len(b) /\ ~(b[i] < c[i])
      <3>1. b[i] \in Nat /\ c[i] \in Nat
        BY <1>1, <1>2, <2>3
      <3>2. i > Len(a) \/ a[i] < b[i]
        <4>1. CASE i > Len(a)
          BY <4>1
        <4>2. CASE i <= Len(a)
          <5>1. a[i] \in Nat
            BY <1>1, <1>2, <4>2
          <5>2. QED
            BY <1>1, <1>2, <2>3, <3>1, <4>2, <5>1
        <4>3. QED
          BY <1>1, <1>2, <4>1, <4>2
      <3>3. \A j \in 1 .. i - 1 : j <= Len(a) /\ a[j] = b[j]
        BY <1>1, <2>1
      <3>4. i \in 1 .. Len(b)
        BY <1>1, <1>2, <2>3
      <3>5. QED
        BY <3>2, <3>3, <3>4 DEF Less
    <2>4. QED
      BY <1>1, <1>2, <2>2, <2>3
  <1>4. CASE Differ # {}
    <2>1. i - 1 \in Nat /\ Differ \in SUBSET (1 .. i - 1)
      BY <1>1, <1>2
    <2>2. PICK k \in Differ : \A j \in Differ : k <= j
      <3> HIDE DEF Differ
      <3>1. QED
        BY <1>4, <2>1, LeastIndex
    <2>3. k \in 1 .. i - 1 /\ k \in 1 .. Len(c) /\ k <= Len(a) /\ a[k] = c[k]
      BY <1>1, <1>2
    <2>4. \A j \in 1 .. k - 1 : j <= Len(b) /\ b[j] = c[j] /\ j <= Len(a) /\ a[j] = b[j]
      <3>1. \A j \in 1 .. k - 1 : j \in 1 .. i - 1 /\ j \notin Differ
        BY <1>1, <1>2, <2>2, <2>3
      <3>2. QED
        BY <1>1, <1>2, <2>3, <3>1
    <2>5. CASE k > Len(b)
      BY <2>3, <2>4, <2>5 DEF Less
    <2>6. CASE k <= Len(b)
      <3>1. b[k] \in Nat /\ c[k] \in Nat /\ b[k] # c[k] /\ k \in 1 .. Len(b)
        BY <1>2, <2>2, <2>3, <2>6
      <3>2. CASE b[k] < c[k]
        BY <2>3, <2>4, <3>2 DEF Less
      <3>3. CASE a[k] < b[k]
        BY <2>4, <3>1, <3>3 DEF Less
      <3>4. QED
        BY <2>3, <3>1, <3>2, <3>3
    <2>7. QED
      BY <1>2, <2>3, <2>5, <2>6
  <1>5. QED
    BY <1>3, <1>4

LEMMA NumbersType == ASSUME NEW f \in Files PROVE Numbers(f) \in Seq(Nat)
  <1>1. Release[f] \in Seq(Nat) /\ Candidate[f] \in Nat
    BY SetupAssumption
  <1>2. Len(Release[f]) - 1 <= Len(Release[f]) /\ Len(Release[f]) \in Nat
    BY <1>1
  <1>3. SubSeq(Release[f], 1, Len(Release[f]) - 1) \in Seq(Nat)
    BY <1>1, <1>2
  <1>4. QED
    BY <1>1, <1>3 DEF Numbers

(* Packages are ordered strictly and without ties.                         *)
LEMMA PrecedesTotal ==
    ASSUME NEW f \in Files, NEW g \in Files, f # g
    PROVE  Precedes(f, g) \/ Precedes(g, f)
  BY SetupAssumption DEF Precedes

LEMMA PrecedesTransitive ==
    ASSUME NEW f \in Files, NEW g \in Files, NEW h \in Files,
           Precedes(f, g), Precedes(g, h)
    PROVE  Precedes(f, h)
  <1> DEFINE F == Numbers(f)  G == Numbers(g)  H == Numbers(h)
  <1>1. F \in Seq(Nat) /\ G \in Seq(Nat) /\ H \in Seq(Nat)
    BY NumbersType
  <1>2. Rank[f] \in Nat /\ Rank[g] \in Nat /\ Rank[h] \in Nat
    BY SetupAssumption
  <1>3. ~Less(F, G) /\ ~Less(G, H)
    BY <1>1, LessAsymmetric DEF Precedes
  <1>4. ~Less(F, H)
    <2> HIDE DEF F, G, H
    <2>1. QED
      BY <1>1, <1>3, LessSplits
  <1>5. CASE Less(G, F) \/ Less(H, G)
    <2> SUFFICES Less(H, F)
      BY DEF Precedes
    <2>1. ASSUME Less(G, F) PROVE Less(G, H) \/ Less(H, F)
      <3> HIDE DEF F, G, H
      <3>1. QED
        BY <1>1, <2>1, LessSplits
    <2>2. ASSUME Less(H, G) PROVE Less(H, F) \/ Less(F, G)
      <3> HIDE DEF F, G, H
      <3>1. QED
        BY <1>1, <2>2, LessSplits
    <2>3. QED
      BY <1>3, <1>5, <2>1, <2>2
  <1>6. CASE Rank[f] > Rank[g] /\ Rank[g] > Rank[h]
    BY <1>2, <1>4, <1>6 DEF Precedes
  <1>7. QED
    BY <1>5, <1>6 DEF Precedes

-----------------------------------------------------------------------------
(* What the lookups find.                                                  *)
LEMMA LatestIsFirst ==
    ASSUME NEW P \in SUBSET Files, P # {}
    PROVE  Latest(P) \in P /\ \A g \in P \ {Latest(P)} : Precedes(Latest(P), g)
  <1> DEFINE R == {e \in Files \X Files : Precedes(e[1], e[2])}
  <1>1. \A x, y \in Files : <<x, y>> \in R <=> Precedes(x, y)
    OBVIOUS
  <1>2. IsFiniteSet(P)
    BY SetupAssumption, FS_Subset
  <1>3. \A x, y \in P : x # y => <<x, y>> \in R \/ <<y, x>> \in R
    BY <1>1, PrecedesTotal
  <1>4. \A x, y, z \in P : <<x, y>> \in R /\ <<y, z>> \in R => <<x, z>> \in R
    BY <1>1, PrecedesTransitive
  <1> HIDE DEF R
  <1>5. PICK f \in P : \A g \in P \ {f} : <<f, g>> \in R
    BY <1>2, <1>3, <1>4, FiniteHasFirst
  <1>6. \A g \in P \ {f} : Precedes(f, g)
    BY <1>1, <1>5
  <1>7. QED
    BY <1>6 DEF Latest

LEMMA LatestType ==
    ASSUME NEW P \in SUBSET Files PROVE Latest(P) \in P \union {None}
  <1>1. CASE P = {}
    BY <1>1 DEF Latest
  <1>2. CASE P # {}
    BY <1>2, LatestIsFirst
  <1>3. QED
    BY <1>1, <1>2

LEMMA LowestRank ==
    ASSUME NEW P \in SUBSET Files, P # {}
    PROVE  \E f \in P : \A g \in P : Rank[f] <= Rank[g]
  <1> DEFINE R == {e \in Files \X Files : Rank[e[1]] < Rank[e[2]]}
  <1>1. \A x, y \in Files : <<x, y>> \in R <=> Rank[x] < Rank[y]
    OBVIOUS
  <1>2. IsFiniteSet(P)
    BY SetupAssumption, FS_Subset
  <1>3. \A x \in Files : Rank[x] \in Nat
    BY SetupAssumption
  <1>4. \A x, y \in P : x # y => <<x, y>> \in R \/ <<y, x>> \in R
    BY <1>1, <1>3, SetupAssumption
  <1>5. \A x, y, z \in P : <<x, y>> \in R /\ <<y, z>> \in R => <<x, z>> \in R
    BY <1>1, <1>3
  <1> HIDE DEF R
  <1>6. PICK f \in P : \A g \in P \ {f} : <<f, g>> \in R
    BY <1>2, <1>4, <1>5, FiniteHasFirst
  <1>7. \A g \in P : Rank[f] <= Rank[g]
    <2>1. \A g \in P \ {f} : Rank[f] < Rank[g]
      BY <1>1, <1>6
    <2>2. \A g \in P : Rank[g] \in Nat
      BY <1>3
    <2>3. QED
      BY <2>1, <2>2
  <1>8. QED
    BY <1>7

LEMMA VersionsTypes ==
    /\ Versions \subseteq Files
    /\ "latest" \notin Versions /\ "unknown" \notin Versions
    /\ None \notin Files
    /\ \A f : VersionOf(f) \in Versions \union {"unknown"}
  BY SetupAssumption DEF Versions, VersionOf

LEMMA LookupType ==
    ASSUME NEW P \in SUBSET Files, NEW v \in Versions \union {"unknown", "latest"}
    PROVE  WithVersion(P, v) \in P \union {None}
  <1>1. CASE v = "latest"
    BY <1>1, LatestType DEF WithVersion
  <1>2. CASE v # "latest"
    <2> DEFINE found == IF v = "unknown" THEN {} ELSE P \intersect Mentions[v]
    <2>1. CASE found = {}
      BY <1>2, <2>1 DEF WithVersion
    <2>2. CASE found # {}
      <3>1. found \in SUBSET Files /\ found \subseteq P
        OBVIOUS
      <3>2. \E f \in found : \A g \in found : Rank[f] <= Rank[g]
        <4> HIDE DEF found
        <4>1. QED
          BY <2>2, <3>1, LowestRank
      <3>3. WithVersion(P, v) = CHOOSE f \in found : \A g \in found : Rank[f] <= Rank[g]
        BY <1>2, <2>2 DEF WithVersion
      <3> HIDE DEF found
      <3>4. WithVersion(P, v) \in found
        BY <3>2, <3>3
      <3>5. QED
        BY <3>1, <3>4
    <2>3. QED
      BY <2>1, <2>2
  <1>3. QED
    BY <1>1, <1>2

(* A version whose package is there is found: as that package, or as one   *)
(* that mentions it and comes before it.                                   *)
LEMMA LookupFinds ==
    ASSUME NEW P \in SUBSET Files, NEW v \in Versions, v \in P
    PROVE  LET f == WithVersion(P, v) IN
           /\ f \in Files
           /\ f = v \/ (f \in Mentions[v] /\ Rank[f] < Rank[v])
  <1> DEFINE found == P \intersect Mentions[v]
             f == WithVersion(P, v)
  <1>1. v \in found /\ found \in SUBSET Files /\ v \in Files
    BY SetupAssumption DEF Versions
  <1>2. f = CHOOSE x \in found : \A g \in found : Rank[x] <= Rank[g]
    BY <1>1, VersionsTypes DEF WithVersion
  <1>3. \E x \in found : \A g \in found : Rank[x] <= Rank[g]
    <2> HIDE DEF found
    <2>1. QED
      BY <1>1, LowestRank
  <1>4. f \in found /\ \A g \in found : Rank[f] <= Rank[g]
    <2> HIDE DEF found, f
    <2>1. QED
      BY <1>2, <1>3
  <1>5. f \in Files /\ f \in Mentions[v] /\ Rank[f] <= Rank[v]
    <2>1. Rank[f] <= Rank[v]
      <3> HIDE DEF found, f
      <3>1. QED
        BY <1>1, <1>4
    <2>2. f \in Files /\ f \in Mentions[v]
      <3> HIDE DEF f
      <3>1. QED
        BY <1>1, <1>4
    <2>3. QED
      BY <2>1, <2>2
  <1> HIDE DEF f
  <1>6. f = v \/ Rank[f] < Rank[v]
    BY <1>1, <1>5, SetupAssumption
  <1>7. QED
    BY <1>5, <1>6 DEF f

-----------------------------------------------------------------------------
(* The invariant says of every tenant's setup what it says of a record x   *)
(* when C have consented and P are uploaded; all of it stays true while    *)
(* these two sets grow, and they never shrink.                             *)
Good(x, C, P) ==
    /\ x \in Setup
    /\ x.stage = "linked" =>
          "Owner" \in x.azure \/ {"Contributor", "UserAccessAdministrator"} \subseteq x.azure
    /\ x.stage \in {"listing", "template"} => x.principal \in C \union {None}
    /\ x.stage \in {"template", "agent"} /\ x.version \in Versions => x.version \in P
    /\ x.stage = "agent" /\ x.version \in Versions =>
          /\ x.runs \in Files
          /\ x.runs = x.version \/ (x.runs \in Mentions[x.version] /\ Rank[x.runs] < Rank[x.version])

IInv ==
    /\ consented \subseteq Tenants /\ packages \subseteq Files
    /\ cachedSp \in [Replicas -> consented \union {None}]
    /\ setup \in [Tenants -> Setup]
    /\ \A t \in Tenants : Good(setup[t], consented, packages)

LEMMA Shapes ==
    ASSUME NEW x \in Setup
    PROVE  /\ x.stage \in {"none", "linked", "asking", "listing", "template", "agent", "updated"}
           /\ x.stage = "linked" => x.azure \subseteq AzureRoles
           /\ x.stage = "asking" => x.at \in Replicas
           /\ x.stage \in {"listing", "template"} => x.principal \in Tenants \union {None}
           /\ x.stage \in {"template", "agent"} => x.version \in Versions \union {"unknown", "latest"}
           /\ x.stage \in {"agent", "updated"} => x.runs \in Files \union {None}
           /\ x.stage = "updated" => x.package \in Files /\ x.valid \in BOOLEAN
                                       /\ x = [stage |-> "updated", package |-> x.package,
                                               valid |-> x.valid, runs |-> x.runs]
  BY DEF Setup

(* A step that gives one tenant a new setup.                               *)
LEMMA BecomesGood ==
    ASSUME IInv, NEW t \in Tenants, NEW x, Becomes(t, x),
           UNCHANGED <<consented, cachedSp, packages>>, Good(x, consented, packages)
    PROVE  IInv'
  <1>1. x \in Setup
    BY DEF Good
  <1>2. setup' \in [Tenants -> Setup]
    BY <1>1 DEF IInv, Becomes
  <1>3. \A u \in Tenants : Good(setup'[u], consented, packages)
    BY DEF IInv, Becomes
  <1>4. QED
    BY <1>2, <1>3 DEF IInv

LEMMA Init_IInv == Init => IInv
  <1> SUFFICES ASSUME Init PROVE IInv
    OBVIOUS
  <1>1. Good([stage |-> "none"], {}, {})
    BY DEF Good, Setup
  <1>2. setup \in [Tenants -> Setup]
    BY DEF Init, Setup
  <1>3. QED
    BY <1>1, <1>2 DEF Init, IInv

LEMMA StepUpload ==
    ASSUME IInv, NEW f \in Files, Upload(f) PROVE IInv'
  <1>1. \A t \in Tenants : Good(setup[t], consented, packages \union {f})
    BY DEF IInv, Good
  <1>2. QED
    BY <1>1 DEF IInv, Upload

LEMMA StepConsent ==
    ASSUME IInv, NEW t \in Tenants, Consent(t) PROVE IInv'
  <1>1. \A u \in Tenants : Good(setup[u], consented \union {t}, packages)
    BY DEF IInv, Good
  <1>2. cachedSp \in [Replicas -> consented \union {t} \union {None}]
    BY DEF IInv
  <1>3. QED
    BY <1>1, <1>2 DEF IInv, Consent

(* What a user needs to deploy.                                            *)
LEMMA DeployPermission ==
    ASSUME NEW roles \in SUBSET AzureRoles, MayDeploy(roles)
    PROVE  "Owner" \in roles \/ {"Contributor", "UserAccessAdministrator"} \subseteq roles
  <1>1. PICK r \in roles : "deployments/write" \in Actions(r) /\ "deployments/write" \notin NotActions(r)
    BY DEF MayDeploy, Required
  <1>2. PICK s \in roles :
           "roleDefinitions/write" \in Actions(s) /\ "roleDefinitions/write" \notin NotActions(s)
    BY DEF MayDeploy, Required
  <1>3. r = "Owner" \/ r = "Contributor"
    BY <1>1 DEF Actions, AzureRoles
  <1>4. s = "Owner" \/ s = "UserAccessAdministrator"
    BY <1>2 DEF NotActions, AzureRoles
  <1>5. QED
    BY <1>3, <1>4

LEMMA StepSetupInfo ==
    ASSUME IInv, NEW t \in Tenants, SetupInfo(t) PROVE IInv'
  <1>1. PICK roles \in SUBSET AzureRoles :
           MayDeploy(roles) /\ Becomes(t, [stage |-> "linked", azure |-> roles])
    BY DEF SetupInfo
  <1>2. Good([stage |-> "linked", azure |-> roles], consented, packages)
    BY <1>1, DeployPermission DEF Good, Setup
  <1>3. QED
    BY <1>1, <1>2, BecomesGood DEF SetupInfo

LEMMA StepFromCache ==
    ASSUME IInv, NEW r \in Replicas, NEW t \in Tenants, FromCache(r, t) PROVE IInv'
  <1>1. cachedSp[r] \in consented /\ cachedSp[r] \in Tenants
    BY DEF IInv, FromCache
  <1>2. Good([stage |-> "listing", principal |-> cachedSp[r]], consented, packages)
    BY <1>1 DEF Good, Setup
  <1>3. QED
    BY <1>2, BecomesGood DEF FromCache

LEMMA StepAskGraph ==
    ASSUME IInv, NEW r \in Replicas, NEW t \in Tenants, AskGraph(r, t) PROVE IInv'
  <1>1. Good([stage |-> "asking", at |-> r], consented, packages)
    BY DEF Good, Setup
  <1>2. QED
    BY <1>1, BecomesGood DEF AskGraph

LEMMA StepGraphAnswers ==
    ASSUME IInv, NEW t \in Tenants, GraphAnswers(t) PROVE IInv'
  <1> DEFINE x == [stage |-> "listing", principal |-> t]
  <1>1. Good(x, consented, packages)
    BY DEF Good, Setup, GraphAnswers
  <1>2. setup' = [setup EXCEPT ![t] = x] /\ UNCHANGED <<consented, packages>> /\ t \in consented
    BY DEF GraphAnswers, Becomes
  <1>3. cachedSp' \in [Replicas -> consented \union {None}]
    BY <1>2 DEF IInv, GraphAnswers
  <1>4. x \in Setup
    BY <1>1 DEF Good
  <1> HIDE DEF x
  <1>5. setup' \in [Tenants -> Setup]
    BY <1>2, <1>4 DEF IInv
  <1>6. \A u \in Tenants : Good(setup'[u], consented, packages)
    BY <1>1, <1>2 DEF IInv
  <1>7. QED
    BY <1>2, <1>3, <1>5, <1>6 DEF IInv

LEMMA StepGraphFails ==
    ASSUME IInv, NEW t \in Tenants, GraphFails(t) PROVE IInv'
  <1>1. Good([stage |-> "listing", principal |-> None], consented, packages)
    BY DEF Good, Setup
  <1>2. QED
    BY <1>1, BecomesGood DEF GraphFails

LEMMA StepHandOut ==
    ASSUME IInv, NEW t \in Tenants, HandOut(t) PROVE IInv'
  <1> DEFINE x(v) == [stage |-> "template", principal |-> setup[t].principal, version |-> v]
  <1>1. PICK v \in {"latest", IF packages = {} THEN "latest" ELSE VersionOf(Latest(packages))} :
           Becomes(t, x(v))
    BY DEF HandOut
  <1>2. v \in Versions \union {"unknown", "latest"}
    BY VersionsTypes
  <1>3. v \in Versions => v \in packages
    <2>1. CASE v = "latest"
      BY <2>1, VersionsTypes
    <2>2. CASE packages # {} /\ v = VersionOf(Latest(packages))
      <3>1. Latest(packages) \in packages
        BY <2>2, LatestIsFirst DEF IInv
      <3>2. QED
        BY <2>2, <3>1, VersionsTypes DEF VersionOf
    <2>3. QED
      BY <2>1, <2>2
  <1>4. setup[t].principal \in consented \union {None} /\ setup[t].principal \in Tenants \union {None}
    BY DEF IInv, Good, HandOut, At
  <1>5. Good(x(v), consented, packages)
    BY <1>2, <1>3, <1>4 DEF Good, Setup
  <1> HIDE DEF x
  <1>6. QED
    BY <1>1, <1>5, BecomesGood DEF HandOut

LEMMA StepRestart ==
    ASSUME IInv, NEW r \in Replicas, Restart(r) PROVE IInv'
  <1>1. cachedSp' \in [Replicas -> consented \union {None}]
    BY DEF IInv, Restart
  <1>2. Good([stage |-> "none"], consented, packages)
    BY DEF Good, Setup
  <1>3. \A t \in Tenants : setup'[t] = [stage |-> "none"] \/ setup'[t] = setup[t]
    BY DEF Restart
  <1>4. \A t \in Tenants : Good(setup'[t], consented, packages)
    BY <1>2, <1>3 DEF IInv
  <1>5. setup' \in [Tenants -> Setup]
    <2>1. \A t \in Tenants : setup'[t] \in Setup
      BY <1>4 DEF Good
    <2>2. setup' = [t \in Tenants |-> setup'[t]]
      BY DEF Restart
    <2>3. QED
      BY <2>1, <2>2
  <1>6. QED
    BY <1>1, <1>4, <1>5 DEF IInv, Restart

(* A start finds the package of the frozen version or its namesake.        *)
LEMMA StepStart ==
    ASSUME IInv, NEW t \in Tenants, Start(t, setup[t].version), At(t, "template") \/ At(t, "agent")
    PROVE  IInv'
  <1> DEFINE v == setup[t].version
             f == Download(packages, v)
             x == [stage |-> "agent", version |-> v, runs |-> f]
  <1>1. v \in Versions \union {"unknown", "latest"} /\ (v \in Versions => v \in packages)
    BY Shapes DEF IInv, Good, At
  <1>2. f \in Files \union {None}
    BY <1>1, LookupType DEF IInv, Download
  <1>3. v \in Versions => f \in Files /\ (f = v \/ (f \in Mentions[v] /\ Rank[f] < Rank[v]))
    BY <1>1, LookupFinds DEF IInv, Download
  <1>4. Becomes(t, x) /\ UNCHANGED <<consented, cachedSp, packages>>
    BY DEF Start
  <1> HIDE DEF v, f
  <1>5. Good(x, consented, packages)
    BY <1>1, <1>2, <1>3 DEF Good, Setup
  <1> HIDE DEF x
  <1>6. QED
    BY <1>4, <1>5, BecomesGood

LEMMA StepRequestUpdate ==
    ASSUME IInv, NEW t \in Tenants, NEW v \in Versions \union {"latest"}, RequestUpdate(t, v)
    PROVE  IInv'
  <1> DEFINE package == WithVersion(packages, v)
             x == [stage |-> "updated", package |-> package, valid |-> TRUE, runs |-> package]
  <1>1. package \in Files
    BY LookupType DEF IInv, RequestUpdate
  <1>2. Becomes(t, x) /\ UNCHANGED <<consented, cachedSp, packages>>
    BY DEF RequestUpdate
  <1> HIDE DEF package
  <1>3. Good(x, consented, packages)
    BY <1>1 DEF Good, Setup
  <1> HIDE DEF x
  <1>4. QED
    BY <1>2, <1>3, BecomesGood

LEMMA StepLinks ==
    ASSUME IInv, NEW t \in Tenants, LinkExpires(t) \/ StartFromLink(t)
    PROVE  IInv'
  <1> DEFINE x == setup[t]
             Link(valid, runs) ==
                [stage |-> "updated", package |-> x.package, valid |-> valid, runs |-> runs]
  <1>1. /\ x.stage = "updated" /\ x.package \in Files /\ x.valid \in BOOLEAN
        /\ x.runs \in Files \union {None} /\ x = Link(x.valid, x.runs)
    BY Shapes DEF IInv, LinkExpires, StartFromLink, At
  <1>2. \A valid \in BOOLEAN, runs \in Files \union {None} : Good(Link(valid, runs), consented, packages)
    BY <1>1 DEF Good, Setup
  <1>3. CASE LinkExpires(t)
    <2>1. [x EXCEPT !.valid = FALSE] = Link(FALSE, x.runs)
      <3> HIDE DEF x
      <3>1. \A b : [x EXCEPT !.valid = b] = Link(b, x.runs)
        BY <1>1
      <3>2. QED
        BY <3>1
    <2>2. Becomes(t, Link(FALSE, x.runs)) /\ UNCHANGED <<consented, cachedSp, packages>>
      BY <1>3, <2>1 DEF LinkExpires
    <2> HIDE DEF x, Link
    <2>3. QED
      BY <1>1, <1>2, <2>2, BecomesGood
  <1>4. CASE StartFromLink(t)
    <2> DEFINE runs == IF x.valid THEN x.package ELSE None
    <2>1. [x EXCEPT !.runs = runs] = Link(x.valid, runs) /\ runs \in Files \union {None}
      BY <1>1
    <2>2. Becomes(t, Link(x.valid, runs)) /\ UNCHANGED <<consented, cachedSp, packages>>
      BY <1>4, <2>1 DEF StartFromLink
    <2> HIDE DEF x, Link, runs
    <2>3. QED
      BY <1>1, <1>2, <2>1, <2>2, BecomesGood
  <1>5. QED
    BY <1>3, <1>4

LEMMA Step_IInv == IInv /\ [Next]_vars => IInv'
  <1> SUFFICES ASSUME IInv, [Next]_vars PROVE IInv'
    OBVIOUS
  <1>1. CASE UNCHANGED vars
    <2>1. UNCHANGED <<consented, cachedSp, packages, setup>>
      BY <1>1 DEF vars
    <2>2. QED
      BY <2>1 DEF IInv
  <1>2. CASE \E f \in Files : Upload(f)
    BY <1>2, StepUpload
  <1>3. ASSUME NEW t \in Tenants,
               \/ SetupInfo(t) \/ Consent(t) \/ GraphAnswers(t) \/ GraphFails(t) \/ HandOut(t)
               \/ Deploy(t) \/ StartAgain(t) \/ LinkExpires(t) \/ StartFromLink(t)
        PROVE  IInv'
    <2>1. CASE Deploy(t) \/ StartAgain(t)
      BY <2>1, StepStart DEF Deploy, StartAgain
    <2>2. QED
      BY <1>3, <2>1, StepSetupInfo, StepConsent, StepGraphAnswers, StepGraphFails, StepHandOut,
         StepLinks
  <1>4. CASE \E t \in Tenants, v \in Versions \union {"latest"} : RequestUpdate(t, v)
    BY <1>4, StepRequestUpdate
  <1>5. CASE \E r \in Replicas, t \in Tenants : FromCache(r, t) \/ AskGraph(r, t)
    BY <1>5, StepFromCache, StepAskGraph
  <1>6. CASE \E r \in Replicas : Restart(r)
    BY <1>6, StepRestart
  <1>7. QED
    BY <1>1, <1>2, <1>3, <1>4, <1>5, <1>6 DEF Next

LEMMA Always_IInv == Spec => []IInv
  BY Init_IInv, Step_IInv, PTL DEF Spec

-----------------------------------------------------------------------------
LEMMA IInv_Types == IInv => TypeOK
  BY DEF IInv, TypeOK

LEMMA IInv_Links == IInv => LinkMeansPermission
  BY DEF IInv, Good, At, LinkMeansPermission

LEMMA IInv_Principals == IInv => PrincipalsExist
  BY DEF IInv, Good, At, PrincipalsExist

LEMMA IInv_Installable == IInv => TemplatesStayInstallable
  <1> SUFFICES ASSUME IInv, NEW t \in Tenants, At(t, "template") \/ At(t, "agent"),
                      setup[t].version \in Versions
               PROVE  /\ Download(packages, setup[t].version) # None
                      /\ At(t, "agent") => setup[t].runs # None
    BY DEF TemplatesStayInstallable
  <1>1. setup[t].version \in packages /\ packages \in SUBSET Files
    BY DEF IInv, Good, At
  <1>2. Download(packages, setup[t].version) \in Files
    BY <1>1, LookupFinds DEF Download
  <1>3. At(t, "agent") => setup[t].runs \in Files
    BY DEF IInv, Good, At
  <1>4. QED
    BY <1>2, <1>3, VersionsTypes

LEMMA IInv_Runs == IInv => RunsFrozenOrNamesake
  BY DEF IInv, Good, At, RunsFrozenOrNamesake

(* Tenants, replicas and packages keep to their types: in particular every *)
(* lookup ends with a package or with nothing.                             *)
THEOREM SetupTypes == Spec => []TypeOK
  BY Always_IInv, IInv_Types, PTL

(* A link to the portal is only given to a user who may deploy             *)
(* (check_deployment_permission, arm_service.py:135-141).                  *)
THEOREM LinksNeedPermission == Spec => []LinkMeansPermission
  BY Always_IInv, IInv_Links, PTL

(* Whatever principal a template names, Graph has named it before          *)
(* (get_own_service_principal_id, graph_service.py:163).                   *)
THEOREM NamedPrincipalsExist == Spec => []PrincipalsExist
  BY Always_IInv, IInv_Principals, PTL

(* What a template freezes stays downloadable, and an agent that was       *)
(* deployed with it has something to run (template.py:129,                 *)
(* download_package_use_case.py:18).                                       *)
THEOREM FrozenVersionsStay == Spec => []TemplatesStayInstallable
  BY Always_IInv, IInv_Installable, PTL

(* What it runs is the frozen package or a namesake that comes before it   *)
(* (get_by_version, repository.py:221).                                    *)
THEOREM FrozenOrNamesake == Spec => []RunsFrozenOrNamesake
  BY Always_IInv, IInv_Runs, PTL

(* A release that is frozen is the newest of the releases uploaded by then *)
(* (get_by_version, repository.py:213).                                    *)
THEOREM NewestIsFrozen == Spec => FrozenReleaseIsNewest
  <1> DEFINE Newest ==
        \A t \in Tenants :
          /\ At(t, "listing") /\ At(t, "template")'
          /\ setup'[t].version \in Releases(packages)
          => \A f \in Releases(packages) : ~Less(Release[setup'[t].version], Release[f])
  <1>1. ASSUME IInv, [Next]_vars PROVE [Newest]_vars
    <2> SUFFICES ASSUME NEW t \in Tenants, At(t, "listing"), At(t, "template")',
                        setup'[t].version \in Releases(packages),
                        NEW f \in Releases(packages)
                 PROVE  ~Less(Release[setup'[t].version], Release[f])
      OBVIOUS
    <2> DEFINE v == setup'[t].version
    <2>1. v \in packages /\ v \in Files /\ f \in packages /\ f \in Files /\ packages \in SUBSET Files
      BY <1>1 DEF Releases, IInv, Versions
    <2>2. Numbers(v) = Release[v] /\ Numbers(f) = Release[f]
      BY DEF Releases, Numbers
    <2>3. HandOut(t)
      BY <1>1 DEF Next, vars, At, Becomes, IInv, Upload, SetupInfo, Consent, GraphAnswers,
                  GraphFails, HandOut, Deploy, StartAgain, Start, LinkExpires, StartFromLink,
                  RequestUpdate, FromCache, AskGraph, Restart
    <2>4. v = "latest" \/ v = VersionOf(Latest(packages))
      BY <1>1, <2>3 DEF HandOut, Becomes, IInv
    <2>5. v = Latest(packages)
      BY <2>1, <2>4, SetupAssumption DEF VersionOf
    <2>6. v = f \/ Precedes(v, f)
      BY <2>1, <2>5, LatestIsFirst
    <2>7. ~Less(Numbers(v), Numbers(f))
      <3>1. Numbers(v) \in Seq(Nat) /\ Numbers(f) \in Seq(Nat)
        BY <2>1, NumbersType
      <3> HIDE DEF v
      <3>2. CASE v = f
        BY <3>1, <3>2, LessAsymmetric
      <3>3. CASE Precedes(v, f)
        BY <3>1, <3>3, LessAsymmetric DEF Precedes
      <3>4. QED
        BY <2>6, <3>2, <3>3
    <2>8. QED
      BY <2>2, <2>7
  <1>2. QED
    BY <1>1, Always_IInv, PTL DEF Spec, FrozenReleaseIsNewest
=============================================================================
