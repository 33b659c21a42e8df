---------------------- MODULE EnvironmentService_proofs ----------------------
(***************************************************************************)
(* The safety of the Environment service, for every set of connections,    *)
(* grants, sessions, requests and host processes: of EnvironmentEndpoint,  *)
(* which implements RequestLedger, of the calls of LocalBridge, its        *)
(* client, and of the scans of HostInventory, on which it moves a claim.   *)
(*                                                                         *)
(* Two facts carry the first two.  A thread holds the locks of its grant's *)
(* selection and of its session from where it took them to where it leaves *)
(* them, and a recovery that of the owner, another session, while it       *)
(* revokes: LockInv.  A request is in the hands of one thread at a time,   *)
(* which has not run it yet as long as it has not come to an answer:       *)
(* ServingInv, with what the order of the kept answers says of them.  The  *)
(* third rests on the bridge waiting for one connection at a time.  The    *)
(* last is about the processes that were listed and still are what they    *)
(* were: whatever a scan has read of those stays true while others come    *)
(* and go (ScanInv).                                                       *)
(***************************************************************************)
EXTENDS EnvironmentService, SequenceTheorems, NaturalsInduction, WellFoundedInduction, TLAPS

(* The least of some numbers.                                            *)
LEMMA Least ==
    ASSUME NEW S, S \subseteq Nat, S # {}
    PROVE  \E x \in S : \A y \in S : x <= y
<1> DEFINE R == {p \in Nat \X Nat : p[1] < p[2]}
<1>1. IsWellFoundedOn(R, Nat)
  BY NatLessThanWellFounded, Zenon DEF OpToRel
<1> HIDE DEF R
<1>2. PICK x \in S : \A y \in S : <<y, x>> \notin R
  BY <1>1, WFMin, Zenon
<1>3. ASSUME NEW y \in S PROVE x <= y
  <2>1. x \in Nat /\ y \in Nat
    OBVIOUS
  <2>2. <<y, x>> \in R <=> y < x
    BY <2>1 DEF R
  <2> QED
    BY <1>2, <2>1, <2>2
<1> QED
  BY <1>3

(* The answers are kept in the order of their use, each request once.      *)
LEMMA Place ==
    ASSUME NEW s \in Seq(Ids), NEW i \in Ids, i \in ToSet(s)
    PROVE  \E k \in 1..Len(s) : s[k] = i /\ RemoveFirst(s, i) = RemoveAt(s, k)
<1> DEFINE I == {k \in 1..Len(s) : s[k] = i}
<1>1. I # {} /\ I \subseteq Nat
  BY DEF ToSet
<1>2. SelectInSeq(s, LAMBDA v : v = i) = Min(I)
  BY <1>1 DEF SelectInSeq
<1>3. RemoveFirst(s, i) = RemoveAt(s, Min(I))
  BY <1>1, <1>2 DEF RemoveFirst
<1> HIDE DEF I
<1>4. Min(I) \in I
  <2>1. PICK x \in I : \A y \in I : x =< y
    BY <1>1, Least
  <2> QED
    BY <2>1 DEF Min
<1> QED
  BY <1>3, <1>4 DEF I

LEMMA Without ==
    ASSUME NEW s \in Seq(Ids), NEW k \in 1..Len(s)
    PROVE  /\ RemoveAt(s, k) \in Seq(Ids)
           /\ Len(RemoveAt(s, k)) = Len(s) - 1
           /\ \A j \in 1..Len(s) - 1 : RemoveAt(s, k)[j] = IF j < k THEN s[j] ELSE s[j + 1]
<1> DEFINE a == SubSeq(s, 1, k - 1)
           b == SubSeq(s, k + 1, Len(s))
<1>1. PICK n \in Nat : n = Len(s) /\ k \in Nat /\ 1 <= k /\ k <= n
  OBVIOUS
<1>2. /\ a \in Seq(Ids) /\ Len(a) = k - 1
      /\ b \in Seq(Ids) /\ Len(b) = n - k
  BY <1>1
<1>3. /\ \A j \in 1..k - 1 : a[j] = s[j]
      /\ \A j \in 1..n - k : b[j] = s[k + j]
  BY <1>1
<1>4. RemoveAt(s, k) = a \o b
  BY DEF RemoveAt
<1> HIDE DEF a, b
<1> DEFINE m == a \o b
<1>5. /\ m \in Seq(Ids) /\ Len(m) = Len(a) + Len(b)
      /\ \A j \in 1..Len(a) + Len(b) : m[j] = IF j <= Len(a) THEN a[j] ELSE b[j - Len(a)]
  BY <1>2, ConcatProperties
<1> HIDE DEF m
<1>6. Len(a) + Len(b) = n - 1 /\ Len(a) = k - 1
  BY <1>1, <1>2
<1>7. ASSUME NEW j \in 1..n - 1 PROVE m[j] = IF j < k THEN s[j] ELSE s[j + 1]
  <2>1. CASE j < k
    <3>1. j \in 1..k - 1 /\ j <= k - 1
      BY <1>1, <2>1
    <3> QED
      BY <1>3, <1>5, <1>6, <2>1, <3>1
  <2>2. CASE ~(j < k)
    <3>1. /\ ~(j <= k - 1) /\ j - (k - 1) \in 1..n - k
          /\ k + (j - (k - 1)) = j + 1
      BY <1>1, <2>2
    <3>2. m[j] = b[j - (k - 1)]
      BY <1>5, <1>6, <3>1
    <3>3. b[j - (k - 1)] = s[j + 1]
      BY <1>3, <3>1
    <3> QED
      BY <2>2, <3>2, <3>3
  <2> QED
    BY <2>1, <2>2
<1> QED
  BY <1>1, <1>4, <1>5, <1>6, <1>7 DEF m

LEMMA WithoutOne ==
    ASSUME NEW s \in Seq(Ids), NEW k \in 1..Len(s), IsInjective(s)
    PROVE  LET m == RemoveAt(s, k)
           IN IsInjective(m) /\ \A x : x \in ToSet(m) <=> x \in ToSet(s) /\ x # s[k]
<1> DEFINE m == RemoveAt(s, k)
<1>1. /\ m \in Seq(Ids) /\ Len(m) = Len(s) - 1 /\ Len(s) \in Nat
      /\ \A j \in 1..Len(s) - 1 : m[j] = IF j < k THEN s[j] ELSE s[j + 1]
  BY Without
<1> HIDE DEF m
<1>2. IsInjective(m)
  <2> SUFFICES ASSUME NEW x \in 1..Len(s) - 1, NEW y \in 1..Len(s) - 1, m[x] = m[y] PROVE x = y
    BY <1>1 DEF IsInjective
  <2> DEFINE up(j) == IF j < k THEN j ELSE j + 1
  <2>1. s[up(x)] = s[up(y)] /\ up(x) \in 1..Len(s) /\ up(y) \in 1..Len(s)
    BY <1>1
  <2>2. up(x) = up(y)
    BY <2>1 DEF IsInjective
  <2> QED
    BY <1>1, <2>2
<1>3. ASSUME NEW x, x \in ToSet(m) PROVE x \in ToSet(s) /\ x # s[k]
  BY <1>1, <1>3 DEF IsInjective, ToSet
<1>4. ASSUME NEW x, x \in ToSet(s), x # s[k] PROVE x \in ToSet(m)
  <2>1. PICK j \in 1..Len(s) : x = s[j]
    BY <1>4 DEF ToSet
  <2>2. IF j < k THEN j \in 1..Len(s) - 1 /\ m[j] = x ELSE j - 1 \in 1..Len(s) - 1 /\ m[j-1] = x
    BY <1>1, <1>4, <2>1
  <2> QED
    BY <1>1, <2>2 DEF ToSet
<1> QED
  BY <1>2, <1>3, <1>4 DEF m

LEMMA Using ==
    ASSUME NEW s \in Seq(Ids), NEW i \in Ids, IsInjective(s)
    PROVE  LET m == Append(RemoveFirst(s, i), i)
           IN /\ m \in Seq(Ids) /\ IsInjective(m) /\ m # <<>>
              /\ \A x : x \in ToSet(m) <=> x \in ToSet(s) \/ x = i
              /\ Len(m) = IF i \in ToSet(s) THEN Len(s) ELSE Len(s) + 1
<1> DEFINE r == RemoveFirst(s, i)
           m == Append(r, i)
<1>1. /\ r \in Seq(Ids) /\ IsInjective(r) /\ Len(s) \in Nat
      /\ \A x : x \in ToSet(r) <=> x \in ToSet(s) /\ x # i
      /\ Len(r) = IF i \in ToSet(s) THEN Len(s) - 1 ELSE Len(s)
  <2>1. CASE i \in ToSet(s)
    <3>1. PICK k \in 1..Len(s) : s[k] = i /\ r = RemoveAt(s, k)
      BY <2>1, Place
    <3> HIDE DEF r
    <3>2. r \in Seq(Ids) /\ Len(r) = Len(s) - 1
      BY <3>1, Without
    <3>3. IsInjective(r) /\ \A x : x \in ToSet(r) <=> x \in ToSet(s) /\ x # i
      BY <3>1, WithoutOne
    <3> QED
      BY <2>1, <3>2, <3>3
  <2>2. CASE i \notin ToSet(s)
    <3>1. r = s
      BY <2>2 DEF RemoveFirst, ToSet
    <3> QED
      BY <2>2, <3>1
  <2> QED
    BY <2>1, <2>2
<1> HIDE DEF r
<1>2. /\ m \in Seq(Ids) /\ Len(m) = Len(r) + 1 /\ Len(r) \in Nat /\ m # <<>>
      /\ m[Len(r) + 1] = i /\ \A j \in 1..Len(r) : m[j] = r[j]
  BY <1>1
<1> HIDE DEF m
<1>3. ASSUME NEW j \in 1..Len(r) PROVE r[j] # i
  <2>1. r[j] \in ToSet(r)
    BY <1>1 DEF ToSet
  <2> QED
    BY <1>1, <2>1
<1>4. IsInjective(m)
  BY <1>1, <1>2, <1>3 DEF IsInjective
<1>5. ASSUME NEW x PROVE x \in ToSet(m) <=> x \in ToSet(r) \/ x = i
  <2>1. ASSUME x \in ToSet(m) PROVE x \in ToSet(r) \/ x = i
    <3>1. PICK j \in 1..Len(m) : x = m[j]
      BY <2>1 DEF ToSet
    <3> QED
      BY <1>2, <3>1 DEF ToSet
  <2>2. ASSUME x \in ToSet(r) PROVE x \in ToSet(m)
    <3>1. PICK j \in 1..Len(r) : x = r[j]
      BY <2>2 DEF ToSet
    <3>2. j \in 1..Len(m) /\ m[j] = x
      BY <1>2, <3>1
    <3> QED
      BY <3>2 DEF ToSet
  <2>3. i \in ToSet(m)
    BY <1>2 DEF ToSet
  <2> QED
    BY <2>1, <2>2, <2>3
<1> QED
  BY <1>1, <1>2, <1>4, <1>5 DEF r, m

LEMMA Evicting ==
    ASSUME NEW m \in Seq(Ids), IsInjective(m), m # <<>>
    PROVE  /\ Tail(m) \in Seq(Ids) /\ IsInjective(Tail(m)) /\ Len(Tail(m)) = Len(m) - 1
           /\ Head(m) \in ToSet(m)
           /\ \A x : x \in ToSet(Tail(m)) <=> x \in ToSet(m) /\ x # Head(m)
<1> DEFINE t == Tail(m)
<1>1. PICK n \in Nat : n = Len(m) /\ n > 0
  BY EmptySeq
<1>2. /\ t \in Seq(Ids) /\ Len(t) = n - 1 /\ Head(m) = m[1]
      /\ \A j \in 1..n - 1 : t[j] = m[j + 1]
  BY <1>1
<1> HIDE DEF t
<1>3. IsInjective(t)
  BY <1>1, <1>2 DEF IsInjective
<1>4. ASSUME NEW x, x \in ToSet(t) PROVE x \in ToSet(m) /\ x # m[1]
  <2>1. PICK j \in 1..n - 1 : x = t[j]
    BY <1>2, <1>4 DEF ToSet
  <2>2. j + 1 \in 1..n /\ j + 1 # 1 /\ m[j + 1] = x /\ 1 \in 1..n
    BY <1>1, <1>2, <2>1
  <2>3. m[j + 1] # m[1]
    BY <1>1, <2>2 DEF IsInjective
  <2> QED
    BY <1>1, <2>2, <2>3 DEF ToSet
<1>5. ASSUME NEW x, x \in ToSet(m), x # m[1] PROVE x \in ToSet(t)
  <2>1. PICK j \in 1..n : x = m[j]
    BY <1>1, <1>5 DEF ToSet
  <2>2. j - 1 \in 1..n - 1 /\ t[j - 1] = x
    BY <1>1, <1>2, <1>5, <2>1
  <2> QED
    BY <1>2, <2>2 DEF ToSet
<1> QED
  BY <1>1, <1>2, <1>3, <1>4, <1>5 DEF t, ToSet

-----------------------------------------------------------------------------
(* The places of a thread: before its request has been run or refused, on  *)
(* its way out with an answer, under the lock of its selection, of its     *)
(* session, in a recovery, and with the lock of the claim's owner.         *)
Before == {"queued", "selected", "held", "claiming", "recovering", "fencing", "validating",
           "before", "revoking", "grants", "after", "publishing", "running"}
Leaving == {"releasing", "unfencing", "leaving", "recording"}
Serving == Before \cup Leaving
Owning == {"validating", "before", "revoking", "grants", "after", "publishing", "releasing"}
Recovering == {"recovering", "fencing", "unfencing"} \cup Owning
Inside == {"held", "claiming", "running", "leaving"} \cup Recovering
Selected == {"selected"} \cup Inside

ThreadsOK ==
    /\ at \in [Conns -> Places]
    /\ answer \in [Conns -> Answers \cup {None}]
    /\ session \in [Conns -> Sessions \cup {None}]
    /\ wanted \in [Conns -> Claim]

GrantsOK ==
    /\ live \subseteq spent /\ lapsed \subseteq spent /\ spent \subseteq Grants
    /\ bound \in [Grants -> Sessions \cup {None}]

RequestsOK ==
    /\ active \subseteq Ids
    /\ recorded \in [Ids -> Answers \cup {None}] /\ runs \in [Ids -> Nat]
    /\ condition \in Conns \cup {None}

LocksOK ==
    /\ selection \in [Grants -> Conns \cup {None}]
    /\ lock \in [Sessions -> Conns \cup {None}]
    /\ fenced \subseteq Sessions
    /\ repository \in [Repositories -> Conns \cup {None}]

ClaimsOK == claim \in [Repositories -> Claim] /\ restarts \in 0..MaxRestarts

Typed == ThreadsOK /\ GrantsOK /\ RequestsOK /\ LocksOK /\ ClaimsOK

LockInv ==
    \A c \in Conns :
        /\ at[c] \in Selected /\ TakesSelection(c) => selection[Grant(c)] = c
        /\ at[c] \in Inside /\ session[c] # None => lock[session[c]] = c
        /\ at[c] \in Recovering => Owner(c) \in Sessions /\ Owner(c) # session[c]
        /\ at[c] \in Owning => lock[Owner(c)] = c

(* What was admitted stays so until the Environment has answered.          *)
AdmittedInv ==
    \A c \in Conns : at[c] \in {"claiming", "running"} /\ NeedsSelected(c) =>
        Grant(c) \in live \cup lapsed /\ bound[Grant(c)] = session[c]

ServingInv ==
    /\ \A c \in Conns : at[c] \in Serving => Id(c) \in active
    /\ \A c, d \in Conns : c # d /\ at[c] \in Serving /\ at[d] \in Serving => Id(c) # Id(d)
    /\ \A c \in Conns : at[c] \in Before => runs[Id(c)] = 0
    /\ \A c \in Conns : at[c] \in Leaving \cup {"answered"} => answer[c] \in Answers

KeptInv ==
    /\ \A i \in Ids : runs[i] <= 1
    /\ \A i \in Ids : recorded[i] = None /\ i \notin active => runs[i] = 0
    /\ \A i \in active : recorded[i] = None
    /\ \A c \in Conns : at[c] = "cached" => condition = c /\ recorded[Id(c)] # None

RecordsInv ==
    /\ records \in Seq(Ids) /\ IsInjective(records) /\ Len(records) <= MaxRecords
    /\ \A i \in Ids : i \in ToSet(records) <=> recorded[i] # None

IInv == Typed /\ LockInv /\ AdmittedInv /\ ServingInv /\ KeptInv /\ RecordsInv

-----------------------------------------------------------------------------
LEMMA Carried ==
    /\ \A c \in Conns : /\ Id(c) \in Ids /\ Grant(c) \in Grants
                        /\ Command(c) \in Commands /\ Repository(c) \in Repositories
                        /\ Request[Id(c)].sessions \subseteq Sessions \cup {None}
    /\ None \notin Sessions /\ None \notin Conns /\ None \notin Answers
    /\ MaxRecords \in Nat \ {0} /\ MaxRestarts \in Nat
  BY RequestAssumption, FirstAssumption DEF Id, Grant, Command, Repository, None, Answers

LEMMA MovedType ==
    ASSUME ThreadsOK, ClaimsOK, NEW c \in Conns
    PROVE  Held(c) \in Claim /\ Moved(c) \in [Repositories -> Claim]
<1> DEFINE p == Repository(c)
           new == [holder |-> session[c], version |-> claim[p].version + 1]
<1>1. p \in Repositories /\ claim[p] \in Claim /\ session[c] \in Sessions \cup {None}
  BY Carried DEF ThreadsOK, ClaimsOK
<1>2. new \in Claim
  BY <1>1 DEF Claim
<1>3. Moved(c) = [claim EXCEPT ![p] = new]
  BY <1>1 DEF Moved, ClaimsOK
<1> HIDE DEF new
<1> QED
  BY <1>1, <1>2, <1>3 DEF Held, ClaimsOK

(* A thread moves, with an answer or without.                              *)
LEMMA ThreadsStep == ASSUME ThreadsOK, GrantsOK, RequestsOK, ClaimsOK, [Next]_vars PROVE ThreadsOK'
<1> USE Carried DEF ThreadsOK, Go, Say, Places, Answers
<1>1. ASSUME NEW c \in Conns, Arrive(c) PROVE ThreadsOK'
  <2>1. RequestSessions(c) \subseteq Sessions \cup {None}
    BY DEF RequestSessions, GrantsOK
  <2> QED
    BY <1>1, <2>1 DEF Arrive
<1>2. ASSUME NEW c \in Conns, Register(c) PROVE ThreadsOK'
  BY <1>2 DEF Register, RequestsOK
<1>3. ASSUME NEW c \in Conns, GiveUp(c) PROVE ThreadsOK'
  BY <1>3 DEF GiveUp
<1>4. ASSUME NEW c \in Conns, ReadCached(c) PROVE ThreadsOK'
  BY <1>4 DEF ReadCached, RequestsOK
<1>5. ASSUME NEW c \in Conns, TakeSelection(c) \/ TakeSession(c) \/ Leave(c) \/ Record(c)
      PROVE  ThreadsOK'
  BY <1>5 DEF TakeSelection, TakeSession, Leave, Record
<1>6. ASSUME NEW c \in Conns, Enter(c) PROVE ThreadsOK'
  BY <1>6 DEF Enter
<1>7. ASSUME NEW c \in Conns, Run(c) PROVE ThreadsOK'
  BY <1>7 DEF Run
<1>8. ASSUME NEW c \in Conns, ReadClaims(c) \/ Fence(c) PROVE ThreadsOK'
  <2>1. Held(c) \in Claim
    BY MovedType
  <2> QED
    BY <1>8, <2>1 DEF ReadClaims, Fence
<1>9. ASSUME NEW c \in Conns, LockOwner(c) \/ Validate(c) PROVE ThreadsOK'
  BY <1>9 DEF LockOwner, Validate
<1>10. ASSUME NEW c \in Conns, InspectBefore(c) \/ InspectAfter(c) PROVE ThreadsOK'
  BY <1>10 DEF InspectBefore, InspectAfter, Inspect
<1>11. ASSUME NEW c \in Conns, RevokeOwner(c) \/ InspectGrants(c) \/ Publish(c) PROVE ThreadsOK'
  BY <1>11 DEF RevokeOwner, InspectGrants, Publish
<1>12. ASSUME NEW c \in Conns, ReleaseOwner(c) \/ Unfence(c) PROVE ThreadsOK'
  BY <1>12 DEF ReleaseOwner, Unfence
<1>13. CASE Restart
  BY <1>13 DEF Restart
<1>14. CASE UNCHANGED threads
  BY <1>14 DEF threads
<1> QED
  BY <1>1, <1>2, <1>3, <1>4, <1>5, <1>6, <1>7, <1>8, <1>9, <1>10, <1>11, <1>12, <1>13, <1>14
     DEF Next, Serve, Handle, IssueGrant, Lapse, Expire, RevokeGrant, vars

LEMMA GrantsStep == ASSUME GrantsOK, [Next]_vars PROVE GrantsOK'
<1> USE Carried DEF GrantsOK
<1>1. ASSUME NEW g \in Grants, IssueGrant(g) \/ Lapse(g) PROVE GrantsOK'
  BY <1>1 DEF IssueGrant, Lapse, Expire, RevokeGrant
<1>2. ASSUME NEW c \in Conns, Enter(c) PROVE GrantsOK'
  BY <1>2 DEF Enter
<1>3. ASSUME NEW c \in Conns, Run(c) PROVE GrantsOK'
  BY <1>3 DEF Run
<1>4. ASSUME NEW c \in Conns, RevokeOwner(c) PROVE GrantsOK'
  BY <1>4 DEF RevokeOwner
<1>5. CASE Restart
  BY <1>5 DEF Restart
<1>6. CASE UNCHANGED grants
  BY <1>6 DEF grants
<1> QED
  BY <1>1, <1>2, <1>3, <1>4, <1>5, <1>6
     DEF Next, Serve, Handle, Arrive, Register, GiveUp, ReadCached, TakeSelection, TakeSession,
         Leave, Record, ReadClaims, Fence, LockOwner, Validate, InspectBefore, InspectAfter, Inspect,
         InspectGrants, Publish, ReleaseOwner, Unfence, vars

LEMMA RequestsStep == ASSUME ThreadsOK, RequestsOK, [Next]_vars PROVE RequestsOK'
<1> USE Carried DEF RequestsOK
<1>1. ASSUME NEW c \in Conns, Register(c) PROVE RequestsOK'
  BY <1>1 DEF Register
<1>2. ASSUME NEW c \in Conns, ReadCached(c) PROVE RequestsOK'
  BY <1>2 DEF ReadCached, requests
<1>3. ASSUME NEW c \in Conns, Run(c) PROVE RequestsOK'
  <2>1. UNCHANGED <<active, recorded, condition>>
    BY <1>3 DEF Run, locks
  <2>2. runs' = [runs EXCEPT ![Id(c)] = @ + 1]
    BY <1>3 DEF Run
  <2> QED
    BY <2>1, <2>2
<1>4. ASSUME NEW c \in Conns, Record(c) PROVE RequestsOK'
  BY <1>4 DEF Record, ThreadsOK, locks
<1>5. ASSUME NEW c \in Conns, Publish(c) PROVE RequestsOK'
  BY <1>5 DEF Publish, locks
<1>6. CASE Restart
  BY <1>6 DEF Restart
<1>7. CASE UNCHANGED <<requests, condition>>
  BY <1>7 DEF requests
<1> QED
  BY <1>1, <1>2, <1>3, <1>4, <1>5, <1>6, <1>7
     DEF Next, Serve, Handle, IssueGrant, Lapse, Expire, RevokeGrant, Arrive, GiveUp,
         TakeSelection, TakeSession, Enter, Leave, ReadClaims, Fence, LockOwner, Validate, InspectBefore, InspectAfter, Inspect, RevokeOwner,
         InspectGrants, ReleaseOwner, Unfence, locks, vars

LEMMA LocksStep == ASSUME ThreadsOK, LocksOK, ClaimsOK, LockInv, [Next]_vars PROVE LocksOK'
<1> USE Carried DEF LocksOK
<1>1. ASSUME NEW c \in Conns, TakeSelection(c) \/ TakeSession(c) \/ Leave(c) PROVE LocksOK'
  BY <1>1 DEF TakeSelection, TakeSession, Leave
<1>2. ASSUME NEW c \in Conns, Fence(c) PROVE LocksOK'
  <2>1. Owner(c) \in Sessions
    BY <1>2 DEF Fence, LockInv, Recovering
  <2> QED
    BY <1>2, <2>1 DEF Fence
<1>3. ASSUME NEW c \in Conns, LockOwner(c) PROVE LocksOK'
  <2>1. Owner(c) \in Sessions
    BY <1>3 DEF LockOwner, LockInv, Recovering
  <2> QED
    BY <1>3, <2>1 DEF LockOwner
<1>4. ASSUME NEW c \in Conns, ReleaseOwner(c) \/ Unfence(c) PROVE LocksOK'
  BY <1>4 DEF ReleaseOwner, Unfence
<1>5. CASE Restart
  BY <1>5 DEF Restart
<1>6. CASE UNCHANGED <<selection, lock, fenced, repository>>
  BY <1>6
<1>7. ASSUME NEW c \in Conns,
             \/ ReadCached(c) \/ Enter(c) \/ Run(c) \/ Record(c) \/ ReadClaims(c)
             \/ Validate(c) \/ RevokeOwner(c) \/ InspectGrants(c) \/ Publish(c)
      PROVE  UNCHANGED <<selection, lock, fenced, repository>>
  BY <1>7 DEF ReadCached, Enter, Run, Record, ReadClaims, Validate, RevokeOwner, InspectGrants,
              Publish, locks
<1>8. ASSUME NEW c \in Conns,
             Arrive(c) \/ Register(c) \/ GiveUp(c) \/ InspectBefore(c) \/ InspectAfter(c)
      PROVE  UNCHANGED <<selection, lock, fenced, repository>>
  BY <1>8 DEF Arrive, Register, GiveUp, InspectBefore, InspectAfter, Inspect, locks
<1>9. ASSUME NEW g \in Grants, IssueGrant(g) \/ Lapse(g)
      PROVE  UNCHANGED <<selection, lock, fenced, repository>>
  BY <1>9 DEF IssueGrant, Lapse, Expire, RevokeGrant, locks
<1>10. ASSUME NEW c \in Conns, Serve(c) PROVE LocksOK'
  BY <1>1, <1>2, <1>3, <1>4, <1>6, <1>7, <1>8, <1>10 DEF Serve, Handle
<1> QED
  BY <1>5, <1>6, <1>8, <1>9, <1>10 DEF Next, locks, vars

LEMMA ClaimsStep == ASSUME ThreadsOK, ClaimsOK, [Next]_vars PROVE ClaimsOK'
<1> USE Carried, MovedType DEF ClaimsOK
<1>1. ASSUME NEW c \in Conns, Run(c) \/ Publish(c) PROVE ClaimsOK'
  BY <1>1 DEF Run, Publish
<1>2. CASE Restart
  BY <1>2 DEF Restart
<1>3. CASE UNCHANGED <<claim, restarts>>
  BY <1>3
<1> QED
  BY <1>1, <1>2, <1>3
     DEF Next, Serve, Handle, IssueGrant, Lapse, Expire, RevokeGrant, Arrive, Register, GiveUp,
         ReadCached, TakeSelection, TakeSession, Enter, Leave, Record, ReadClaims, Fence, LockOwner, Validate, InspectBefore,
         InspectAfter, Inspect, RevokeOwner, InspectGrants, ReleaseOwner, Unfence, vars

LEMMA TypedStep == ASSUME Typed, LockInv, [Next]_vars PROVE Typed'
  BY ThreadsStep, GrantsStep, RequestsStep, LocksStep, ClaimsStep DEF Typed

-----------------------------------------------------------------------------
(* Where each operation takes its thread; the other threads stay.          *)
Only(c) == \A d \in Conns \ {c} : at'[d] = at[d]

LEMMA Entering ==
    ASSUME ThreadsOK, NEW c \in Conns
    PROVE  /\ Arrive(c) => Only(c) /\ at[c] = "idle" /\ at'[c] \in {"arrived", "answered"}
           /\ Register(c) => /\ Only(c) /\ at[c] \in {"arrived", "waiting"}
                             /\ at'[c] \in {"waiting", "cached", "answered", "queued"}
           /\ GiveUp(c) => Only(c) /\ at[c] = "waiting" /\ at'[c] = "answered"
           /\ ReadCached(c) => Only(c) /\ at[c] = "cached" /\ at'[c] = "answered"
           /\ TakeSelection(c) => Only(c) /\ at[c] = "queued" /\ at'[c] = "selected"
           /\ TakeSession(c) => /\ Only(c) /\ at'[c] = "held"
                                /\ at[c] = IF TakesSelection(c) THEN "selected" ELSE "queued"
           /\ Enter(c) => /\ Only(c) /\ at[c] = "held"
                          /\ at'[c] \in {"claiming", "running", "leaving"}
           /\ Run(c) => Only(c) /\ at[c] = "running" /\ at'[c] = "leaving"
           /\ Leave(c) => Only(c) /\ at[c] = "leaving" /\ at'[c] = "recording"
           /\ Record(c) => Only(c) /\ at[c] = "recording" /\ at'[c] = "answered"
<1> USE DEF Only, ThreadsOK, Go, Say
<1>1. Arrive(c) => Only(c) /\ at[c] = "idle" /\ at'[c] \in {"arrived", "answered"}
  BY DEF Arrive
<1>2. Register(c) => /\ Only(c) /\ at[c] \in {"arrived", "waiting"}
                     /\ at'[c] \in {"waiting", "cached", "answered", "queued"}
  BY DEF Register
<1>3. GiveUp(c) => Only(c) /\ at[c] = "waiting" /\ at'[c] = "answered"
  BY DEF GiveUp
<1>4. ReadCached(c) => Only(c) /\ at[c] = "cached" /\ at'[c] = "answered"
  BY DEF ReadCached
<1>5. TakeSelection(c) => Only(c) /\ at[c] = "queued" /\ at'[c] = "selected"
  BY DEF TakeSelection
<1>6. TakeSession(c) => /\ Only(c) /\ at'[c] = "held"
                        /\ at[c] = IF TakesSelection(c) THEN "selected" ELSE "queued"
  BY DEF TakeSession
<1>7. Enter(c) => /\ Only(c) /\ at[c] = "held"
                  /\ at'[c] \in {"claiming", "running", "leaving"}
  BY DEF Enter
<1>8. Run(c) => Only(c) /\ at[c] = "running" /\ at'[c] = "leaving"
  BY DEF Run
<1>9. Leave(c) => Only(c) /\ at[c] = "leaving" /\ at'[c] = "recording"
  BY DEF Leave
<1>10. Record(c) => Only(c) /\ at[c] = "recording" /\ at'[c] = "answered"
  BY DEF Record
<1> QED
  BY <1>1, <1>2, <1>3, <1>4, <1>5, <1>6, <1>7, <1>8, <1>9, <1>10

LEMMA Recovery ==
    ASSUME ThreadsOK, NEW c \in Conns
    PROVE  /\ ReadClaims(c) => /\ Only(c) /\ at[c] = "claiming"
                               /\ at'[c] \in {"running", "recovering"}
           /\ Fence(c) => /\ Only(c) /\ at[c] = "recovering"
                          /\ at'[c] \in {"leaving", "fencing"}
           /\ LockOwner(c) => /\ Only(c) /\ at[c] = "fencing"
                              /\ at'[c] \in {"validating", "leaving"}
           /\ Validate(c) => /\ Only(c) /\ at[c] = "validating"
                             /\ at'[c] \in {"before", "releasing"}
           /\ InspectBefore(c) => /\ Only(c) /\ at[c] = "before"
                                  /\ at'[c] \in {"revoking", "releasing"}
           /\ InspectAfter(c) => /\ Only(c) /\ at[c] = "after"
                                 /\ at'[c] \in {"publishing", "releasing"}
           /\ RevokeOwner(c) => Only(c) /\ at[c] = "revoking" /\ at'[c] = "grants"
           /\ InspectGrants(c) => /\ Only(c) /\ at[c] = "grants"
                                  /\ at'[c] \in {"after", "releasing"}
           /\ Publish(c) => Only(c) /\ at[c] = "publishing" /\ at'[c] = "releasing"
           /\ ReleaseOwner(c) => Only(c) /\ at[c] = "releasing" /\ at'[c] = "unfencing"
           /\ Unfence(c) => Only(c) /\ at[c] = "unfencing" /\ at'[c] = "leaving"
<1> USE DEF Only, ThreadsOK, Go, Say
<1>0. ReadClaims(c) => /\ Only(c) /\ at[c] = "claiming"
                       /\ at'[c] \in {"running", "recovering"}
  BY DEF ReadClaims
<1>1. Fence(c) => /\ Only(c) /\ at[c] = "recovering"
                  /\ at'[c] \in {"leaving", "fencing"}
  BY DEF Fence
<1>2. LockOwner(c) => /\ Only(c) /\ at[c] = "fencing"
                      /\ at'[c] \in {"validating", "leaving"}
  BY DEF LockOwner
<1>3. Validate(c) => /\ Only(c) /\ at[c] = "validating"
                     /\ at'[c] \in {"before", "releasing"}
  BY DEF Validate
<1>4. InspectBefore(c) => /\ Only(c) /\ at[c] = "before"
                          /\ at'[c] \in {"revoking", "releasing"}
  BY DEF InspectBefore, Inspect
<1>5. InspectAfter(c) => /\ Only(c) /\ at[c] = "after"
                         /\ at'[c] \in {"publishing", "releasing"}
  BY DEF InspectAfter, Inspect
<1>6. RevokeOwner(c) => Only(c) /\ at[c] = "revoking" /\ at'[c] = "grants"
  BY DEF RevokeOwner
<1>7. InspectGrants(c) => /\ Only(c) /\ at[c] = "grants"
                          /\ at'[c] \in {"after", "releasing"}
  BY DEF InspectGrants
<1>8. Publish(c) => Only(c) /\ at[c] = "publishing" /\ at'[c] = "releasing"
  BY DEF Publish
<1>9. ReleaseOwner(c) => Only(c) /\ at[c] = "releasing" /\ at'[c] = "unfencing"
  BY DEF ReleaseOwner
<1>10. Unfence(c) => Only(c) /\ at[c] = "unfencing" /\ at'[c] = "leaving"
  BY DEF Unfence
<1> QED
  BY <1>0, <1>1, <1>2, <1>3, <1>4, <1>5, <1>6, <1>7, <1>8, <1>9, <1>10

(* A thread keeps the locks it needs where it goes.                        *)
LEMMA LockStep == ASSUME ThreadsOK, LocksOK, ClaimsOK, LockInv, [Next]_vars PROVE LockInv'
<1> USE Carried DEF LockInv, Selected, Inside, Recovering, Owning, Owner
<1>1. ASSUME NEW c \in Conns, Only(c), UNCHANGED <<session, wanted, selection, lock>>,
             \A S \in {Selected, Inside, Recovering, Owning} : at'[c] \in S => at[c] \in S
      PROVE  LockInv'
  <2>1. /\ at'[c] \in Selected => at[c] \in Selected
        /\ at'[c] \in Inside => at[c] \in Inside
        /\ at'[c] \in Recovering => at[c] \in Recovering
        /\ at'[c] \in Owning => at[c] \in Owning
    BY <1>1
  <2> USE DEF Only, TakesSelection
  <2> HIDE DEF Selected, Inside, Recovering, Owning
  <2> QED
    BY <1>1, <2>1
<1>2. ASSUME NEW c \in Conns, Arrive(c) PROVE LockInv'
  <2>1. /\ Only(c) /\ at'[c] \in {"arrived", "answered"}
        /\ \A d \in Conns \ {c} : session'[d] = session[d]
        /\ UNCHANGED <<wanted, selection, lock>>
    BY <1>2, Entering DEF Arrive, ThreadsOK, locks
  <2> QED
    BY <2>1 DEF Only, TakesSelection
<1>3. ASSUME NEW c \in Conns, Register(c) \/ GiveUp(c) \/ ReadCached(c) \/ Enter(c)
      PROVE  LockInv'
  <2>1. Only(c) /\ UNCHANGED <<session, wanted, selection, lock>>
    BY <1>3, Entering DEF Register, GiveUp, ReadCached, Enter, locks
  <2> QED
    BY <1>1, <1>3, <2>1, Entering
<1>4. ASSUME NEW c \in Conns, TakeSelection(c) PROVE LockInv'
  <2>1. /\ Only(c) /\ at[c] = "queued" /\ at'[c] = "selected"
        /\ selection[Grant(c)] = None /\ selection' = [selection EXCEPT ![Grant(c)] = c]
        /\ UNCHANGED <<session, wanted, lock>>
    BY <1>4, Entering DEF TakeSelection
  <2> QED
    BY <2>1 DEF Only, TakesSelection, LocksOK
<1>5. ASSUME NEW c \in Conns, TakeSession(c) PROVE LockInv'
  <2>1. /\ Only(c) /\ at'[c] = "held"
        /\ at[c] = IF TakesSelection(c) THEN "selected" ELSE "queued"
        /\ UNCHANGED <<session, wanted, selection>>
    BY <1>5, Entering DEF TakeSession
  <2>2. \/ session[c] = None /\ UNCHANGED lock
        \/ /\ session[c] \in Sessions /\ lock[session[c]] = None
           /\ lock' = [lock EXCEPT ![session[c]] = c]
    BY <1>5 DEF TakeSession, ThreadsOK
  <2> QED
    BY <2>1, <2>2 DEF Only, TakesSelection, LocksOK, ThreadsOK
<1>6. ASSUME NEW c \in Conns, Run(c) \/ Record(c) PROVE LockInv'
  <2>1. Only(c) /\ UNCHANGED <<session, wanted, selection, lock>>
    BY <1>6, Entering DEF Run, Record, locks
  <2> QED
    BY <1>1, <1>6, <2>1, Entering
<1>7. ASSUME NEW c \in Conns, Leave(c) PROVE LockInv'
  <2>1. /\ Only(c) /\ at'[c] = "recording"
        /\ \A s \in Sessions : lock[s] # c => lock'[s] = lock[s]
        /\ \A g \in Grants : selection[g] # c => selection'[g] = selection[g]
        /\ UNCHANGED <<session, wanted>>
    BY <1>7, Entering DEF Leave
  <2> QED
    BY <2>1 DEF Only, TakesSelection, ThreadsOK
<1>8. ASSUME NEW c \in Conns, ReadClaims(c) PROVE LockInv'
  <2>1. Only(c) /\ at[c] = "claiming" /\ UNCHANGED <<session, selection, lock>>
    BY <1>8, Recovery DEF ReadClaims, locks
  <2>2. CASE at'[c] = "running" /\ UNCHANGED wanted
    BY <1>1, <2>1, <2>2
  <2>3. CASE Conflicts(c) /\ wanted' = [wanted EXCEPT ![c] = Held(c)] /\ at'[c] = "recovering"
    <3>1. /\ wanted'[c].holder \in Sessions /\ wanted'[c].holder # session[c]
          /\ \A d \in Conns \ {c} : wanted'[d] = wanted[d]
      <4>1. Held(c) \in Claim
        BY MovedType
      <4> QED
        BY <2>3, <4>1 DEF Conflicts, Claim, ThreadsOK
    <3> QED
      BY <2>1, <2>3, <3>1 DEF Only, TakesSelection
  <2> QED
    BY <1>8, <2>1, <2>2, <2>3 DEF ReadClaims, Go, ThreadsOK
<1>9. ASSUME NEW c \in Conns, LockOwner(c) PROVE LockInv'
  <2>1. Only(c) /\ at[c] = "fencing" /\ UNCHANGED <<session, wanted, selection>>
    BY <1>9, Recovery DEF LockOwner
  <2>2. CASE at'[c] = "leaving" /\ UNCHANGED lock
    BY <1>1, <2>1, <2>2
  <2>3. CASE /\ lock[wanted[c].holder] = None /\ at'[c] = "validating"
             /\ lock' = [lock EXCEPT ![wanted[c].holder] = c]
    BY <2>1, <2>3 DEF Only, TakesSelection, LocksOK, ThreadsOK
  <2> QED
    BY <1>9, <2>1, <2>2, <2>3 DEF LockOwner, Go, Say, ThreadsOK
<1>10. ASSUME NEW c \in Conns, Validate(c) \/ InspectBefore(c) \/ InspectAfter(c) \/ RevokeOwner(c)
                               \/ InspectGrants(c) \/ Publish(c) \/ Unfence(c)
                               \/ Fence(c)
       PROVE  LockInv'
  <2>1. Only(c) /\ UNCHANGED <<session, wanted, selection, lock>>
    BY <1>10, Recovery DEF Validate, InspectBefore, InspectAfter, Inspect, RevokeOwner,
                           InspectGrants,
                           Publish, Unfence, Fence, locks
  <2> QED
    BY <1>1, <1>10, <2>1, Recovery
<1>11. ASSUME NEW c \in Conns, ReleaseOwner(c) PROVE LockInv'
  <2>1. /\ Only(c) /\ at[c] = "releasing" /\ at'[c] = "unfencing"
        /\ \A s \in Sessions : lock[s] # c \/ s # wanted[c].holder => lock'[s] = lock[s]
        /\ UNCHANGED <<session, wanted, selection>>
    BY <1>11, Recovery DEF ReleaseOwner
  <2> QED
    BY <2>1 DEF Only, TakesSelection, ThreadsOK
<1>12. CASE Restart
  <2>1. \A c \in Conns : at'[c] \in {"idle", "answered", "lost"}
    BY <1>12 DEF Restart
  <2> QED
    BY <2>1
<1>13. CASE UNCHANGED <<threads, locks>>
  BY <1>13 DEF threads, locks, TakesSelection
<1> QED
  BY <1>2, <1>3, <1>4, <1>5, <1>6, <1>7, <1>8, <1>9, <1>10, <1>11, <1>12, <1>13
     DEF Next, Serve, Handle, IssueGrant, Lapse, Expire, RevokeGrant, vars

(* What was admitted under the locks is not undone while they are held:    *)
(* not by a thread that changes the same selection, nor by a recovery that *)
(* revokes the grants of the session; a grant that lapses is still given.  *)
Given == live \cup lapsed

LEMMA AdmittedStep ==
    ASSUME ThreadsOK, GrantsOK, LocksOK, LockInv, AdmittedInv, [Next]_vars
    PROVE  AdmittedInv'
<1> USE Carried DEF AdmittedInv, NeedsSelected
<1>1. ASSUME NEW c \in Conns, Only(c), UNCHANGED <<session, bound>>, Given \subseteq Given',
             at'[c] \in {"claiming", "running"} => at[c] \in {"claiming", "running"}
      PROVE  AdmittedInv'
  BY <1>1 DEF Only, Given
<1>2. ASSUME NEW c \in Conns, Arrive(c) PROVE AdmittedInv'
  <2>1. /\ Only(c) /\ at'[c] \in {"arrived", "answered"}
        /\ \A d \in Conns \ {c} : session'[d] = session[d]
        /\ UNCHANGED <<live, lapsed, bound>>
    BY <1>2, Entering DEF Arrive, ThreadsOK, grants
  <2> QED
    BY <2>1 DEF Only
<1>3. ASSUME NEW c \in Conns, Register(c) \/ GiveUp(c) \/ ReadCached(c) \/ TakeSelection(c)
                              \/ TakeSession(c) \/ Leave(c) \/ Record(c)
      PROVE  AdmittedInv'
  <2>1. Only(c) /\ UNCHANGED <<session, bound, live, lapsed>>
    BY <1>3, Entering
       DEF Register, GiveUp, ReadCached, TakeSelection, TakeSession, Leave, Record, grants
  <2> QED
    BY <1>1, <1>3, <2>1, Entering DEF Given
<1>4. \A c, d \in Conns : c # d /\ at[c] \in Selected /\ at[d] \in {"claiming", "running"}
                          /\ TakesSelection(c) /\ NeedsSelected(d) => Grant(c) # Grant(d)
  BY DEF LockInv, Selected, Inside, TakesSelection
<1>5. ASSUME NEW c \in Conns, Enter(c) PROVE AdmittedInv'
  <2>1. Only(c) /\ at[c] = "held" /\ UNCHANGED <<session, live, lapsed>>
    BY <1>5, Entering DEF Enter
  <2>2. CASE ~Admitted(c)
    <3>1. at'[c] = "leaving" /\ UNCHANGED bound
      BY <1>5, <2>2 DEF Enter, Say, Go, ThreadsOK
    <3> QED
      BY <1>1, <2>1, <3>1 DEF Given
  <2>3. CASE Admitted(c) /\ Command(c) # "continuation"
    <3>1. UNCHANGED bound
      BY <1>5, <2>3 DEF Enter
    <3> QED
      BY <2>1, <2>3, <3>1 DEF Only, Admitted, Proved
  <2>4. CASE Admitted(c) /\ Command(c) = "continuation"
    <3>1. bound' = [bound EXCEPT ![Grant(c)] = None]
      BY <1>5, <2>4 DEF Enter
    <3>2. at[c] \in Selected /\ TakesSelection(c)
      BY <2>1, <2>4 DEF Selected, Inside, TakesSelection
    <3> QED
      BY <1>4, <2>1, <2>4, <3>1, <3>2 DEF Only, GrantsOK
  <2> QED
    BY <2>2, <2>3, <2>4
<1>6. ASSUME NEW c \in Conns, Run(c) PROVE AdmittedInv'
  <2>1. /\ Only(c) /\ at[c] = "running" /\ at'[c] = "leaving"
        /\ UNCHANGED <<session, live, lapsed>>
    BY <1>6, Entering DEF Run
  <2>2. CASE UNCHANGED bound
    BY <1>1, <2>1, <2>2 DEF Given
  <2>3. CASE /\ Command(c) = "continuation"
             /\ \E s \in Sessions : bound' = [bound EXCEPT ![Grant(c)] = s]
    <3>1. at[c] \in Selected /\ TakesSelection(c)
      BY <2>1, <2>3 DEF Selected, Inside, TakesSelection
    <3> QED
      BY <1>4, <2>1, <2>3, <3>1 DEF Only, GrantsOK
  <2> QED
    BY <1>6, <2>2, <2>3 DEF Run
<1>7. ASSUME NEW c \in Conns, ReadClaims(c) \/ Fence(c) \/ LockOwner(c) \/ Validate(c)
                              \/ InspectBefore(c) \/ InspectAfter(c) \/ InspectGrants(c)
                              \/ Publish(c) \/ ReleaseOwner(c) \/ Unfence(c)
      PROVE  AdmittedInv'
  <2>1. Only(c) /\ UNCHANGED <<session, bound, live, lapsed>>
    BY <1>7, Recovery DEF ReadClaims, Fence, LockOwner, Validate, InspectBefore, InspectAfter,
                          Inspect, InspectGrants, Publish, ReleaseOwner, Unfence, grants
  <2> QED
    BY <1>1, <1>7, <2>1, Recovery DEF Given
<1>8. ASSUME NEW c \in Conns, RevokeOwner(c) PROVE AdmittedInv'
  <2>1. /\ Only(c) /\ at[c] = "revoking" /\ at'[c] = "grants"
        /\ UNCHANGED <<session, lapsed, bound>> /\ live' = live \ Selecting(Owner(c))
    BY <1>8, Recovery DEF RevokeOwner
  <2>2. lock[Owner(c)] = c /\ Owner(c) \in Sessions
    BY <2>1 DEF LockInv, Owning, Recovering
  <2>3. \A d \in Conns \ {c} : at[d] \in {"claiming", "running"} => session[d] # Owner(c)
    BY <2>2 DEF LockInv, Inside
  <2> QED
    BY <2>1, <2>3 DEF Only, Selecting
<1>9. CASE Restart
  <2>1. \A c \in Conns : at'[c] \in {"idle", "answered", "lost"}
    BY <1>9 DEF Restart
  <2> QED
    BY <2>1
<1>10. ASSUME UNCHANGED threads, UNCHANGED bound, Given \subseteq Given' PROVE AdmittedInv'
  BY <1>10 DEF threads, Given
<1>11. ASSUME NEW g \in Grants, IssueGrant(g) \/ Lapse(g) PROVE AdmittedInv'
  <2>1. UNCHANGED threads /\ UNCHANGED bound /\ Given \subseteq Given'
    BY <1>11 DEF IssueGrant, Lapse, Expire, RevokeGrant, Given
  <2> QED
    BY <1>10, <2>1
<1>12. ASSUME UNCHANGED <<threads, grants>> PROVE AdmittedInv'
  BY <1>10, <1>12 DEF grants, Given
<1> QED
  BY <1>2, <1>3, <1>5, <1>6, <1>7, <1>8, <1>9, <1>11, <1>12 DEF Next, Serve, Handle, vars

(* A request that is in the hands of a thread is in those of no other one. *)
LEMMA ServingStep ==
    ASSUME ThreadsOK, RequestsOK, ServingInv, KeptInv, [Next]_vars
    PROVE  ServingInv'
<1> USE Carried DEF ServingInv
<1>1. ASSUME NEW c \in Conns, Only(c), UNCHANGED <<active, runs, answer>>,
             at'[c] \in Serving => at[c] \in Serving, at'[c] \in Before => at[c] \in Before,
             at'[c] \in Leaving \cup {"answered"} => answer'[c] \in Answers
      PROVE  ServingInv'
  BY <1>1 DEF Only
<1>2. ASSUME NEW c \in Conns, Only(c), UNCHANGED <<active, runs>>,
             \A d \in Conns \ {c} : answer'[d] = answer[d],
             at'[c] \in Serving => at[c] \in Serving, at'[c] \in Before => at[c] \in Before,
             at'[c] \in Leaving \cup {"answered"} => answer'[c] \in Answers
      PROVE  ServingInv'
  BY <1>2 DEF Only
<1>3. ASSUME NEW c \in Conns, Arrive(c) PROVE ServingInv'
  <2>1. /\ Only(c) /\ at'[c] \in {"arrived", "answered"} /\ UNCHANGED <<active, runs>>
        /\ \A d \in Conns \ {c} : answer'[d] = answer[d]
        /\ at'[c] = "answered" => answer'[c] = "denied"
    BY <1>3, Entering DEF Arrive, Go, Say, ThreadsOK, requests
  <2> QED
    BY <1>2, <2>1 DEF Serving, Before, Leaving, Answers
<1>4. ASSUME NEW c \in Conns, Register(c) PROVE ServingInv'
  <2>1. Only(c) /\ UNCHANGED runs
    BY <1>4, Entering DEF Register
  <2>2. CASE at'[c] \in {"waiting", "cached"} /\ UNCHANGED <<active, answer>>
    BY <1>1, <2>1, <2>2 DEF Serving, Before, Leaving
  <2>3. CASE at'[c] = "answered" /\ answer' = [answer EXCEPT ![c] = recorded[Id(c)]]
             /\ recorded[Id(c)] # None /\ UNCHANGED active
    BY <1>2, <2>1, <2>3 DEF Serving, Before, Leaving, RequestsOK, ThreadsOK
  <2>4. CASE /\ at'[c] = "queued" /\ UNCHANGED answer /\ active' = active \cup {Id(c)}
             /\ Id(c) \notin active /\ recorded[Id(c)] = None
    <3>1. runs[Id(c)] = 0
      BY <2>4 DEF KeptInv
    <3>2. at'[c] \in Serving /\ at'[c] \notin Leaving \cup {"answered"}
      BY <2>4 DEF Serving, Before, Leaving
    <3> QED
      BY <2>1, <2>4, <3>1, <3>2 DEF Only
  <2> QED
    BY <1>4, <2>2, <2>3, <2>4 DEF Register, Go, Say, ThreadsOK
<1>5. ASSUME NEW c \in Conns, GiveUp(c) \/ ReadCached(c) PROVE ServingInv'
  <2>1. /\ Only(c) /\ at'[c] = "answered" /\ UNCHANGED <<active, runs>>
        /\ \A d \in Conns \ {c} : answer'[d] = answer[d]
    BY <1>5, Entering DEF GiveUp, ReadCached, Say, ThreadsOK, requests
  <2>2. answer'[c] \in Answers
    BY <1>5 DEF GiveUp, ReadCached, Say, ThreadsOK, RequestsOK, KeptInv, Answers
  <2> QED
    BY <1>2, <2>1, <2>2 DEF Serving, Before, Leaving
<1>6. ASSUME NEW c \in Conns, TakeSelection(c) \/ TakeSession(c) \/ Leave(c) PROVE ServingInv'
  <2>1. /\ Only(c) /\ UNCHANGED <<active, runs, answer>>
        /\ \/ at[c] \in {"queued", "selected"} /\ at'[c] \in {"selected", "held"}
           \/ at[c] = "leaving" /\ at'[c] = "recording"
    BY <1>6, Entering DEF TakeSelection, TakeSession, Leave, requests
  <2> QED
    BY <1>1, <2>1 DEF Serving, Before, Leaving
<1>7. ASSUME NEW c \in Conns, Enter(c) PROVE ServingInv'
  <2>1. /\ Only(c) /\ at[c] = "held" /\ UNCHANGED <<active, runs>>
        /\ \A d \in Conns \ {c} : answer'[d] = answer[d]
        /\ \/ at'[c] \in {"claiming", "running"}
           \/ at'[c] = "leaving" /\ answer'[c] = "denied"
    BY <1>7, Entering DEF Enter, Go, Say, ThreadsOK, requests
  <2> QED
    BY <1>2, <2>1 DEF Serving, Before, Leaving, Answers
<1>8. ASSUME NEW c \in Conns, Run(c) \/ Publish(c) PROVE ServingInv'
  <2>1. /\ Only(c) /\ at[c] \in Before /\ at'[c] \in Leaving \ Before /\ UNCHANGED active
        /\ \A d \in Conns \ {c} : answer'[d] = answer[d]
        /\ answer'[c] \in Answers
        /\ \A i \in Ids \ {Id(c)} : runs'[i] = runs[i]
    BY <1>8, Entering, Recovery
       DEF Run, Publish, Say, ThreadsOK, RequestsOK, Serving, Before, Leaving, Answers
  <2> QED
    BY <2>1 DEF Only, Serving
<1>9. ASSUME NEW c \in Conns, Record(c) PROVE ServingInv'
  <2>1. /\ Only(c) /\ at[c] = "recording" /\ at'[c] = "answered" /\ UNCHANGED answer
        /\ active' = active \ {Id(c)}
        /\ \A i \in Ids : runs'[i] \in {0, runs[i]}
    BY <1>9, Entering DEF Record
  <2>2. at[c] \in Serving /\ at[c] \in Leaving /\ at'[c] \notin Serving
    BY <2>1 DEF Serving, Before, Leaving
  <2> QED
    BY <2>1, <2>2 DEF Only, Serving
<1>10. ASSUME NEW c \in Conns, ReadClaims(c) \/ Fence(c) \/ LockOwner(c) \/ Validate(c)
                               \/ InspectBefore(c) \/ InspectAfter(c) \/ RevokeOwner(c)
                               \/ InspectGrants(c)
       PROVE  ServingInv'
  <2>1. /\ Only(c) /\ UNCHANGED <<active, runs>> /\ at[c] \in Before
        /\ \A d \in Conns \ {c} : answer'[d] = answer[d]
        /\ at'[c] \in Serving
    BY <1>10, Recovery
       DEF ReadClaims, Fence, LockOwner, Validate, InspectBefore, InspectAfter, Inspect,
           RevokeOwner, InspectGrants, Go, Say, ThreadsOK, requests, Serving, Before, Leaving
  <2>2. at'[c] \in Leaving \cup {"answered"} => answer'[c] = "failed"
    BY <1>10
       DEF ReadClaims, Fence, LockOwner, Validate, InspectBefore, InspectAfter, Inspect,
           RevokeOwner, InspectGrants, Go, Say, ThreadsOK, Leaving
  <2> QED
    BY <1>2, <2>1, <2>2 DEF Serving, Answers
<1>11. ASSUME NEW c \in Conns, ReleaseOwner(c) \/ Unfence(c) PROVE ServingInv'
  <2>1. /\ Only(c) /\ UNCHANGED <<active, runs, answer>>
        /\ at[c] \in {"releasing", "unfencing"} /\ at'[c] \in {"unfencing", "leaving"}
    BY <1>11, Recovery DEF ReleaseOwner, Unfence, requests
  <2> QED
    BY <1>1, <2>1 DEF Serving, Before, Leaving
<1>12. CASE Restart
  <2>1. /\ \A c \in Conns : \/ at'[c] = "lost"
                            \/ at'[c] \in {"idle", "answered"} /\ at'[c] = at[c]
        /\ UNCHANGED answer
    BY <1>12 DEF Restart
  <2> QED
    BY <2>1 DEF Serving, Before, Leaving
<1>13. CASE UNCHANGED <<threads, requests>>
  BY <1>13 DEF threads, requests
<1> QED
  BY <1>3, <1>4, <1>5, <1>6, <1>7, <1>8, <1>9, <1>10, <1>11, <1>12, <1>13
     DEF Next, Serve, Handle, IssueGrant, Lapse, Expire, RevokeGrant, vars

(* The recorded answers are in the order of their use; the one that was    *)
(* used least recently goes first.                                         *)
LEMMA RecordsStep ==
    ASSUME ThreadsOK, RequestsOK, ServingInv, KeptInv, RecordsInv, [Next]_vars
    PROVE  RecordsInv'
<1> USE Carried DEF RecordsInv
<1>1. ASSUME NEW c \in Conns, Register(c) PROVE RecordsInv'
  <2>1. CASE UNCHANGED <<records, recorded>>
    BY <2>1
  <2>2. CASE recorded[Id(c)] # None /\ records' = LastUsed(Id(c)) /\ UNCHANGED recorded
    <3>1. /\ LastUsed(Id(c)) \in Seq(Ids) /\ IsInjective(LastUsed(Id(c)))
          /\ \A i \in Ids : i \in ToSet(LastUsed(Id(c))) <=> i \in ToSet(records) \/ i = Id(c)
          /\ Len(LastUsed(Id(c))) = Len(records)
      BY <2>2, Using DEF LastUsed
    <3> QED
      BY <2>2, <3>1
  <2> QED
    BY <1>1, <2>1, <2>2 DEF Register
<1>2. ASSUME NEW c \in Conns, Record(c) PROVE RecordsInv'
  <2> DEFINE i == Id(c)
             kept == LastUsed(i)
             evicted == IF Len(kept) > MaxRecords THEN {Head(kept)} ELSE {}
  <2>1. at[c] \in Serving /\ at[c] \in Leaving
    BY <1>2 DEF Record, Serving, Leaving
  <2>2. i \in active /\ recorded[i] = None /\ i \notin ToSet(records) /\ answer[c] \in Answers
    BY <2>1 DEF ServingInv, KeptInv
  <2>3. /\ kept \in Seq(Ids) /\ IsInjective(kept) /\ kept # <<>> /\ Len(kept) = Len(records) + 1
        /\ \A x : x \in ToSet(kept) <=> x \in ToSet(records) \/ x = i
    BY <2>2, Using DEF LastUsed
  <2>4. /\ records' = IF evicted = {} THEN kept ELSE Tail(kept)
        /\ recorded' = [x \in Ids |-> IF x \in evicted THEN None
                                      ELSE IF x = i THEN answer[c] ELSE recorded[x]]
    BY <1>2 DEF Record
  <2> HIDE DEF kept
  <2>5. CASE Len(kept) > MaxRecords
    <3>1. /\ Tail(kept) \in Seq(Ids) /\ IsInjective(Tail(kept)) /\ Len(Tail(kept)) = Len(kept) - 1
          /\ \A x : x \in ToSet(Tail(kept)) <=> x \in ToSet(kept) /\ x # Head(kept)
      BY <2>3, Evicting
    <3>2. records' = Tail(kept)
      BY <2>4, <2>5
    <3>3. Len(Tail(kept)) <= MaxRecords
      <4>1. Len(records) \in Nat
        OBVIOUS
      <4> QED
        BY <2>3, <3>1, <4>1
    <3>4. ASSUME NEW x \in Ids PROVE x \in ToSet(records') <=> recorded'[x] # None
      BY <2>2, <2>3, <2>4, <2>5, <3>1, <3>2
    <3> QED
      BY <3>1, <3>2, <3>3, <3>4
  <2>6. CASE ~(Len(kept) > MaxRecords)
    <3>1. records' = kept
      BY <2>4, <2>6
    <3>2. Len(kept) <= MaxRecords
      BY <2>3, <2>6
    <3>3. ASSUME NEW x \in Ids PROVE x \in ToSet(records') <=> recorded'[x] # None
      BY <2>2, <2>3, <2>4, <2>6, <3>1
    <3> QED
      BY <2>3, <3>1, <3>2, <3>3
  <2> QED
    BY <2>5, <2>6
<1>3. CASE Restart
  BY <1>3 DEF Restart, IsInjective, ToSet
<1>4. CASE UNCHANGED <<records, recorded>>
  BY <1>4
<1>5. ASSUME NEW c \in Conns, Handle(c), ~Record(c) PROVE UNCHANGED <<records, recorded>>
  BY <1>5 DEF Handle, ReadCached, TakeSelection, TakeSession, Enter, Run, Leave, ReadClaims,
              Fence, LockOwner, Validate, RevokeOwner, InspectGrants, Publish, ReleaseOwner, Unfence,
              requests
<1>6. ASSUME NEW c \in Conns, InspectBefore(c) \/ InspectAfter(c) \/ Arrive(c) \/ GiveUp(c)
      PROVE  UNCHANGED <<records, recorded>>
  BY <1>6 DEF InspectBefore, InspectAfter, Inspect, Arrive, GiveUp, requests
<1>7. ASSUME NEW g \in Grants, IssueGrant(g) \/ Lapse(g) PROVE UNCHANGED <<records, recorded>>
  BY <1>7 DEF IssueGrant, Lapse, Expire, RevokeGrant, requests
<1> QED
  BY <1>1, <1>2, <1>3, <1>4, <1>5, <1>6, <1>7 DEF Next, Serve, requests, vars

(* The answer that makes room for another one is an older one.             *)
LEMMA EvictedIsOlder ==
    ASSUME ThreadsOK, RequestsOK, ServingInv, KeptInv, RecordsInv, NEW c \in Conns, Record(c)
    PROVE  /\ recorded[Id(c)] = None /\ Id(c) \in active /\ answer[c] \in Answers
           /\ \E gone \in SUBSET {i \in Ids : recorded[i] # None} :
                 /\ recorded' = [i \in Ids |-> IF i = Id(c) THEN answer[c]
                                               ELSE IF i \in gone THEN None ELSE recorded[i]]
                 /\ runs' = [i \in Ids |-> IF i \in gone THEN 0 ELSE runs[i]]
<1> USE Carried DEF RecordsInv
<1> DEFINE i == Id(c)
           kept == LastUsed(i)
           gone == IF Len(kept) > MaxRecords THEN {Head(kept)} ELSE {}
<1>1. at[c] \in Serving /\ at[c] \in Leaving
  BY DEF Record, Serving, Leaving
<1>2. i \in active /\ recorded[i] = None /\ i \notin ToSet(records) /\ answer[c] \in Answers
  BY <1>1 DEF ServingInv, KeptInv
<1>3. /\ kept \in Seq(Ids) /\ IsInjective(kept) /\ kept # <<>> /\ Len(kept) = Len(records) + 1
      /\ \A x : x \in ToSet(kept) <=> x \in ToSet(records) \/ x = i
  <2>1. records \in Seq(Ids) /\ IsInjective(records) /\ i \in Ids
    OBVIOUS
  <2> QED
    BY <1>2, <2>1, Using DEF LastUsed
<1>4. Len(kept) > MaxRecords => Head(kept) \in ToSet(records)
  <2> SUFFICES ASSUME Len(kept) > MaxRecords PROVE Head(kept) \in ToSet(records)
    OBVIOUS
  <2>1. records # <<>>
    BY <1>3
  <2>2. i \notin ToSet(records)
    BY <1>2
  <2>3. RemoveFirst(records, i) = records
    BY <2>2 DEF RemoveFirst, ToSet
  <2>4. kept = Append(records, i)
    BY <2>3 DEF LastUsed
  <2>5. Head(Append(records, i)) = records[1] /\ 1 \in DOMAIN records
    BY <2>1, EmptySeq
  <2> QED
    BY <2>4, <2>5 DEF ToSet
<1>5. gone \subseteq {x \in Ids : recorded[x] # None} /\ i \notin gone
  <2>1. ToSet(records) \subseteq Ids
    BY DEF ToSet
  <2> QED
    BY <1>2, <1>4, <2>1
<1>6. /\ recorded' = [x \in Ids |-> IF x \in gone THEN None
                                    ELSE IF x = i THEN answer[c] ELSE recorded[x]]
      /\ runs' = [x \in Ids |-> IF x \in gone THEN 0 ELSE runs[x]]
  BY DEF Record
<1> HIDE DEF gone
<1>7. recorded' = [x \in Ids |-> IF x = i THEN answer[c]
                                 ELSE IF x \in gone THEN None ELSE recorded[x]]
  BY <1>5, <1>6
<1> QED
  BY <1>2, <1>5, <1>6, <1>7

(* A request has been run once at most, and not at all when there is       *)
(* neither an answer nor a thread that is to give one.                     *)
LEMMA KeptStep ==
    ASSUME ThreadsOK, RequestsOK, ServingInv, KeptInv, RecordsInv, [Next]_vars
    PROVE  KeptInv'
<1> USE Carried DEF KeptInv
<1>1. ASSUME NEW c \in Conns, Only(c), UNCHANGED <<active, recorded, runs, condition>>,
             at'[c] # "cached"
      PROVE  KeptInv'
  BY <1>1 DEF Only
<1>2. ASSUME NEW c \in Conns, Register(c) PROVE KeptInv'
  <2>1. Only(c) /\ condition = None /\ UNCHANGED <<recorded, runs>>
    BY <1>2, Entering DEF Register
  <2>2. CASE at'[c] \in {"waiting", "answered"} /\ UNCHANGED <<active, condition>>
    BY <1>1, <2>1, <2>2
  <2>3. CASE at'[c] = "cached" /\ recorded[Id(c)] # None /\ condition' = c /\ UNCHANGED active
    BY <2>1, <2>3 DEF Only
  <2>4. CASE /\ at'[c] = "queued" /\ active' = active \cup {Id(c)} /\ recorded[Id(c)] = None
             /\ UNCHANGED condition
    BY <2>1, <2>4 DEF Only
  <2> QED
    BY <1>2, <2>2, <2>3, <2>4 DEF Register, Go, Say, ThreadsOK
<1>3. ASSUME NEW c \in Conns, ReadCached(c) PROVE KeptInv'
  <2>1. /\ Only(c) /\ at[c] = "cached" /\ at'[c] = "answered"
        /\ UNCHANGED <<active, recorded, runs>>
    BY <1>3, Entering DEF ReadCached, requests
  <2>2. \A d \in Conns \ {c} : at[d] # "cached"
    BY <2>1
  <2> QED
    BY <2>1, <2>2 DEF Only
<1>4. ASSUME NEW c \in Conns, Run(c) \/ Publish(c) PROVE KeptInv'
  <2>1. /\ Only(c) /\ at[c] \in Before /\ at[c] \in Serving /\ at'[c] # "cached"
        /\ UNCHANGED <<active, recorded, condition>>
        /\ runs' = [runs EXCEPT ![Id(c)] = @ + 1]
    BY <1>4, Entering, Recovery DEF Run, Publish, Before, Serving, Leaving, locks
  <2>2. runs[Id(c)] = 0 /\ Id(c) \in active
    BY <2>1 DEF ServingInv
  <2> QED
    BY <2>1, <2>2 DEF Only, RequestsOK
<1>5. ASSUME NEW c \in Conns, Record(c) PROVE KeptInv'
  <2>1. PICK gone \in SUBSET {i \in Ids : recorded[i] # None} :
           /\ recorded' = [i \in Ids |-> IF i = Id(c) THEN answer[c]
                                         ELSE IF i \in gone THEN None ELSE recorded[i]]
           /\ runs' = [i \in Ids |-> IF i \in gone THEN 0 ELSE runs[i]]
    BY <1>5, EvictedIsOlder
  <2>2. /\ Only(c) /\ at'[c] = "answered" /\ condition = None /\ active' = active \ {Id(c)}
        /\ answer[c] \in Answers
    BY <1>5, Entering, EvictedIsOlder DEF Record
  <2>3. \A d \in Conns : at'[d] # "cached"
    BY <2>2 DEF Only
  <2>4. \A i \in Ids : runs'[i] <= 1 /\ (recorded'[i] = None /\ i \notin active' => runs'[i] = 0)
    BY <2>1, <2>2
  <2>5. \A i \in active' : recorded'[i] = None
    BY <2>1, <2>2 DEF RequestsOK
  <2> QED
    BY <2>3, <2>4, <2>5
<1>6. CASE Restart
  <2>1. /\ \A c \in Conns : at'[c] # "cached"
        /\ active' = {} /\ runs' = [i \in Ids |-> 0]
    BY <1>6 DEF Restart
  <2> QED
    BY <2>1
<1>7. ASSUME NEW c \in Conns, Arrive(c) \/ GiveUp(c) \/ TakeSelection(c) \/ TakeSession(c)
                              \/ Enter(c) \/ Leave(c)
      PROVE  KeptInv'
  <2>1. Only(c) /\ at'[c] # "cached" /\ UNCHANGED <<active, recorded, runs, condition>>
    BY <1>7, Entering
       DEF Arrive, GiveUp, TakeSelection, TakeSession, Enter, Leave, requests, locks
  <2> QED
    BY <1>1, <2>1
<1>8. ASSUME NEW c \in Conns, ReadClaims(c) \/ Fence(c) \/ LockOwner(c) \/ Validate(c)
                              \/ InspectBefore(c) \/ InspectAfter(c) \/ RevokeOwner(c)
                              \/ InspectGrants(c) \/ ReleaseOwner(c) \/ Unfence(c)
      PROVE  KeptInv'
  <2>1. Only(c) /\ at'[c] # "cached" /\ UNCHANGED <<active, recorded, runs, condition>>
    BY <1>8, Recovery
       DEF ReadClaims, Fence, LockOwner, Validate, InspectBefore, InspectAfter, Inspect,
           RevokeOwner, InspectGrants, ReleaseOwner, Unfence, requests, locks
  <2> QED
    BY <1>1, <2>1
<1>9. CASE UNCHANGED <<threads, requests, condition>>
  BY <1>9 DEF threads, requests
<1> QED
  BY <1>2, <1>3, <1>4, <1>5, <1>6, <1>7, <1>8, <1>9
     DEF Next, Serve, Handle, IssueGrant, Lapse, Expire, RevokeGrant, locks, vars

LEMMA Initially == Init => IInv
<1> SUFFICES ASSUME Init PROVE IInv
  OBVIOUS
<1> USE Carried DEF Init
<1>1. \A c \in Conns : at[c] \in {"idle", "lost"}
  OBVIOUS
<1>2. ThreadsOK
  BY DEF ThreadsOK, Places, Claim
<1>3. GrantsOK
  BY FirstAssumption DEF GrantsOK
<1>4. RequestsOK /\ LocksOK
  BY DEF RequestsOK, LocksOK
<1>5. ClaimsOK
  BY DEF ClaimsOK, Claim
<1>6. LockInv /\ AdmittedInv
  BY <1>1 DEF LockInv, AdmittedInv, Selected, Inside, Recovering, Owning
<1>7. ServingInv /\ KeptInv
  BY <1>1 DEF ServingInv, KeptInv, Serving, Before, Leaving
<1>8. RecordsInv
  BY DEF RecordsInv, IsInjective, ToSet
<1> QED
  BY <1>2, <1>3, <1>4, <1>5, <1>6, <1>7, <1>8 DEF IInv, Typed

-----------------------------------------------------------------------------
(* The invariant of the endpoint: types, who holds which lock, that what   *)
(* was admitted stays so, that a request is in one thread's hands, and     *)
(* what is kept of it.                                                     *)
THEOREM Invariance == Spec => []IInv
<1>1. IInv /\ [Next]_vars => IInv'
  BY TypedStep, LockStep, AdmittedStep, ServingStep, KeptStep, RecordsStep DEF IInv, Typed
<1> QED
  BY <1>1, Initially, PTL DEF Spec

(* No recovery inspects a session or takes its grants while a request that *)
(* changes it is inside the Environment, and no request of another thread  *)
(* takes its selection away: whichever grants expire or are revoked for    *)
(* the end of their job meanwhile.                                         *)
THEOREM ThmRunsUnderItsGrant == Spec => []RunsUnderItsGrant
<1>1. IInv => TypeOK
  <2> SUFFICES ASSUME IInv PROVE TypeOK
    OBVIOUS
  <2>1. ToSet(records) \subseteq Ids
    BY DEF IInv, RecordsInv, ToSet
  <2>2. runs \in [Ids -> 0..2]
    <3>1. \A i \in Ids : runs[i] \in 0..2
      BY DEF IInv, Typed, RequestsOK, KeptInv
    <3> QED
      BY <3>1 DEF IInv, Typed, RequestsOK
  <2> QED
    BY <2>1, <2>2
       DEF IInv, Typed, ThreadsOK, GrantsOK, RequestsOK, LocksOK, ClaimsOK, RecordsInv, TypeOK
<1>2. IInv => RunsUnderItsGrant
  <2> SUFFICES ASSUME IInv, NEW c \in Conns, at[c] = "running", NeedsSelected(c)
               PROVE  /\ bound[Grant(c)] = session[c]
                      /\ Grant(c) \in live \cup lapsed
                      /\ \A d \in Conns : ~Recovers(d, session[c])
    BY <1>1 DEF RunsUnderItsGrant
  <2>1. bound[Grant(c)] = session[c] /\ Grant(c) \in live \cup lapsed
    BY DEF IInv, AdmittedInv
  <2>2. ASSUME NEW d \in Conns, Recovers(d, session[c]) PROVE FALSE
    <3>1. at[d] \in Owning /\ Owner(d) = session[c]
      BY <2>2 DEF Recovers, Owning
    <3>2. lock[Owner(d)] = d /\ Owner(d) \in Sessions /\ c # d
      BY <3>1 DEF IInv, LockInv, Owning, Recovering
    <3>3. session[c] # None /\ at[c] \in Inside
      BY <3>1, <3>2, Carried DEF Inside
    <3> QED
      BY <3>1, <3>2, <3>3 DEF IInv, LockInv
  <2> QED
    BY <2>1, <2>2
<1> QED
  BY <1>2, Invariance, PTL

-----------------------------------------------------------------------------
(* The refinement: what a connection was told is the answer of its thread, *)
(* once that has one to give.                                              *)
Told == [c \in Conns |-> IF at[c] = "answered" THEN answer[c] ELSE None]

LEMMA ToldStep ==
    ASSUME ThreadsOK, NEW c \in Conns, Only(c), \A d \in Conns \ {c} : answer'[d] = answer[d],
           at[c] # "answered"
    PROVE  /\ Told[c] = None
           /\ at'[c] # "answered" => Told' = Told
           /\ at'[c] = "answered" => Told' = [Told EXCEPT ![c] = answer'[c]]
  BY DEF Only, Told

(* Every step of the endpoint is one of the ledger, or none.               *)
LEMMA LedgerStep ==
    ASSUME IInv, [Next]_vars
    PROVE  Ledger!Next \/ UNCHANGED <<runs, recorded, Told>>
<1> USE Carried
<1> DEFINE Asks == [c \in Conns |-> Id(c)]
           Steps == Ledger!Next \/ UNCHANGED <<runs, recorded, Told>>
<1>0. ThreadsOK /\ RequestsOK /\ ServingInv /\ KeptInv /\ RecordsInv
  BY DEF IInv, Typed
<1>1. ASSUME NEW c \in Conns, Only(c), \A d \in Conns \ {c} : answer'[d] = answer[d],
             at[c] # "answered", at'[c] # "answered", UNCHANGED <<runs, recorded>>
      PROVE  Steps
  BY <1>0, <1>1, ToldStep
<1>2. ASSUME NEW c \in Conns, Only(c), \A d \in Conns \ {c} : answer'[d] = answer[d],
             at[c] # "answered", at'[c] = "answered", UNCHANGED <<runs, recorded>>,
             \/ answer'[c] = "denied"
             \/ answer'[c] = "ambiguous" /\ recorded[Id(c)] = None
             \/ answer'[c] = recorded[Id(c)] /\ recorded[Id(c)] # None
      PROVE  Steps
  <2>1. Told[c] = None /\ Told' = [Told EXCEPT ![c] = answer'[c]]
    BY <1>0, <1>2, ToldStep
  <2>2. Ledger!TurnAway(c) \/ Ledger!Repeat(c)
    BY <1>2, <2>1 DEF Ledger!TurnAway, Ledger!Repeat, Told
  <2> QED
    BY <2>2 DEF Ledger!Next
<1>3. ASSUME NEW c \in Conns, Arrive(c) PROVE Steps
  <2>1. /\ Only(c) /\ at[c] # "answered" /\ UNCHANGED <<runs, recorded>>
        /\ \A d \in Conns \ {c} : answer'[d] = answer[d]
        /\ at'[c] = "answered" => answer'[c] = "denied"
    BY <1>0, <1>3, Entering DEF Arrive, Go, Say, ThreadsOK, requests
  <2> QED
    BY <1>1, <1>2, <2>1
<1>4. ASSUME NEW c \in Conns, Register(c) PROVE Steps
  <2>1. /\ Only(c) /\ at[c] # "answered" /\ UNCHANGED <<runs, recorded>>
        /\ \A d \in Conns \ {c} : answer'[d] = answer[d]
        /\ at'[c] = "answered" => answer'[c] = recorded[Id(c)] /\ recorded[Id(c)] # None
    BY <1>0, <1>4, Entering DEF Register, Go, Say, ThreadsOK
  <2> QED
    BY <1>1, <1>2, <2>1
<1>5. ASSUME NEW c \in Conns, GiveUp(c) PROVE Steps
  <2>1. /\ Only(c) /\ at[c] # "answered" /\ at'[c] = "answered" /\ UNCHANGED <<runs, recorded>>
        /\ \A d \in Conns \ {c} : answer'[d] = answer[d]
        /\ answer'[c] = "ambiguous" /\ recorded[Id(c)] = None
    BY <1>0, <1>5, Entering DEF GiveUp, Say, ThreadsOK, KeptInv, requests
  <2> QED
    BY <1>2, <2>1
<1>6. ASSUME NEW c \in Conns, ReadCached(c) PROVE Steps
  <2>1. /\ Only(c) /\ at[c] = "cached" /\ at'[c] = "answered" /\ UNCHANGED <<runs, recorded>>
        /\ \A d \in Conns \ {c} : answer'[d] = answer[d]
        /\ answer'[c] \in {recorded[Id(c)], "denied"}
    BY <1>0, <1>6, Entering DEF ReadCached, Say, ThreadsOK, requests
  <2>2. recorded[Id(c)] # None
    BY <1>0, <2>1 DEF KeptInv
  <2> QED
    BY <1>2, <2>1, <2>2
<1>7. ASSUME NEW c \in Conns, Run(c) \/ Publish(c) PROVE Steps
  <2>1. /\ Only(c) /\ at[c] \in Before /\ at[c] \in Serving
        /\ at[c] # "answered" /\ at'[c] # "answered"
        /\ \A d \in Conns \ {c} : answer'[d] = answer[d]
        /\ runs' = [runs EXCEPT ![Id(c)] = @ + 1] /\ UNCHANGED recorded
    BY <1>0, <1>7, Entering, Recovery
       DEF Run, Publish, Say, ThreadsOK, Before, Serving, Leaving
  <2>2. runs[Id(c)] = 0 /\ recorded[Id(c)] = None
    BY <1>0, <2>1 DEF ServingInv, KeptInv
  <2>3. Told' = Told
    BY <1>0, <2>1, ToldStep
  <2>4. runs' = [runs EXCEPT ![Id(c)] = 1]
    BY <1>0, <2>1, <2>2 DEF RequestsOK
  <2>5. Ledger!Execute(Id(c))
    BY <2>1, <2>2, <2>3, <2>4 DEF Ledger!Execute, Told
  <2> QED
    BY <2>5 DEF Ledger!Next
<1>8. ASSUME NEW c \in Conns, Record(c) PROVE Steps
  <2>1. PICK gone \in SUBSET {i \in Ids : recorded[i] # None} :
           /\ recorded' = [i \in Ids |-> IF i = Id(c) THEN answer[c]
                                         ELSE IF i \in gone THEN None ELSE recorded[i]]
           /\ runs' = [i \in Ids |-> IF i \in gone THEN 0 ELSE runs[i]]
    BY <1>0, <1>8, EvictedIsOlder
  <2>2. /\ Only(c) /\ at[c] = "recording" /\ at'[c] = "answered" /\ UNCHANGED answer
        /\ recorded[Id(c)] = None /\ answer[c] \in Answers
    BY <1>0, <1>8, Entering, EvictedIsOlder DEF Record
  <2>3. Told[c] = None /\ Told' = [Told EXCEPT ![c] = answer[c]]
    BY <1>0, <2>2, ToldStep
  <2>4. Asks[c] = Id(c)
    OBVIOUS
  <2>5. recorded' = [i \in Ids |-> IF i = Asks[c] THEN answer[c]
                                   ELSE IF i \in gone THEN None ELSE recorded[i]]
    BY <2>1, <2>4
  <2>6. Told[c] = None /\ recorded[Asks[c]] = None
    BY <2>2, <2>3, <2>4
  <2> HIDE DEF Asks
  <2> DEFINE Settled(a, g) ==
               /\ Told' = [Told EXCEPT ![c] = a]
               /\ recorded' = [i \in Ids |-> IF i = Asks[c] THEN a
                                             ELSE IF i \in g THEN None ELSE recorded[i]]
               /\ runs' = [i \in Ids |-> IF i \in g THEN 0 ELSE runs[i]]
  <2>7. \E a \in Answers, g \in SUBSET {i \in Ids : recorded[i] # None} : Settled(a, g)
    <3>1. Settled(answer[c], gone)
      BY <2>1, <2>3, <2>5
    <3> HIDE DEF Settled
    <3> QED
      BY <2>2, <3>1
  <2>8. Ledger!Settle(c)
    BY <2>6, <2>7 DEF Ledger!Settle, Told, Asks
  <2> QED
    BY <2>8 DEF Ledger!Next
<1>9. CASE Restart
  <2>1. Told' = Told
    BY <1>9 DEF Restart, Told
  <2>2. Ledger!ForgetAll
    BY <1>9, <2>1 DEF Restart, Ledger!ForgetAll, Told
  <2> QED
    BY <2>2 DEF Ledger!Next
<1>10. ASSUME NEW c \in Conns, TakeSelection(c) \/ TakeSession(c) \/ Enter(c) \/ Leave(c)
       PROVE  Steps
  <2>1. /\ Only(c) /\ at[c] # "answered" /\ at'[c] # "answered" /\ UNCHANGED <<runs, recorded>>
        /\ \A d \in Conns \ {c} : answer'[d] = answer[d]
    BY <1>0, <1>10, Entering
       DEF TakeSelection, TakeSession, Enter, Leave, Say, ThreadsOK, requests
  <2> QED
    BY <1>1, <2>1
<1>11. ASSUME NEW c \in Conns, ReadClaims(c) \/ Fence(c) \/ LockOwner(c) \/ Validate(c)
                               \/ InspectBefore(c) \/ InspectAfter(c) \/ RevokeOwner(c)
                               \/ InspectGrants(c) \/ ReleaseOwner(c) \/ Unfence(c)
       PROVE  Steps
  <2>1. /\ Only(c) /\ at[c] # "answered" /\ at'[c] # "answered" /\ UNCHANGED <<runs, recorded>>
        /\ \A d \in Conns \ {c} : answer'[d] = answer[d]
    BY <1>0, <1>11, Recovery
       DEF ReadClaims, Fence, LockOwner, Validate, InspectBefore, InspectAfter, Inspect,
           RevokeOwner, InspectGrants, ReleaseOwner, Unfence, Say, ThreadsOK, requests
  <2> QED
    BY <1>1, <2>1
<1>12. CASE UNCHANGED <<threads, requests>>
  BY <1>12 DEF threads, requests, Told
<1> QED
  BY <1>3, <1>4, <1>5, <1>6, <1>7, <1>8, <1>9, <1>10, <1>11, <1>12
     DEF Next, Serve, Handle, IssueGrant, Lapse, Expire, RevokeGrant, vars

(* The endpoint implements the ledger: a request is run once as long as    *)
(* its answer is kept, and every connection is told the answer of that run *)
(* or turned away.                                                         *)
THEOREM ThmKeepsTheLedger == Spec => KeepsTheLedger
<1>1. Init => Ledger!Init
  <2> SUFFICES ASSUME Init PROVE Ledger!Init
    OBVIOUS
  <2>1. \A c \in Conns : at[c] # "answered"
    BY DEF Init
  <2> QED
    BY <2>1 DEF Init, Ledger!Init
<1>2. IInv /\ [Next]_vars => [Ledger!ledger' # Ledger!ledger => Ledger!Next]_(Ledger!ledger)
  BY LedgerStep DEF Ledger!ledger, Told
<1> QED
  BY <1>1, <1>2, Invariance, PTL DEF Spec, KeepsTheLedger, Ledger!Spec

-----------------------------------------------------------------------------
(* The bridge.  Its connections are made one after the other, so at most   *)
(* one is being served, the one it waits for: FlightInv.  Once an          *)
(* operation was run its answer is not that the grant is denied, and       *)
(* nothing else is tried again: RanInv.  From the selection to the answer  *)
(* the selected session is the one that the call named: NamedInv.          *)
Resting == {"idle", "answered", "lost"}
Waits == {"selecting", "operating"}
Operates == \/ bridge.step \in {"operate", "operating"}
            \/ bridge.step = "issue" /\ bridge.after = "operate"

FlightInv ==
    /\ bridge.step \in Waits =>
          /\ bridge.conn \in Bridged /\ at[bridge.conn] # "idle"
          /\ Operation(bridge.conn) <=> bridge.step = "operating"
    /\ \A c \in Bridged : at[c] \notin Resting => c = bridge.conn /\ bridge.step \in Waits

RanInv ==
    bridge.ran # 0 =>
        /\ bridge.ran = 1 /\ bridge.step = "operating"
        /\ at[bridge.conn] \in Leaving \cup {"answered", "lost"}
        /\ answer[bridge.conn] # "denied"

NamedInv ==
    /\ bridge.step = "idle" => bridge.picked = None
    /\ bridge.named # None => /\ bridge.picked \in {None, bridge.named}
                              /\ Operates => bridge.selected = bridge.named
    /\ bridge.step = "operating" /\ at[bridge.conn] \notin Resting =>
           session[bridge.conn] = bridge.selected

BInv == BridgeTypeOK /\ FlightInv /\ RanInv /\ NamedInv

BridgeFields == [step : BridgeSteps, after : {"select", "operate"},
                 named : Sessions \cup {None}, grant : Grants \cup {None},
                 selected : Sessions \cup {None}, again : BOOLEAN, retried : BOOLEAN,
                 conn : Bridged \cup {None}, picked : Sessions \cup {None}, ran : 0..2]

(* The bridge restricts what the endpoint does, and adds nothing to it.    *)
LEMMA BridgedStep == [BridgedNext]_<<vars, bridge>> => [Next]_vars
<1> SUFFICES ASSUME [BridgedNext]_<<vars, bridge>> PROVE [Next]_vars
  OBVIOUS
<1>1. CASE BridgeMoves
  <2>1. ASSUME NEW c \in Bridged, Send(c) PROVE Next
    BY <2>1, BridgeAssumption DEF Send, Next
  <2>2. ASSUME NEW g \in Grants, Issue(g) PROVE Next
    BY <2>2 DEF Issue, Next
  <2>3. CASE Call \/ Reply \/ NewBridge
    BY <2>3 DEF Call, Reply, NewBridge
  <2> QED
    BY <1>1, <2>1, <2>2, <2>3 DEF BridgeMoves
<1>2. CASE BridgedNext /\ ~BridgeMoves
  BY <1>2 DEF BridgedNext, Next, Serve
<1>3. CASE UNCHANGED <<vars, bridge>>
  BY <1>3
<1> QED
  BY <1>1, <1>2, <1>3

(* A thread goes on and the bridge looks elsewhere.                        *)
LEMMA Elsewhere ==
    ASSUME ThreadsOK, BInv, NEW c \in Conns, Only(c), UNCHANGED <<bridge, session>>,
           at[c] \notin Resting \/ c \notin Bridged, at'[c] # "idle",
           \A d \in Conns \ {c} : answer'[d] = answer[d],
           at[c] \in Leaving => at'[c] \in Leaving \cup {"answered"} /\ answer'[c] = answer[c]
    PROVE  BInv'
<1>1. \A d \in Bridged : d \in Conns
  BY BridgeAssumption
<1>2. \A d \in Bridged : at'[d] \notin Resting => at[d] \notin Resting
  BY <1>1 DEF Only
<1>3. BridgeTypeOK'
  BY DEF BInv, BridgeTypeOK
<1>4. FlightInv'
  <2>1. bridge.step \in Waits => at'[bridge.conn] # "idle"
    BY <1>1 DEF BInv, FlightInv, Only
  <2> QED
    BY <1>2, <2>1 DEF BInv, FlightInv
<1>5. RanInv'
  <2> SUFFICES ASSUME bridge.ran # 0
               PROVE  /\ at'[bridge.conn] \in Leaving \cup {"answered", "lost"}
                      /\ answer'[bridge.conn] # "denied"
    BY DEF BInv, RanInv
  <2>1. /\ bridge.conn \in Bridged /\ answer[bridge.conn] # "denied"
        /\ at[bridge.conn] \in Leaving \cup {"answered", "lost"}
    BY DEF BInv, RanInv, FlightInv, Waits
  <2> QED
    BY <1>1, <2>1 DEF Only, Resting
<1>6. NamedInv'
  <2>1. bridge.step = "operating" /\ at'[bridge.conn] \notin Resting =>
           session[bridge.conn] = bridge.selected
    BY <1>2 DEF BInv, NamedInv, FlightInv, Waits
  <2> QED
    BY <2>1 DEF BInv, NamedInv, Operates
<1> QED
  BY <1>3, <1>4, <1>5, <1>6 DEF BInv

(* What is served is not counted before it leaves the Environment.         *)
LEMMA Uncounted ==
    ASSUME BInv, NEW c \in Bridged, at[c] \notin Resting \cup Leaving
    PROVE  c = bridge.conn /\ bridge.step \in Waits /\ bridge.ran = 0
<1>1. c = bridge.conn /\ bridge.step \in Waits
  BY DEF BInv, FlightInv
<1> QED
  BY <1>1 DEF BInv, RanInv, Resting

(* A thread leaves the Environment with the answer of an operation, which  *)
(* is counted, or of a continuation, which is looked at.                   *)
LEMMA ServedStep ==
    ASSUME ThreadsOK, GrantsOK, BInv, NEW c \in Bridged, Run(c) \/ Publish(c), Served(c)
    PROVE  BInv'
<1>1. c \in Conns /\ Grant(c) \in Grants /\ \A d \in Bridged : d \in Conns
  BY BridgeAssumption, RequestAssumption DEF Grant
<1>2. /\ Only(c) /\ at[c] \in {"running", "publishing"} /\ at'[c] \in {"leaving", "releasing"}
      /\ UNCHANGED session
      /\ answer'[c] \in {"ok", "failed", "ambiguous"}
      /\ \A d \in Conns \ {c} : answer'[d] = answer[d]
      /\ bound'[Grant(c)] \in Sessions \cup {None}
  <2>1. CASE Run(c)
    BY <1>1, <2>1, Entering DEF Run, Say, ThreadsOK, GrantsOK
  <2>2. CASE Publish(c)
    BY <1>1, <2>2, Recovery DEF Publish, Say, ThreadsOK, GrantsOK, grants
  <2> QED
    BY <2>1, <2>2
<1>3. c = bridge.conn /\ bridge.step \in Waits /\ bridge.ran = 0
  BY <1>2, Uncounted DEF Resting, Leaving
<1>4. bridge \in BridgeFields
  BY DEF BInv, BridgeTypeOK, BridgeFields
<1>5. at'[c] \in Leaving /\ \A d \in Bridged : at'[d] \notin Resting => d = c
  BY <1>1, <1>2, <1>3 DEF Leaving, Only, BInv, FlightInv
<1>6. CASE Operation(c)
  <2>1. bridge' = [bridge EXCEPT !.ran = 1] /\ bridge.step = "operating"
    BY <1>2, <1>3, <1>4, <1>6 DEF Served, BInv, FlightInv
  <2>2. /\ bridge' \in BridgeFields /\ bridge'.ran = 1
        /\ \A f \in {"step", "after", "named", "selected", "conn", "picked"} :
              bridge'[f] = bridge[f]
    BY <1>4, <2>1 DEF BridgeFields
  <2>3. BridgeTypeOK'
    BY <2>2 DEF BridgeTypeOK, BridgeFields
  <2>4. FlightInv'
    BY <1>1, <1>3, <1>5, <1>6, <2>1, <2>2 DEF FlightInv, Waits, Operation, Leaving, Command,
                                              Id, BInv
  <2>5. RanInv'
    BY <1>2, <1>3, <1>5, <2>1, <2>2 DEF RanInv
  <2>6. NamedInv'
    BY <1>1, <1>2, <1>3, <1>4, <2>1, <2>2 DEF BInv, NamedInv, Operates, Resting, BridgeFields
  <2> QED
    BY <2>3, <2>4, <2>5, <2>6 DEF BInv
<1>7. CASE ~Operation(c)
  <2>1. PICK s \in Sessions \cup {None} :
           /\ bridge' = [bridge EXCEPT !.picked = s] /\ bridge.step = "selecting"
           /\ bridge.named # None => s \in {None, bridge.named}
    <3>1. bridge.step = "selecting"
      BY <1>3, <1>7 DEF BInv, FlightInv, Waits
    <3>2. /\ answer'[c] = "ok" /\ bridge.named # None => bound'[Grant(c)] = bridge.named
          /\ bridge' = [bridge EXCEPT !.picked = IF answer'[c] = "ok" THEN bound'[Grant(c)]
                                                                      ELSE None]
      BY <1>2, <1>7 DEF Served
    <3> QED
      BY <1>2, <3>1, <3>2
  <2>2. /\ bridge' \in BridgeFields /\ bridge'.picked = s
        /\ \A f \in {"step", "after", "named", "selected", "conn", "ran"} :
              bridge'[f] = bridge[f]
    BY <1>4, <2>1 DEF BridgeFields
  <2>3. BridgeTypeOK'
    BY <2>2 DEF BridgeTypeOK, BridgeFields
  <2>4. FlightInv'
    BY <1>1, <1>3, <1>5, <1>7, <2>1, <2>2 DEF FlightInv, Waits, Operation, Leaving, Command,
                                              Id, BInv
  <2>5. RanInv'
    BY <1>3, <2>2 DEF RanInv
  <2>6. NamedInv'
    BY <2>1, <2>2 DEF BInv, NamedInv, Operates, Resting, BridgeFields
  <2> QED
    BY <2>3, <2>4, <2>5, <2>6 DEF BInv
<1> QED
  BY <1>6, <1>7

(* Any other step of a thread.                                             *)
LEMMA ThreadStep ==
    ASSUME ThreadsOK, GrantsOK, BInv, NEW c \in Conns,
           \/ Handle(c) /\ Served(c)
           \/ /\ UNCHANGED bridge
              /\ \/ Register(c) \/ GiveUp(c) \/ InspectBefore(c) \/ InspectAfter(c)
    PROVE  BInv'
<1> DEFINE Quiet == /\ Only(c) /\ UNCHANGED session /\ at[c] \notin Resting /\ at'[c] # "idle"
                    /\ \A d \in Conns \ {c} : answer'[d] = answer[d]
                    /\ at[c] \in Leaving => /\ at'[c] \in Leaving \cup {"answered"}
                                            /\ answer'[c] = answer[c]
<1>1. CASE (Run(c) \/ Publish(c)) /\ Served(c)
  <2>1. CASE c \in Bridged
    BY <1>1, <2>1, ServedStep
  <2>2. CASE c \notin Bridged
    <3>1. UNCHANGED bridge
      BY <1>1, <2>2 DEF Served
    <3>2. CASE Run(c)
      <4>1. Quiet
        BY <3>2, Entering DEF Run, Say, ThreadsOK, Resting, Leaving
      <4> QED
        BY <3>1, <4>1, Elsewhere
    <3>3. CASE Publish(c)
      <4>1. Quiet
        BY <3>3, Recovery DEF Publish, Say, ThreadsOK, Resting, Leaving
      <4> QED
        BY <3>1, <4>1, Elsewhere
    <3> QED
      BY <1>1, <3>2, <3>3
  <2> QED
    BY <2>1, <2>2
<1>2. CASE Register(c) /\ UNCHANGED bridge
  <2>1. Quiet
    BY <1>2, Entering DEF Register, Say, ThreadsOK, Resting, Leaving
  <2> QED
    BY <1>2, <2>1, Elsewhere
<1>3. CASE GiveUp(c) /\ UNCHANGED bridge
  <2>1. Quiet
    BY <1>3, Entering DEF GiveUp, Say, ThreadsOK, Resting, Leaving
  <2> QED
    BY <1>3, <2>1, Elsewhere
<1>4. CASE (InspectBefore(c) \/ InspectAfter(c)) /\ UNCHANGED bridge
  <2>1. Quiet
    BY <1>4, Recovery DEF InspectBefore, InspectAfter, Inspect, Say, ThreadsOK, Resting, Leaving
  <2> QED
    BY <1>4, <2>1, Elsewhere
<1>5. CASE (ReadCached(c) \/ TakeSelection(c) \/ TakeSession(c) \/ Enter(c) \/ Leave(c)
              \/ Record(c)) /\ Served(c)
  <2>1. Quiet
    BY <1>5, Entering DEF ReadCached, TakeSelection, TakeSession, Enter, Leave, Record, Say,
                          ThreadsOK, Resting, Leaving
  <2>2. at[c] \notin {"running", "publishing"}
    BY <1>5, Entering
  <2> QED
    BY <1>5, <2>1, <2>2, Elsewhere DEF Served
<1>6. CASE (ReadClaims(c) \/ Fence(c) \/ LockOwner(c) \/ Validate(c) \/ RevokeOwner(c)
              \/ InspectGrants(c) \/ ReleaseOwner(c) \/ Unfence(c)) /\ Served(c)
  <2>1. Quiet
    BY <1>6, Recovery DEF ReadClaims, Fence, LockOwner, Validate, RevokeOwner, InspectGrants,
                          ReleaseOwner, Unfence, Say, ThreadsOK, Resting, Leaving
  <2>2. at[c] \notin {"running", "publishing"}
    BY <1>6, Recovery
  <2> QED
    BY <1>6, <2>1, <2>2, Elsewhere DEF Served
<1> QED
  BY <1>1, <1>2, <1>3, <1>4, <1>5, <1>6 DEF Handle

-----------------------------------------------------------------------------
(* The bridge's own steps.                                                 *)
LEMMA CallStep == ASSUME BInv, Call \/ NewBridge PROVE BInv'
<1>1. /\ bridge \in BridgeFields /\ bridge.step = "idle" /\ bridge.picked = None
      /\ bridge.ran = 0 /\ UNCHANGED <<at, answer, session>>
      /\ \A c \in Bridged : at[c] \in Resting
  BY DEF BInv, BridgeTypeOK, BridgeFields, NamedInv, RanInv, FlightInv, Waits, Call, NewBridge,
         vars, threads
<1>2. CASE Call
  <2>1. PICK named \in Names, step \in {"issue", "ready"} :
          LET next == IF Selects(named) THEN "select" ELSE "operate"
          IN bridge' = [bridge EXCEPT !.named = named, !.after = next,
                                      !.step = IF step = "issue" THEN step ELSE next]
    BY <1>2 DEF Call
  <2> DEFINE next == IF Selects(named) THEN "select" ELSE "operate"
  <2>2. PICK first \in {"issue", next} :
          bridge' = [bridge EXCEPT !.named = named, !.after = next, !.step = first]
    BY <2>1
  <2>3. named # None /\ next = "operate" => bridge.selected = named
    BY DEF Selects
  <2>4. next \in {"select", "operate"} /\ named \in Sessions \cup {None}
    BY BridgeAssumption
  <2> HIDE DEF next
  <2>5. /\ bridge' \in BridgeFields /\ bridge'.step = first /\ bridge'.after = next
        /\ bridge'.named = named /\ bridge'.picked = None /\ bridge'.ran = 0
        /\ bridge'.selected = bridge.selected
    <3>1. first \in BridgeSteps /\ next \in BridgeSteps
      BY <2>4 DEF BridgeSteps
    <3> QED
      BY <1>1, <2>2, <2>4, <3>1 DEF BridgeFields
  <2>6. BridgeTypeOK'
    BY <2>5 DEF BridgeTypeOK, BridgeFields
  <2>7. FlightInv' /\ RanInv'
    BY <1>1, <2>4, <2>5 DEF FlightInv, RanInv, Waits
  <2>8. NamedInv'
    BY <2>3, <2>4, <2>5 DEF NamedInv, Operates
  <2> QED
    BY <2>6, <2>7, <2>8 DEF BInv
<1>3. CASE NewBridge
  <2>1. bridge' \in BridgeFields /\ bridge' = NoContext
    BY <1>3 DEF NewBridge, NoContext, BridgeFields, BridgeSteps
  <2> QED
    BY <1>1, <2>1 DEF NoContext, BInv, BridgeTypeOK, BridgeFields, FlightInv, RanInv,
                      NamedInv, Waits
<1> QED
  BY <1>2, <1>3

LEMMA IssueStep == ASSUME BInv, NEW g \in Grants, Issue(g) PROVE BInv'
<1>1. /\ bridge \in BridgeFields /\ bridge.step = "issue" /\ bridge.ran = 0
      /\ bridge' = [bridge EXCEPT !.step = bridge.after, !.grant = g]
      /\ UNCHANGED <<at, answer, session>>
      /\ \A c \in Bridged : at[c] \in Resting
  BY DEF BInv, BridgeTypeOK, BridgeFields, RanInv, FlightInv, Waits, Issue, IssueGrant, threads
<1>2. /\ bridge' \in BridgeFields /\ bridge'.step = bridge.after
      /\ \A f \in {"after", "named", "selected", "conn", "picked", "ran"} : bridge'[f] = bridge[f]
  BY <1>1 DEF BridgeFields, BridgeSteps
<1>3. bridge.after \in {"select", "operate"}
  BY <1>1 DEF BridgeFields
<1>4. BridgeTypeOK'
  BY <1>2 DEF BridgeTypeOK, BridgeFields
<1>5. FlightInv' /\ RanInv'
  BY <1>1, <1>2, <1>3 DEF FlightInv, RanInv, Waits
<1>6. NamedInv'
  BY <1>1, <1>2, <1>3 DEF BInv, NamedInv, Operates
<1> QED
  BY <1>4, <1>5, <1>6 DEF BInv

(* An operation names the session that is selected.                        *)
LEMMA SendStep == ASSUME ThreadsOK, BInv, NEW c \in Bridged, Send(c) PROVE BInv'
<1>1. c \in Conns /\ \A d \in Bridged : d \in Conns
  BY BridgeAssumption
<1>2. /\ bridge \in BridgeFields /\ bridge.step \in {"select", "operate"} /\ bridge.ran = 0
      /\ \A d \in Bridged : at[d] \in Resting
  BY DEF BInv, BridgeTypeOK, BridgeFields, RanInv, FlightInv, Waits, Send
<1>3. Only(c) /\ at'[c] \in {"arrived", "answered"}
  BY <1>1, Entering DEF Send
<1>4. bridge' = [bridge EXCEPT !.conn = c,
                    !.step = IF @ = "select" THEN "selecting" ELSE "operating",
                    !.selected = IF bridge.step = "select" THEN None ELSE @]
  BY DEF Send
<1>5. /\ bridge' \in BridgeFields /\ bridge'.conn = c
      /\ bridge'.step = IF bridge.step = "select" THEN "selecting" ELSE "operating"
      /\ bridge.step = "operate" => bridge'.selected = bridge.selected
      /\ \A f \in {"named", "picked", "ran"} : bridge'[f] = bridge[f]
  BY <1>2, <1>4 DEF BridgeFields, BridgeSteps
<1>6. Operation(c) <=> bridge.step = "operate"
  BY DEF Send
<1>7. bridge.step = "operate" /\ at'[c] = "arrived" => session'[c] = bridge.selected
  <2> SUFFICES ASSUME bridge.step = "operate", at'[c] = "arrived"
               PROVE  session'[c] = bridge.selected
    OBVIOUS
  <2>1. Operation(c) /\ Arrive(c) /\ session'[c] \in {bridge.selected, None}
    BY <1>6 DEF Send
  <2>2. PICK s \in RequestSessions(c) : session' = [session EXCEPT ![c] = s]
    BY <1>1, <2>1 DEF Arrive, Say, Go, ThreadsOK
  <2>3. session'[c] # None
    BY <1>1, <2>1, <2>2, BridgeAssumption DEF RequestSessions, Operation, ThreadsOK
  <2> QED
    BY <2>1, <2>3
<1>8. BridgeTypeOK'
  BY <1>5 DEF BridgeTypeOK, BridgeFields
<1>9. FlightInv'
  <2>1. \A d \in Bridged : at'[d] \notin Resting => d = c
    BY <1>1, <1>2, <1>3 DEF Only
  <2>2. Operation(c)' <=> Operation(c)
    BY DEF Operation, Command, Id
  <2> QED
    BY <1>2, <1>3, <1>5, <1>6, <2>1 DEF FlightInv, Waits, Operation, Command, Id
<1>10. RanInv'
  BY <1>2, <1>5 DEF RanInv
<1>11. NamedInv'
  <2>1. bridge'.step = "operating" <=> bridge.step = "operate"
    BY <1>2, <1>5
  <2>2. bridge'.step = "operating" /\ at'[bridge'.conn] \notin Resting =>
           session'[bridge'.conn] = bridge'.selected
    BY <1>3, <1>5, <1>7, <2>1 DEF Resting
  <2>3. bridge.named # None => /\ bridge.picked \in {None, bridge.named}
                               /\ bridge.step = "operate" => bridge.selected = bridge.named
    BY DEF BInv, NamedInv, Operates
  <2> QED
    BY <1>2, <1>5, <2>1, <2>2, <2>3 DEF NamedInv, Operates
<1> QED
  BY <1>8, <1>9, <1>10, <1>11 DEF BInv

(* A denial was not executed; whatever was, ends the call.                 *)
LEMMA ReplyStep == ASSUME BInv, Reply PROVE BInv'
<1> DEFINE c == bridge.conn
<1>1. /\ bridge \in BridgeFields /\ bridge.step \in Waits /\ c \in Bridged
      /\ at[c] \in {"answered", "lost"}
      /\ UNCHANGED <<at, answer, session>>
  BY DEF BInv, BridgeTypeOK, BridgeFields, FlightInv, Waits, Reply, vars, threads
<1>2. \A d \in Bridged : at[d] \in Resting
  BY <1>1 DEF BInv, FlightInv, Resting
<1>3. Denied(c) => bridge.ran = 0
  BY DEF BInv, RanInv, Denied
<1>4. CASE Done
  <2>1. bridge' = [NoContext EXCEPT !.grant = bridge.grant, !.selected = bridge.selected]
    BY <1>4 DEF Done
  <2>2. /\ NoContext \in BridgeFields /\ NoContext.step = "idle" /\ NoContext.named = None
        /\ NoContext.picked = None /\ NoContext.ran = 0
    BY DEF NoContext, BridgeFields, BridgeSteps
  <2>3. /\ bridge' \in BridgeFields /\ bridge'.step = "idle" /\ bridge'.named = None
        /\ bridge'.picked = None /\ bridge'.ran = 0
    BY <1>1, <2>1, <2>2 DEF BridgeFields
  <2> QED
    BY <1>1, <1>2, <2>3
       DEF BInv, BridgeTypeOK, BridgeFields, FlightInv, RanInv, NamedInv, Waits
<1>5. CASE /\ bridge.step = "selecting" /\ Denied(c)
           /\ bridge' = [Refresh("select") EXCEPT !.again = TRUE]
  <2>1. /\ bridge' \in BridgeFields /\ bridge'.step = "issue" /\ bridge'.after = "select"
        /\ bridge'.ran = 0
        /\ bridge'.named = bridge.named /\ bridge'.picked = bridge.picked
    BY <1>1, <1>3, <1>5 DEF Refresh, BridgeFields, BridgeSteps
  <2> QED
    BY <1>1, <1>2, <2>1
       DEF BInv, BridgeTypeOK, BridgeFields, FlightInv, RanInv, NamedInv, Operates, Waits
<1>6. CASE /\ bridge.step = "selecting" /\ bridge.picked # None
           /\ bridge' = [bridge EXCEPT !.step = "operate", !.conn = None,
                                       !.selected = bridge.picked, !.picked = None]
  <2>1. /\ bridge' \in BridgeFields /\ bridge'.step = "operate" /\ bridge'.ran = bridge.ran
        /\ bridge'.named = bridge.named /\ bridge'.picked = None
        /\ bridge'.selected = bridge.picked
    BY <1>1, <1>6 DEF BridgeFields, BridgeSteps
  <2>2. bridge.ran = 0
    BY <1>6 DEF BInv, RanInv
  <2>3. bridge.named # None => bridge.picked = bridge.named
    BY <1>6 DEF BInv, NamedInv
  <2> QED
    BY <1>1, <1>2, <2>1, <2>2, <2>3
       DEF BInv, BridgeTypeOK, BridgeFields, FlightInv, RanInv, NamedInv, Operates, Waits
<1>7. CASE /\ bridge.step = "operating" /\ Denied(c)
           /\ bridge' = [Refresh("select") EXCEPT !.selected = None, !.again = FALSE,
                                                  !.retried = TRUE]
  <2>1. /\ bridge' \in BridgeFields /\ bridge'.step = "issue" /\ bridge'.after = "select"
        /\ bridge'.ran = 0
        /\ bridge'.named = bridge.named /\ bridge'.picked = bridge.picked
    BY <1>1, <1>3, <1>7 DEF Refresh, BridgeFields, BridgeSteps
  <2> QED
    BY <1>1, <1>2, <2>1
       DEF BInv, BridgeTypeOK, BridgeFields, FlightInv, RanInv, NamedInv, Operates, Waits
<1> QED
  BY <1>4, <1>5, <1>6, <1>7 DEF Reply

(* Steps that do not touch the bridge's connections.                       *)
LEMMA Apart ==
    ASSUME BInv, UNCHANGED bridge,
           \A c \in Bridged : at'[c] = at[c] /\ session'[c] = session[c] /\ answer'[c] = answer[c]
    PROVE  BInv'
<1>1. BridgeTypeOK' /\ FlightInv'
  BY DEF BInv, BridgeTypeOK, FlightInv
<1>2. RanInv' /\ NamedInv'
  BY DEF BInv, FlightInv, RanInv, NamedInv, Operates, Waits
<1> QED
  BY <1>1, <1>2 DEF BInv

(* The service dies: nothing is served any more, everything else stays.    *)
LEMMA BridgedRestartStep == ASSUME ThreadsOK, BInv, Restart, UNCHANGED bridge PROVE BInv'
<1>1. /\ UNCHANGED <<answer, session>>
      /\ \A c \in Bridged : /\ at'[c] \in Resting
                            /\ at[c] # "idle" => at'[c] \in {"answered", "lost"}
  BY BridgeAssumption DEF Restart, Resting, ThreadsOK
<1>2. BridgeTypeOK' /\ FlightInv'
  BY <1>1 DEF BInv, BridgeTypeOK, FlightInv, Resting
<1>3. RanInv'
  BY <1>1 DEF BInv, RanInv, FlightInv, Waits, Leaving
<1>4. NamedInv'
  BY <1>1 DEF BInv, NamedInv, FlightInv, Waits, Operates
<1> QED
  BY <1>2, <1>3, <1>4 DEF BInv

LEMMA BridgeStep ==
    ASSUME ThreadsOK, GrantsOK, BInv, [BridgedNext]_<<vars, bridge>> PROVE BInv'
<1>1. CASE BridgeMoves
  BY <1>1, CallStep, IssueStep, SendStep, ReplyStep DEF BridgeMoves
<1>2. CASE Restart /\ UNCHANGED bridge
  BY <1>2, BridgedRestartStep
<1>3. ASSUME NEW c \in Conns \ Bridged, Arrive(c), UNCHANGED bridge PROVE BInv'
  <2>1. \A d \in Bridged : /\ at'[d] = at[d] /\ session'[d] = session[d]
                           /\ answer'[d] = answer[d]
    BY <1>3, BridgeAssumption DEF Arrive, Say, Go, ThreadsOK
  <2> QED
    BY <1>3, <2>1, Apart
<1>4. ASSUME NEW g \in Grants, IssueGrant(g) \/ Lapse(g), UNCHANGED bridge PROVE BInv'
  BY <1>4, Apart DEF IssueGrant, Lapse, Expire, RevokeGrant, threads
<1>5. CASE UNCHANGED <<vars, bridge>>
  BY <1>5, Apart DEF vars, threads
<1> QED
  BY <1>1, <1>2, <1>3, <1>4, <1>5, ThreadStep DEF BridgedNext

(* A call is executed at most once, in the session that it named: for      *)
(* every number of connections, grants and sessions, whatever the other    *)
(* clients of the endpoint do and whenever the service restarts.           *)
THEOREM ThmCallIsExact == BridgedSpec => []CallIsExact
<1>1. BridgedSpec => Spec
  BY BridgedStep, PTL DEF BridgedSpec, Spec
<1>2. BridgeInit /\ Init => BInv
  <2> SUFFICES ASSUME BridgeInit, Init PROVE BInv
    OBVIOUS
  <2>1. \A c \in Bridged : at[c] \in Resting
    BY BridgeAssumption DEF Init, Resting
  <2>2. BridgeTypeOK
    BY DEF BridgeInit, NoContext, BridgeTypeOK, BridgeSteps
  <2> QED
    BY <2>1, <2>2 DEF BridgeInit, NoContext, BInv, FlightInv, RanInv, NamedInv, Waits
<1>3. IInv /\ BInv /\ [BridgedNext]_<<vars, bridge>> => BInv'
  BY BridgeStep DEF IInv, Typed
<1>4. BInv => CallIsExact
  <2> SUFFICES ASSUME BInv PROVE CallIsExact
    OBVIOUS
  <2>1. bridge.ran <= 1
    BY DEF BInv, RanInv
  <2>2. ASSUME NEW c \in Bridged, at[c] = "running", Operation(c), bridge.named # None
        PROVE  session[c] = bridge.named
    <3>1. c = bridge.conn /\ bridge.step = "operating" /\ at[c] \notin Resting
      BY <2>2 DEF BInv, FlightInv, Resting
    <3> QED
      BY <2>2, <3>1 DEF BInv, NamedInv, Operates
  <2> QED
    BY <2>1, <2>2 DEF BInv, CallIsExact
<1> QED
  BY <1>1, <1>2, <1>3, <1>4, Invariance, PTL DEF BridgedSpec

-----------------------------------------------------------------------------
(* The host.  Those above a process grow fewer while it lives, and what    *)
(* is above a client, or the root of its request, belongs to its           *)
(* execution.                                                              *)
Roles == {"plain", "shell", "agent", "wrapper", "bridge", "server"}
Line(c, p) == \A q \in H!Upward(host, p) : H!Kindred(c, host[q])

HostTyped ==
    /\ host \in [Pids -> H!Process \cup {H!Absent}] /\ starts \in [Pids -> 0..MaxStarts]
    /\ \A p \in Pids : host[p].start <= starts[p]

FamiliesOK ==
    \A p \in Pids : host[p].parent # H!Nowhere =>
        /\ H!Alive(host[p].parent)
        /\ host[host[p].parent].member \subseteq host[p].member

ClientOK(c) ==
    Client[c] # H!Nowhere /\ H!Alive(Client[c]) =>
        c \in host[Client[c]].member /\ Line(c, Client[c])

HostInv == HostTyped /\ FamiliesOK

LEMMA Processes ==
    ASSUME NEW h \in H!Process \cup {H!Absent}
    PROVE  /\ h.start \in 0..MaxStarts /\ h.parent \in Pids \cup {H!Nowhere}
           /\ h.member \subseteq Conns /\ h.launched \subseteq Conns
           /\ h.start = 0 => h = H!Absent
  BY HostAssumption DEF H!Process, H!Absent

LEMMA Orphaned ==
    ASSUME NEW h \in H!Process \cup {H!Absent}
    PROVE  LET o == [h EXCEPT !.parent = H!Nowhere]
           IN /\ o \in H!Process \cup {H!Absent} /\ o.parent = H!Nowhere
              /\ o.start = h.start /\ o.role = h.role /\ o.shows = h.shows
              /\ o.hides = h.hides /\ o.member = h.member /\ o.launched = h.launched
<1>1. CASE h \in H!Process
  <2>1. h.parent \in Pids \cup {H!Nowhere}
    BY <1>1 DEF H!Process
  <2>2. [h EXCEPT !.parent = H!Nowhere] \in H!Process
    BY <1>1 DEF H!Process
  <2> QED
    BY <1>1, <2>2 DEF H!Process
<1>2. CASE h = H!Absent
  <2>1. h.parent = H!Nowhere /\ [h EXCEPT !.parent = h.parent] = h
    BY <1>2 DEF H!Absent
  <2>2. [h EXCEPT !.parent = H!Nowhere] = H!Absent
    BY <1>2, <2>1
  <2> QED
    BY <1>2, <2>1, <2>2 DEF H!Absent
<1> QED
  BY <1>1, <1>2

LEMMA Lines ==
    ASSUME NEW h, NEW p \in Pids
    PROVE  /\ p \in H!Upward(h, p)
           /\ h[p].parent \in Pids => h[p].parent \in H!Upward(h, p)
           /\ \A q \in H!Upward(h, p) : H!Upward(h, q) \subseteq H!Upward(h, p)
  BY HostAssumption DEF H!Upward, H!Nowhere

LEMMA Nearests ==
    ASSUME HostTyped, NEW p \in Pids, NEW role \in Roles
    PROVE  LET q == H!Nearest(p, role)
           IN q = H!Nowhere \/ (q \in Pids /\ q \in H!Upward(host, p) /\ host[q].role = role)
<1> DEFINE found == {q \in H!Above(p) : host[q].role = role}
           first == {q \in found : found \subseteq H!Upward(host, q)}
<1>1. H!Above(p) \subseteq Pids /\ H!Above(p) \subseteq H!Upward(host, p)
  <2>1. host[p].parent \in Pids \cup {H!Nowhere}
    BY Processes DEF HostTyped
  <2>2. CASE host[p].parent = H!Nowhere
    BY <2>2 DEF H!Above
  <2>3. CASE host[p].parent \in Pids
    BY <2>3, Lines, HostAssumption DEF H!Above, H!Upward
  <2> QED
    BY <2>1, <2>2, <2>3
<1>2. H!Nearest(p, role) = IF first = {} THEN H!Nowhere ELSE CHOOSE q \in first : TRUE
  BY DEF H!Nearest
<1>3. first \subseteq found /\ \A q \in found : q \in H!Above(p) /\ host[q].role = role
  OBVIOUS
<1> HIDE DEF found, first
<1> QED
  BY <1>1, <1>2, <1>3

(* What lasts of a process as the host moves.                              *)
Kept(p) == /\ host'[p].start = host[p].start /\ host'[p].role = host[p].role
           /\ host'[p].shows = host[p].shows /\ host'[p].hides = host[p].hides
           /\ host'[p].member = host[p].member /\ host'[p].launched = host[p].launched

LEMMA Dying ==
    ASSUME HostInv, NEW x \in Pids, H!Die(x)
    PROVE  /\ HostTyped' /\ FamiliesOK' /\ UNCHANGED <<starts, scan>>
           /\ host'[x] = H!Absent
           /\ \A p \in Pids \ {x} : /\ Kept(p)
                                    /\ host'[p].parent \in {host[p].parent, H!Nowhere} \ {x}
                                    /\ host[p].parent # x => host'[p].parent = host[p].parent
           /\ \A p \in Pids : H!Upward(host', p) \subseteq H!Upward(host, p)
<1> USE DEF HostInv, HostTyped
<1>1. /\ UNCHANGED <<starts, scan>> /\ x # H!Nowhere
      /\ host' = [q \in Pids |-> IF q = x THEN H!Absent
                                 ELSE IF host[q].parent = x
                                 THEN [host[q] EXCEPT !.parent = H!Nowhere] ELSE host[q]]
  BY HostAssumption DEF H!Die
<1>2. host'[x] = H!Absent
  BY <1>1
<1>3. ASSUME NEW p \in Pids \ {x}
      PROVE  /\ Kept(p) /\ host'[p].parent \in {host[p].parent, H!Nowhere} \ {x}
             /\ host[p].parent # x => host'[p].parent = host[p].parent
             /\ host'[p] \in H!Process \cup {H!Absent}
  <2>1. CASE host[p].parent = x
    <3>1. host'[p] = [host[p] EXCEPT !.parent = H!Nowhere]
      BY <1>1, <2>1
    <3> QED
      BY <1>1, <2>1, <3>1, Orphaned DEF Kept
  <2>2. CASE host[p].parent # x
    BY <1>1, <2>2 DEF Kept
  <2> QED
    BY <2>1, <2>2
<1>4. HostTyped'
  <2>1. host' \in [Pids -> H!Process \cup {H!Absent}]
    <3>1. \A p \in Pids : host'[p] \in H!Process \cup {H!Absent}
      BY <1>2, <1>3
    <3> QED
      BY <1>1, <3>1
  <2>2. \A p \in Pids : host'[p].start <= starts[p]
    BY <1>2, <1>3 DEF Kept, H!Absent
  <2> QED
    BY <1>1, <2>1, <2>2
<1>5. FamiliesOK'
  <2> SUFFICES ASSUME NEW p \in Pids, host'[p].parent # H!Nowhere
               PROVE  /\ host'[host'[p].parent].start > 0
                      /\ host'[host'[p].parent].member \subseteq host'[p].member
    BY DEF FamiliesOK, H!Alive
  <2>1. p # x
    BY <1>2 DEF H!Absent
  <2>2. host'[p].parent = host[p].parent /\ host[p].parent # x /\ Kept(p)
    BY <1>3, <2>1
  <2>3. host[p].parent \in Pids
    BY <2>2, Processes
  <2>4. Kept(host[p].parent)
    BY <1>3, <2>2, <2>3
  <2> QED
    BY <2>2, <2>4 DEF FamiliesOK, H!Alive, Kept
<1>6. ASSUME NEW p \in Pids PROVE H!Upward(host', p) \subseteq H!Upward(host, p)
  <2> SUFFICES ASSUME NEW q \in H!Upward(host', p), NEW S \in SUBSET Pids, p \in S,
                      \A r \in S : host[r].parent \in S \cup {H!Nowhere}
               PROVE  q \in S
    BY DEF H!Upward
  <2>1. \A r \in S : host'[r].parent \in S \cup {H!Nowhere}
    BY <1>2, <1>3 DEF H!Absent
  <2> QED
    BY <2>1 DEF H!Upward
<1> QED
  BY <1>1, <1>2, <1>3, <1>4, <1>5, <1>6

LEMMA Spawning ==
    ASSUME HostInv, NEW birth \in Births, H!Spawn(birth)
    PROVE  /\ HostTyped' /\ FamiliesOK' /\ UNCHANGED scan
           /\ birth.pid \in Pids /\ ~H!Alive(birth.pid) /\ ~H!Listed(birth.pid)
           /\ starts'[birth.pid] = starts[birth.pid] + 1
           /\ host'[birth.pid].start = starts[birth.pid] + 1
           /\ \A p \in Pids \ {birth.pid} :
                 /\ host'[p] = host[p] /\ starts'[p] = starts[p]
                 /\ H!Upward(host', p) \subseteq H!Upward(host, p) \ {birth.pid}
<1> DEFINE x == birth.pid
           parent == birth.parent
           new == [start |-> starts[x] + 1, parent |-> parent, role |-> birth.role,
                   shows |-> birth.shows, hides |-> birth.hides,
                   member |-> IF parent = H!Nowhere THEN {} ELSE host[parent].member,
                   launched |-> {}]
<1> USE DEF HostInv, HostTyped
<1>1. /\ x \in Pids /\ ~H!Alive(x) /\ ~H!Listed(x) /\ starts[x] < MaxStarts
      /\ parent # H!Nowhere => H!Alive(parent)
      /\ starts' = [starts EXCEPT ![x] = @ + 1] /\ host' = [host EXCEPT ![x] = new]
      /\ UNCHANGED scan
  BY BirthsAssumption DEF H!Spawn
<1>2. parent \in Pids \cup {H!Nowhere} /\ parent # x /\ x # H!Nowhere
  BY <1>1, BirthsAssumption, HostAssumption
<1>3. new \in H!Process /\ new.start = starts[x] + 1 /\ new.parent = parent
      /\ new.member = (IF parent = H!Nowhere THEN {} ELSE host[parent].member)
  <2>1. starts[x] + 1 \in 1..MaxStarts
    BY <1>1, HostAssumption
  <2>2. (IF parent = H!Nowhere THEN {} ELSE host[parent].member) \in SUBSET Conns
    BY <1>2, Processes
  <2> QED
    BY <1>2, <2>1, <2>2, BirthsAssumption DEF H!Process
<1> HIDE DEF new
<1>4. /\ host'[x] = new /\ starts'[x] = starts[x] + 1
      /\ \A p \in Pids \ {x} : host'[p] = host[p] /\ starts'[p] = starts[p]
  BY <1>1
<1>5. HostTyped'
  <2>1. host' \in [Pids -> H!Process \cup {H!Absent}]
    BY <1>1, <1>3
  <2>2. starts' \in [Pids -> 0..MaxStarts]
    BY <1>1, HostAssumption
  <2>3. \A p \in Pids : host'[p].start <= starts'[p]
    BY <1>1, <1>3, <1>4, HostAssumption
  <2> QED
    BY <2>1, <2>2, <2>3
<1>6. FamiliesOK'
  <2> SUFFICES ASSUME NEW p \in Pids, host'[p].parent # H!Nowhere
               PROVE  /\ host'[host'[p].parent].start > 0
                      /\ host'[host'[p].parent].member \subseteq host'[p].member
    BY DEF FamiliesOK, H!Alive
  <2>1. CASE p = x
    <3>1. host'[p].parent = parent /\ parent \in Pids /\ host'[parent] = host[parent]
      BY <1>2, <1>3, <1>4, <2>1
    <3>2. host'[p].member = host[parent].member
      BY <1>3, <1>4, <2>1, <3>1, HostAssumption
    <3> QED
      BY <1>1, <3>1, <3>2, HostAssumption DEF H!Alive
  <2>2. CASE p # x
    <3>1. host'[p] = host[p] /\ host[p].parent # H!Nowhere
      BY <1>4, <2>2
    <3>2. host[p].parent \in Pids /\ H!Alive(host[p].parent)
      BY <3>1, Processes DEF FamiliesOK
    <3>3. host'[host[p].parent] = host[host[p].parent]
      BY <1>1, <1>4, <3>2
    <3> QED
      BY <3>1, <3>2, <3>3 DEF FamiliesOK, H!Alive
  <2> QED
    BY <2>1, <2>2
<1>7. ASSUME NEW p \in Pids \ {x}
      PROVE  H!Upward(host', p) \subseteq H!Upward(host, p) \ {x}
  <2> SUFFICES ASSUME NEW q \in H!Upward(host', p), NEW S \in SUBSET Pids, p \in S,
                      \A r \in S : host[r].parent \in S \cup {H!Nowhere}
               PROVE  q \in S \ {x}
    <3>1. p \in Pids /\ Pids \in SUBSET Pids
      OBVIOUS
    <3>2. \A r \in Pids : host[r].parent \in Pids \cup {H!Nowhere}
      BY Processes
    <3> QED
      BY <3>1, <3>2 DEF H!Upward
  <2> DEFINE R == S \ {x}
  <2>1. ASSUME NEW r \in R PROVE host'[r].parent \in R \cup {H!Nowhere}
    <3>1. host'[r] = host[r] /\ host[r].parent \in S \cup {H!Nowhere}
      BY <1>4
    <3>2. host[r].parent # x
      BY <1>1, <1>2 DEF FamiliesOK
    <3> QED
      BY <3>1, <3>2
  <2>2. R \in SUBSET Pids /\ p \in R
    OBVIOUS
  <2>3. q \in R
    <3> HIDE DEF R
    <3> QED
      BY <2>1, <2>2 DEF H!Upward
  <2> QED
    BY <2>3
<1>8. /\ x \in Pids /\ ~H!Alive(x) /\ ~H!Listed(x) /\ UNCHANGED scan
      /\ starts'[x] = starts[x] + 1 /\ host'[x].start = starts[x] + 1
  BY <1>1, <1>3, <1>4
<1> HIDE DEF HostInv, HostTyped
<1> QED
  BY <1>4, <1>5, <1>6, <1>7, <1>8
(* One process, x, comes or goes; what matters of the others lasts.        *)
Moves(x) ==
    /\ x \in Pids /\ HostTyped' /\ FamiliesOK' /\ UNCHANGED scan
    /\ \/ ~H!Alive(x)' /\ starts'[x] = starts[x]
       \/ /\ host'[x].start = starts[x] + 1 /\ starts'[x] = starts[x] + 1
          /\ ~H!Listed(x)
    /\ \A p \in Pids \ {x} :
          /\ Kept(p) /\ starts'[p] = starts[p]
          /\ host[p].parent # x => host'[p].parent = host[p].parent
          /\ \A c \in Conns : Line(c, p) => Line(c, p)'

LEMMA Lined ==
    ASSUME NEW c \in Conns, NEW p \in Pids, Line(c, p),
           H!Upward(host', p) \subseteq H!Upward(host, p),
           \A q \in H!Upward(host', p) : host'[q] = H!Absent \/ Kept(q)
    PROVE  Line(c, p)'
<1> SUFFICES ASSUME NEW q \in H!Upward(host', p) PROVE H!Kindred(c, host'[q])
  BY DEF Line
<1>1. H!Kindred(c, host[q])
  BY DEF Line
<1>2. CASE host'[q] = H!Absent
  BY <1>2 DEF H!Kindred, H!Absent
<1>3. CASE Kept(q)
  BY <1>1, <1>3 DEF H!Kindred, H!Stranger, Kept
<1> QED
  BY <1>2, <1>3

LEMMA Moving == ASSUME HostInv, H!HostMoves PROVE \E x \in Pids : Moves(x)
<1>1. ASSUME NEW x \in Pids, H!Die(x) PROVE Moves(x)
  <2>1. ~H!Alive(x)' /\ starts'[x] = starts[x]
    BY <1>1, Dying DEF H!Alive, H!Absent
  <2>2. ASSUME NEW p \in Pids \ {x}, NEW c \in Conns, Line(c, p) PROVE Line(c, p)'
    <3>1. H!Upward(host', p) \subseteq Pids
      BY DEF H!Upward
    <3>2. \A q \in H!Upward(host', p) : host'[q] = H!Absent \/ Kept(q)
      BY <1>1, <3>1, Dying
    <3> QED
      BY <1>1, <2>2, <3>2, Dying, Lined
  <2> QED
    BY <1>1, <2>1, <2>2, Dying DEF Moves
<1>2. ASSUME NEW birth \in Births, H!Spawn(birth) PROVE Moves(birth.pid)
  <2> DEFINE x == birth.pid
  <2>1. \A p \in Pids \ {x} : Kept(p) /\ host'[p].parent = host[p].parent
    BY <1>2, Spawning DEF Kept
  <2>2. ASSUME NEW p \in Pids \ {x}, NEW c \in Conns, Line(c, p) PROVE Line(c, p)'
    <3>1. H!Upward(host', p) \subseteq Pids \ {x}
      <4>1. H!Upward(host, p) \subseteq Pids
        BY DEF H!Upward
      <4> QED
        BY <1>2, <4>1, Spawning
    <3>2. \A q \in H!Upward(host', p) : Kept(q)
      BY <2>1, <3>1
    <3> QED
      BY <1>2, <2>2, <3>2, Spawning, Lined
  <2> QED
    BY <1>2, <2>1, <2>2, Spawning DEF Moves
<1> QED
  BY <1>1, <1>2, BirthsAssumption DEF H!HostMoves

LEMMA ClientStep ==
    ASSUME HostTyped, NEW x \in Pids, Moves(x), NEW c \in Conns, ClientOK(c),
           Client[c] \in Pids => starts'[Client[c]] = starts[Client[c]]
    PROVE  ClientOK(c)'
<1> SUFFICES ASSUME Client[c] # H!Nowhere, H!Alive(Client[c])'
             PROVE  c \in host'[Client[c]].member /\ Line(c, Client[c])'
  BY DEF ClientOK
<1>1. Client[c] \in Pids
  BY HostAssumption
<1>2. Client[c] # x
  BY <1>1, HostAssumption DEF Moves, HostTyped
<1>3. Kept(Client[c])
  BY <1>1, <1>2 DEF Moves
<1>4. c \in host[Client[c]].member /\ Line(c, Client[c])
  BY <1>3 DEF ClientOK, H!Alive, Kept
<1> QED
  BY <1>1, <1>2, <1>3, <1>4 DEF Moves, Kept

LEMMA HostInitially == H!HostInit => HostInv /\ \A c \in Conns : ClientOK(c)
<1> SUFFICES ASSUME H!HostInit PROVE HostInv /\ \A c \in Conns : ClientOK(c)
  OBVIOUS
<1>1. H!Wellformed(host) /\ starts = [p \in Pids |-> host[p].start]
  BY HostAssumption DEF H!HostInit
<1>2. host \in [Pids -> H!Process \cup {H!Absent}]
  BY <1>1 DEF H!Wellformed
<1>3. \A p \in Pids : host[p].start \in 0..MaxStarts
  BY <1>2, Processes
<1>4. HostTyped
  BY <1>1, <1>2, <1>3, HostAssumption DEF HostTyped
<1>5. FamiliesOK
  BY <1>1 DEF H!Wellformed, FamiliesOK, H!Alive
<1>6. \A c \in Conns : ClientOK(c)
  BY <1>1 DEF H!Wellformed, ClientOK, H!Alive, Line
<1> QED
  BY <1>4, <1>5, <1>6 DEF HostInv

(* The agent or the wrapper above a process of a request's own line.       *)
LEMMA Kin ==
    ASSUME HostTyped, NEW c \in Conns, NEW p \in Pids, Line(c, p),
           NEW role \in {"agent", "wrapper"}, H!Nearest(p, role) # H!Nowhere
    PROVE  LET q == H!Nearest(p, role)
           IN q \in Pids /\ c \in host[q].member /\ Line(c, q)
<1> DEFINE q == H!Nearest(p, role)
<1>1. q \in Pids /\ q \in H!Upward(host, p) /\ host[q].role = role
  BY Nearests DEF Roles
<1>2. c \in host[q].member
  BY <1>1 DEF Line, H!Kindred
<1>3. Line(c, q)
  BY <1>1, Lines DEF Line
<1> QED
  BY <1>1, <1>2, <1>3

LEMMA Rooted ==
    ASSUME HostTyped, NEW c \in Conns, ClientOK(c), Client[c] # H!Nowhere, H!Alive(Client[c])
    PROVE  LET r == H!Root(Client[c])
           IN r \in Pids /\ c \in host[r].member /\ Line(c, r)
<1> DEFINE p == Client[c]
           agent == H!Nearest(p, "agent")
           wrapper == IF agent = H!Nowhere THEN H!Nowhere ELSE H!Nearest(agent, "wrapper")
<1>1. p \in Pids /\ c \in host[p].member /\ Line(c, p)
  BY HostAssumption DEF ClientOK
<1>2. agent # H!Nowhere => agent \in Pids /\ c \in host[agent].member /\ Line(c, agent)
  BY <1>1, Kin
<1>3. wrapper # H!Nowhere =>
         wrapper \in Pids /\ c \in host[wrapper].member /\ Line(c, wrapper)
  BY <1>2, Kin
<1>4. H!Root(p) = IF agent = H!Nowhere THEN p
                  ELSE IF wrapper = H!Nowhere THEN agent ELSE wrapper
  BY DEF H!Root
<1> HIDE DEF p, agent, wrapper
<1> QED
  BY <1>1, <1>2, <1>3, <1>4 DEF p

-----------------------------------------------------------------------------
(* A scan.  Of a process that was listed and still is the one it was, what *)
(* was read is true: that it is its parent's child, that it is the         *)
(* requester's, that nothing of it counts.                                 *)
Stages == {"rest", "parents", "audit", "look", "done"}
Knowledge == [stage : Stages, root : [pid : Pids \cup {H!Nowhere}, start : Nat],
              listed : [Pids -> Nat], parents : [Pids -> Pids \cup {H!Nowhere}],
              left : SUBSET Pids, excluded : SUBSET Pids, quiet : BOOLEAN]

Lasting(k, p) == k.listed[p] > 0 /\ k.listed[p] = host[p].start
Calm(k) == k.stage = "done" /\ k.quiet
On(p) == [pid |-> p, start |-> host[p].start] \in Rows /\ host[p].role # "bridge"

RootOK(c, root) ==
    root.pid # H!Nowhere =>
        /\ root.start <= starts[root.pid]
        /\ H!Is(root.pid, root.start) =>
               c \in host[root.pid].member /\ Line(c, root.pid)

ListedOK(k) ==
    \A p \in Pids :
        /\ k.listed[p] <= starts[p]
        /\ k.stage = "parents" /\ k.listed[p] > 0 /\ H!Alive(p) => host[p].start = k.listed[p]

ParentsOK(k) ==
    k.stage = "parents" =>
        \A p \in Pids \ k.left :
            /\ Lasting(k, p) /\ k.parents[p] \in Pids \ {p} /\ Lasting(k, k.parents[p])
                   => host[p].parent = k.parents[p]

ExcludedOK(c, k) ==
    k.stage \in {"audit", "look"} \/ Calm(k) =>
        \A p \in k.excluded : Lasting(k, p) => ~H!Stranger(c, host[p])

AuditedOK(c, k) ==
    k.stage = "look" \/ Calm(k) =>
        \A p \in Pids : Lasting(k, p) /\ On(p) => ~H!Stranger(c, host[p])

SeenOK(k) ==
    k.stage = "look" \/ Calm(k) =>
        \A p \in Pids \ (k.left \cup k.excluded) :
            Lasting(k, p) => H!Reason(p) = "nothing" \/ H!Resident(p)

UnitsOK(k) ==
    Calm(k) => k.left = {} /\ \A p \in Pids : Lasting(k, p) => host[p].shows # "unit"

Knows(c, k) == /\ RootOK(c, k.root) /\ ListedOK(k) /\ ParentsOK(k)
               /\ ExcludedOK(c, k) /\ AuditedOK(c, k) /\ SeenOK(k) /\ UnitsOK(k)

ScanInv == scan \in [Conns -> Knowledge] /\ \A c \in Conns : Knows(c, scan[c])

(* A quiet scan passed nothing over.                                       *)
LEMMA NothingOverlooked ==
    ASSUME HostTyped, ScanInv, NEW c \in Conns, H!Quiet(c) PROVE H!Overlooked(c) = {}
<1> DEFINE k == scan[c]
<1>1. k \in Knowledge /\ Calm(k) /\ ExcludedOK(c, k) /\ AuditedOK(c, k) /\ SeenOK(k) /\ UnitsOK(k)
  BY DEF ScanInv, Knows, H!Quiet, Calm
<1> SUFFICES ASSUME NEW p \in Pids, H!Works(c, p), k.listed[p] = host[p].start PROVE FALSE
  BY DEF H!Overlooked
<1>2. Lasting(k, p) /\ H!Stranger(c, host[p])
  BY Processes DEF H!Works, H!Alive, Lasting
<1> HIDE DEF k
<1>3. k.left = {} /\ p \notin k.excluded /\ host[p].shows # "unit" /\ ~On(p)
  BY <1>1, <1>2 DEF ExcludedOK, AuditedOK, UnitsOK
<1>4. H!Reason(p) = "nothing" \/ H!Resident(p)
  BY <1>1, <1>2, <1>3 DEF SeenOK
<1>5. H!Reason(p) # "session" /\ ~(host[p].shows = "scope" /\ host[p].role # "server")
  BY <1>4 DEF H!Reason, H!Resident
<1> QED
  BY <1>3, <1>5 DEF H!Works, On

(* The host moves under a scan.                                            *)
LEMMA Lasts ==
    ASSUME HostTyped, ScanInv, NEW x \in Pids, Moves(x), NEW c \in Conns
    PROVE  /\ scan'[c] = scan[c]
           /\ \A p \in Pids : Lasting(scan[c], p)' =>
                 p # x /\ Lasting(scan[c], p) /\ Kept(p)
<1>1. scan'[c] = scan[c]
  BY DEF Moves
<1>2. ASSUME NEW p \in Pids, Lasting(scan[c], p)' PROVE p # x /\ Lasting(scan[c], p) /\ Kept(p)
  <2>1. scan[c].listed[p] > 0 /\ scan[c].listed[p] = host'[p].start
    BY <1>1, <1>2 DEF Lasting
  <2>2. scan[c].listed[p] <= starts[p] /\ scan[c].listed[p] \in Nat /\ starts[p] \in Nat
    BY HostAssumption DEF ScanInv, Knows, ListedOK, Knowledge, HostTyped
  <2>3. p # x
    BY <2>1, <2>2 DEF Moves, H!Alive
  <2>4. Kept(p)
    BY <2>3 DEF Moves
  <2> QED
    BY <2>1, <2>3, <2>4 DEF Lasting, Kept
<1> QED
  BY <1>1, <1>2

LEMMA ScanHostStep ==
    ASSUME HostInv, ScanInv, NEW x \in Pids, Moves(x) PROVE ScanInv'
<1>1. scan' = scan /\ scan' \in [Conns -> Knowledge]
  BY DEF Moves, ScanInv
<1> SUFFICES ASSUME NEW c \in Conns PROVE Knows(c, scan[c])'
  BY <1>1 DEF ScanInv
<1> DEFINE k == scan[c]
<1>2. k \in Knowledge /\ Knows(c, k) /\ scan'[c] = k
  BY <1>1 DEF ScanInv
<1>3. \A p \in Pids : Lasting(k, p)' => p # x /\ Lasting(k, p) /\ Kept(p)
  BY Lasts DEF HostInv
<1>4. starts \in [Pids -> Nat] /\ \A p \in Pids : starts'[p] \in Nat /\ starts[p] <= starts'[p]
  <2>1. starts \in [Pids -> Nat]
    BY HostAssumption DEF HostInv, HostTyped
  <2> QED
    BY <2>1 DEF Moves
<1>5. RootOK(c, k.root)'
  <2> SUFFICES ASSUME k.root.pid # H!Nowhere
               PROVE  /\ k.root.start <= starts'[k.root.pid]
                      /\ H!Is(k.root.pid, k.root.start)' =>
                            c \in host'[k.root.pid].member /\ Line(c, k.root.pid)'
    BY <1>2 DEF RootOK
  <2>1. /\ k.root.pid \in Pids /\ k.root.start \in Nat
        /\ k.root.start <= starts[k.root.pid]
        /\ H!Is(k.root.pid, k.root.start) =>
              c \in host[k.root.pid].member /\ Line(c, k.root.pid)
    BY <1>2 DEF Knows, RootOK, Knowledge
  <2>2. k.root.start <= starts'[k.root.pid]
    BY <1>4, <2>1
  <2>3. ASSUME H!Is(k.root.pid, k.root.start)'
        PROVE  c \in host'[k.root.pid].member /\ Line(c, k.root.pid)'
    <3>1. host'[k.root.pid].start > 0 /\ host'[k.root.pid].start = k.root.start
      BY <1>2, <2>3 DEF H!Is, H!Alive
    <3>2. k.root.pid # x
      BY <1>4, <2>1, <3>1 DEF Moves, H!Alive
    <3>3. Kept(k.root.pid) /\ (Line(c, k.root.pid) => Line(c, k.root.pid)')
      BY <1>2, <2>1, <3>2 DEF Moves
    <3> QED
      BY <1>2, <2>1, <3>1, <3>3 DEF Kept, H!Is, H!Alive
  <2> QED
    BY <2>2, <2>3
<1>6. ListedOK(k)'
  <2> SUFFICES ASSUME NEW p \in Pids
               PROVE  /\ k.listed[p] <= starts'[p]
                      /\ k.stage = "parents" /\ k.listed[p] > 0 /\ host'[p].start > 0 =>
                            host'[p].start = k.listed[p]
    BY <1>2 DEF ListedOK, H!Alive
  <2>1. /\ k.listed[p] \in Nat /\ k.listed[p] <= starts[p]
        /\ k.stage = "parents" /\ k.listed[p] > 0 /\ host[p].start > 0 =>
              host[p].start = k.listed[p]
    BY <1>2 DEF Knows, ListedOK, Knowledge, H!Alive
  <2>2. k.listed[p] <= starts'[p]
    BY <1>4, <2>1
  <2>3. CASE p = x
    BY <1>2, <2>1, <2>2, <2>3 DEF Moves, H!Alive, H!Listed
  <2>4. CASE p # x
    BY <2>1, <2>2, <2>4 DEF Moves, Kept
  <2> QED
    BY <2>3, <2>4
<1>7. ParentsOK(k)'
  <2> SUFFICES ASSUME k.stage = "parents", NEW p \in Pids \ k.left, Lasting(k, p)',
                      k.parents[p] \in Pids \ {p}, Lasting(k, k.parents[p])'
               PROVE  host'[p].parent = k.parents[p]
    BY <1>2 DEF ParentsOK
  <2>1. p # x /\ Lasting(k, p) /\ k.parents[p] # x /\ Lasting(k, k.parents[p])
    BY <1>2, <1>3
  <2>2. host[p].parent = k.parents[p]
    BY <1>2, <2>1 DEF Knows, ParentsOK
  <2> QED
    BY <2>1, <2>2 DEF Moves
<1>8. ExcludedOK(c, k)'
  <2> SUFFICES ASSUME k.stage \in {"audit", "look"} \/ Calm(k),
                      NEW p \in k.excluded, Lasting(k, p)'
               PROVE  ~H!Stranger(c, host'[p])
    BY <1>2 DEF ExcludedOK, Calm
  <2>1. p \in Pids
    BY <1>2 DEF Knowledge
  <2> QED
    BY <1>2, <1>3, <2>1 DEF Knows, ExcludedOK, H!Stranger, Kept
<1>9. AuditedOK(c, k)'
  <2> SUFFICES ASSUME k.stage = "look" \/ Calm(k), NEW p \in Pids, Lasting(k, p)', On(p)'
               PROVE  ~H!Stranger(c, host'[p])
    BY <1>2 DEF AuditedOK, Calm
  <2>1. Lasting(k, p) /\ Kept(p)
    BY <1>2, <1>3
  <2>2. On(p)
    BY <2>1 DEF On, Kept
  <2> QED
    BY <1>2, <2>1, <2>2 DEF Knows, AuditedOK, H!Stranger, Kept
<1>10. SeenOK(k)'
  <2> SUFFICES ASSUME k.stage = "look" \/ Calm(k), NEW p \in Pids \ (k.left \cup k.excluded),
                      Lasting(k, p)'
               PROVE  H!Reason(p)' = "nothing" \/ H!Resident(p)'
    BY <1>2 DEF SeenOK, Calm
  <2>1. Lasting(k, p) /\ Kept(p)
    BY <1>2, <1>3
  <2>2. H!Reason(p) = "nothing" \/ H!Resident(p)
    BY <1>2, <2>1 DEF Knows, SeenOK
  <2> QED
    BY <2>1, <2>2 DEF H!Reason, H!Resident, Kept
<1>11. UnitsOK(k)'
  <2> SUFFICES ASSUME Calm(k)
               PROVE  k.left = {} /\ \A p \in Pids : Lasting(k, p)' => host'[p].shows # "unit"
    BY <1>2 DEF UnitsOK, Calm
  <2> QED
    BY <1>2, <1>3 DEF Knows, UnitsOK, Kept
<1> QED
  BY <1>2, <1>5, <1>6, <1>7, <1>8, <1>9, <1>10, <1>11 DEF Knows

(* While the host stays, an inspector knows what it just learnt.           *)
LEMMA Unmoved ==
    ASSUME UNCHANGED <<host, starts>>, NEW d \in Conns, Knows(d, scan'[d])
    PROVE  Knows(d, scan[d])'
<1> DEFINE k == scan[d]
           n == scan'[d]
<1>1. \A p : /\ Lasting(k, p)' <=> Lasting(n, p)
             /\ H!Reason(p)' = H!Reason(p) /\ (H!Resident(p)' <=> H!Resident(p))
             /\ On(p)' <=> On(p)
             /\ Line(d, p)' <=> Line(d, p)
  BY DEF Lasting, H!Reason, H!Resident, On, Line
<1>2. Calm(k)' <=> Calm(n)
  BY DEF Calm
<1>3. RootOK(d, k.root)'
  BY <1>1 DEF Knows, RootOK, H!Is, H!Alive
<1>4. ListedOK(k)'
  BY <1>1 DEF Knows, ListedOK, H!Alive
<1>5. ParentsOK(k)'
  BY <1>1 DEF Knows, ParentsOK
<1>6. ExcludedOK(d, k)'
  BY <1>1, <1>2 DEF Knows, ExcludedOK
<1>7. AuditedOK(d, k)'
  BY <1>1, <1>2 DEF Knows, AuditedOK
<1>8. SeenOK(k)'
  BY <1>1, <1>2 DEF Knows, SeenOK
<1>9. UnitsOK(k)'
  BY <1>1, <1>2 DEF Knows, UnitsOK
<1> QED
  BY <1>3, <1>4, <1>5, <1>6, <1>7, <1>8, <1>9 DEF Knows

(* An inspector learns something: host and other inspectors stay.          *)
LEMMA Learning ==
    ASSUME ScanInv, UNCHANGED <<host, starts>>, NEW c \in Conns,
           \A d \in Conns \ {c} : scan'[d] = scan[d], scan' \in [Conns -> Knowledge],
           Knows(c, scan'[c])
    PROVE  ScanInv'
<1>1. ASSUME NEW d \in Conns PROVE Knows(d, scan'[d])
  <2>1. CASE d = c
    BY <2>1
  <2>2. CASE d # c
    <3>1. scan'[d] = scan[d]
      BY <2>2
    <3> QED
      BY <3>1 DEF ScanInv
  <2> QED
    BY <2>1, <2>2
<1> QED
  BY <1>1, Unmoved DEF ScanInv

LEMMA Putting ==
    ASSUME scan \in [Conns -> Knowledge], NEW c \in Conns, scan'[c] \in Knowledge,
           scan' = [scan EXCEPT ![c] = scan'[c]]
    PROVE  (\A d \in Conns \ {c} : scan'[d] = scan[d]) /\ scan' \in [Conns -> Knowledge]
  OBVIOUS

LEMMA Rest ==
    ASSUME NEW c \in Conns, NEW k \in Knowledge, RootOK(c, k.root), k.stage = "rest",
           \A p \in Pids : k.listed[p] <= starts[p]
    PROVE  Knows(c, k)
  BY DEF Knows, ListedOK, ParentsOK, ExcludedOK, AuditedOK, SeenOK, UnitsOK, Calm

LEMMA ListStep ==
    ASSUME HostInv, ScanInv, NEW c \in Conns, H!List(c)
    PROVE  scan'[c] \in Knowledge /\ Knows(c, scan'[c])
<1> DEFINE k == scan[c]
           n == scan'[c]
           entries == {p \in Pids : H!Alive(p)}
<1>1. k \in Knowledge /\ Knows(c, k)
  BY DEF ScanInv
<1>2. n = [k EXCEPT !.stage = IF entries = {} THEN "done" ELSE "parents",
                    !.listed = [p \in Pids |-> host[p].start],
                    !.parents = [p \in Pids |-> H!Nowhere],
                    !.left = entries, !.excluded = {}, !.quiet = TRUE]
  BY DEF H!List, H!Put, ScanInv
<1>3. \A p \in Pids : host[p].start \in Nat /\ host[p].start <= starts[p]
  BY Processes, HostAssumption DEF HostInv, HostTyped
<1>4. n \in Knowledge
  <2>1. /\ [p \in Pids |-> host[p].start] \in [Pids -> Nat]
        /\ [p \in Pids |-> H!Nowhere] \in [Pids -> Pids \cup {H!Nowhere}]
        /\ entries \in SUBSET Pids /\ {} \in SUBSET Pids
        /\ (IF entries = {} THEN "done" ELSE "parents") \in Stages
    BY <1>3 DEF Stages
  <2> HIDE DEF n, entries, k
  <2> QED
    BY <1>1, <1>2, <2>1 DEF Knowledge
<1>5. /\ n.stage \in {"done", "parents"} /\ (n.stage = "done" => entries = {})
      /\ n.root = k.root /\ n.left = entries /\ n.excluded = {}
      /\ \A p \in Pids : n.listed[p] = host[p].start /\ n.parents[p] = H!Nowhere
  BY <1>1, <1>2 DEF Knowledge
<1> HIDE DEF n
<1>6. \A p \in Pids : Lasting(n, p) => p \in entries
  BY <1>5 DEF Lasting, H!Alive
<1>7. RootOK(c, n.root)
  BY <1>1, <1>5 DEF Knows
<1>8. ListedOK(n)
  BY <1>3, <1>5 DEF ListedOK
<1>9. ParentsOK(n)
  BY <1>5, <1>6 DEF ParentsOK
<1>10. ExcludedOK(c, n) /\ AuditedOK(c, n) /\ SeenOK(n) /\ UnitsOK(n)
  BY <1>5, <1>6 DEF ExcludedOK, AuditedOK, SeenOK, UnitsOK, Calm
<1> QED
  BY <1>4, <1>7, <1>8, <1>9, <1>10 DEF Knows, n

LEMMA ParentStep ==
    ASSUME HostInv, ScanInv, NEW c \in Conns, NEW x \in Pids, H!ReadParent(c, x)
    PROVE  scan'[c] \in Knowledge /\ Knows(c, scan'[c])
<1> DEFINE k == scan[c]
           n == scan'[c]
           parent == IF H!Alive(x) THEN host[x].parent ELSE x
<1>1. k \in Knowledge /\ Knows(c, k) /\ k.stage = "parents"
  BY DEF ScanInv, H!ReadParent
<1>2. n = [k EXCEPT !.left = k.left \ {x}, !.parents[x] = parent]
  BY DEF H!ReadParent, H!Put, ScanInv
<1>3. parent \in Pids \cup {H!Nowhere}
  BY Processes DEF HostInv, HostTyped
<1>4. n \in Knowledge
  <2>1. /\ [k.parents EXCEPT ![x] = parent] \in [Pids -> Pids \cup {H!Nowhere}]
        /\ k.left \ {x} \in SUBSET Pids
    BY <1>1, <1>3 DEF Knowledge
  <2>2. n = [k EXCEPT !.left = k.left \ {x}, !.parents = [k.parents EXCEPT ![x] = parent]]
    BY <1>1, <1>2 DEF Knowledge
  <2> HIDE DEF n, parent, k
  <2> QED
    BY <1>1, <2>1, <2>2 DEF Knowledge
<1>5. /\ n.stage = "parents" /\ n.root = k.root /\ n.left = k.left \ {x} /\ n.listed = k.listed
      /\ n.parents = [k.parents EXCEPT ![x] = parent]
  BY <1>1, <1>2 DEF Knowledge
<1>6. n.parents[x] = parent /\ \A p \in Pids \ {x} : n.parents[p] = k.parents[p]
  BY <1>1, <1>5 DEF Knowledge
<1> HIDE DEF n
<1>7. RootOK(c, n.root)
  BY <1>1, <1>5 DEF Knows
<1>8. ListedOK(n)
  BY <1>1, <1>5 DEF Knows, ListedOK
<1>9. ParentsOK(n)
  <2> SUFFICES ASSUME NEW p \in Pids \ n.left, Lasting(n, p), n.parents[p] \in Pids \ {p},
                      Lasting(n, n.parents[p])
               PROVE  host[p].parent = n.parents[p]
    BY DEF ParentsOK
  <2>1. Lasting(k, p) /\ Lasting(k, n.parents[p])
    BY <1>5 DEF Lasting
  <2>2. CASE p = x
    BY <1>6, <2>2
  <2>3. CASE p # x
    BY <1>1, <1>5, <1>6, <2>1, <2>3 DEF Knows, ParentsOK
  <2> QED
    BY <2>2, <2>3
<1>10. ExcludedOK(c, n) /\ AuditedOK(c, n) /\ SeenOK(n) /\ UnitsOK(n)
  BY <1>5 DEF ExcludedOK, AuditedOK, SeenOK, UnitsOK, Calm
<1> QED
  BY <1>4, <1>7, <1>8, <1>9, <1>10 DEF Knows, n

LEMMA Trees ==
    ASSUME NEW c \in Conns, NEW roots \in SUBSET Pids
    PROVE  LET T == H!Tree(c, roots)
           IN /\ T \in SUBSET Pids /\ roots \subseteq T
              /\ \A p \in H!Read(c) : scan[c].parents[p] \in T => p \in T
              /\ \A S \in SUBSET Pids :
                    roots \subseteq S /\ (\A p \in H!Read(c) : scan[c].parents[p] \in S => p \in S)
                        => T \subseteq S
<1>1. H!Read(c) \subseteq Pids
  BY DEF H!Read, H!Entries
<1> QED
  BY <1>1 DEF H!Tree

(* The tree that is excluded is the requester's: a child of a member is    *)
(* one, and so is the root.                                                *)
LEMMA OwnTree ==
    ASSUME HostInv, ScanInv, NEW c \in Conns,
           scan[c].stage = "parents", scan[c].left = {},
           LET root == scan[c].root
           IN /\ root.pid \in H!Read(c) => H!Is(root.pid, root.start)
              /\ \A p \in H!Tree(c, {root.pid} \cap H!Read(c)) : H!Alive(p)
    PROVE  \A p \in H!Tree(c, {scan[c].root.pid} \cap H!Read(c)) :
               p \in Pids /\ c \in host[p].member
<1> DEFINE k == scan[c]
           roots == {k.root.pid} \cap H!Read(c)
           T == H!Tree(c, roots)
           S == {p \in T : c \in host[p].member}
<1>1. k \in Knowledge /\ Knows(c, k)
  BY DEF ScanInv
<1>2. H!Read(c) = {p \in Pids : k.listed[p] > 0 /\ k.parents[p] # p}
  BY DEF H!Read, H!Entries
<1>3. /\ T \in SUBSET Pids /\ roots \subseteq T
      /\ \A p \in H!Read(c) : k.parents[p] \in T => p \in T
      /\ \A R \in SUBSET Pids :
            roots \subseteq R /\ (\A p \in H!Read(c) : k.parents[p] \in R => p \in R)
                => T \subseteq R
  BY <1>2, Trees
<1>4. T \subseteq H!Read(c)
  BY <1>2, <1>3
<1>5. ASSUME NEW p \in T PROVE p \in Pids /\ Lasting(k, p) /\ k.parents[p] # p
  BY <1>1, <1>2, <1>4 DEF Knows, ListedOK, Lasting
<1>6. roots \subseteq S
  <2>1. ASSUME k.root.pid \in H!Read(c) PROVE c \in host[k.root.pid].member
    BY <1>1, <1>2, <2>1, HostAssumption DEF Knows, RootOK
  <2> QED
    BY <1>3, <2>1
<1>7. ASSUME NEW p \in H!Read(c), k.parents[p] \in S PROVE p \in S
  <2>1. p \in T /\ k.parents[p] \in T /\ c \in host[k.parents[p]].member
    BY <1>3, <1>7
  <2>2. host[p].parent = k.parents[p]
    BY <1>1, <1>5, <2>1 DEF Knows, ParentsOK
  <2>3. k.parents[p] # H!Nowhere
    BY <1>5, <2>1, HostAssumption
  <2> QED
    BY <1>5, <2>1, <2>2, <2>3 DEF HostInv, FamiliesOK
<1>8. S \in SUBSET Pids
  BY <1>3
<1> HIDE DEF k, roots, T, S
<1>9. T \subseteq S
  BY <1>3, <1>6, <1>7, <1>8
<1> QED
  BY <1>3, <1>9 DEF k, roots, T, S

LEMMA OwnShell ==
    ASSUME HostInv, ScanInv, NEW c \in Conns, NEW p \in H!Launcher(c)
    PROVE  p \in Pids /\ ~H!Stranger(c, host[p])
<1> DEFINE root == scan[c].root
           shell == H!Nearest(root.pid, "shell")
<1>1. p = shell /\ shell # H!Nowhere /\ root.pid \in Pids /\ H!Is(root.pid, root.start)
  BY DEF H!Launcher, H!Entries
<1>2. Line(c, root.pid)
  BY <1>1, HostAssumption DEF ScanInv, Knows, RootOK
<1>3. shell \in Pids /\ shell \in H!Upward(host, root.pid) /\ host[shell].role = "shell"
  BY <1>1, Nearests DEF HostInv, Roles
<1> HIDE DEF root, shell
<1> QED
  BY <1>1, <1>2, <1>3 DEF Line, H!Kindred

LEMMA ExcludeStep ==
    ASSUME HostInv, ScanInv, NEW c \in Conns, H!Exclude(c)
    PROVE  scan'[c] \in Knowledge /\ Knows(c, scan'[c])
<1> DEFINE k == scan[c]
           n == scan'[c]
           tree == H!Tree(c, {k.root.pid} \cap H!Read(c))
           excluded == tree \cup H!Launcher(c)
           certain == /\ k.root.pid \in H!Entries(c) =>
                            k.root.pid \in H!Read(c) /\ H!Is(k.root.pid, k.root.start)
                      /\ \A p \in tree : H!Alive(p)
<1>1. k \in Knowledge /\ Knows(c, k) /\ k.stage = "parents" /\ k.left = {}
  BY DEF ScanInv, H!Exclude, H!Exclusion
<1>2. excluded \in SUBSET Pids
  <2>1. {k.root.pid} \cap H!Read(c) \in SUBSET Pids
    BY DEF H!Read, H!Entries
  <2>2. tree \in SUBSET Pids
    BY <2>1, Trees
  <2> QED
    BY <2>2, OwnShell
<1>3. n = [k EXCEPT !.stage = IF certain THEN "audit" ELSE "done",
                    !.quiet = certain, !.excluded = excluded]
  BY DEF H!Exclude, H!Exclusion, H!Put, ScanInv
<1>4. CASE certain
  <2>1. certain = TRUE
    BY <1>4
  <2>2. k.root.pid \in H!Read(c) => H!Is(k.root.pid, k.root.start)
    BY <1>4 DEF H!Read
  <2>3. \A p \in excluded : ~H!Stranger(c, host[p])
    BY <1>1, <1>4, <2>2, OwnTree, OwnShell DEF H!Stranger
  <2> HIDE DEF n, k, certain, excluded
  <2>4. n = [k EXCEPT !.stage = "audit", !.quiet = TRUE, !.excluded = excluded]
    BY <1>3, <2>1
  <2>5. n \in Knowledge
    BY <1>1, <1>2, <2>4 DEF Knowledge, Stages
  <2>6. /\ n.stage = "audit" /\ n.root = k.root /\ n.listed = k.listed
        /\ n.excluded = excluded
    BY <1>1, <2>4 DEF Knowledge
  <2>7. RootOK(c, n.root) /\ ListedOK(n)
    BY <1>1, <2>6 DEF Knows, ListedOK
  <2>8. ExcludedOK(c, n)
    BY <2>3, <2>6 DEF ExcludedOK
  <2>9. ParentsOK(n) /\ AuditedOK(c, n) /\ SeenOK(n) /\ UnitsOK(n)
    BY <2>6 DEF ParentsOK, AuditedOK, SeenOK, UnitsOK, Calm
  <2> QED
    BY <2>5, <2>7, <2>8, <2>9 DEF Knows, n
<1>5. CASE ~certain
  <2>1. certain = FALSE
    BY <1>5
  <2> HIDE DEF n, k, certain, excluded
  <2>2. n = [k EXCEPT !.stage = "done", !.quiet = FALSE, !.excluded = excluded]
    BY <1>3, <2>1
  <2>3. n \in Knowledge
    BY <1>1, <1>2, <2>2 DEF Knowledge, Stages
  <2>4. n.stage = "done" /\ n.root = k.root /\ n.listed = k.listed /\ ~n.quiet
    BY <1>1, <2>2 DEF Knowledge
  <2>5. RootOK(c, n.root) /\ ListedOK(n)
    BY <1>1, <2>4 DEF Knows, ListedOK
  <2>6. ParentsOK(n) /\ ExcludedOK(c, n) /\ AuditedOK(c, n) /\ SeenOK(n) /\ UnitsOK(n)
    BY <2>4 DEF ParentsOK, ExcludedOK, AuditedOK, SeenOK, UnitsOK, Calm
  <2> QED
    BY <2>3, <2>5, <2>6 DEF Knows, n
<1> QED
  BY <1>4, <1>5

(* A scan that ends unquiet knows nothing of what it read.                 *)
LEMMA Unquiet ==
    ASSUME NEW c \in Conns, NEW k \in Knowledge, NEW n \in Knowledge, Knows(c, k),
           k.stage # "rest", n.stage = "done", ~n.quiet, n.root = k.root, n.listed = k.listed
    PROVE  Knows(c, n)
<1>1. RootOK(c, n.root) /\ ListedOK(n)
  BY DEF Knows, ListedOK
<1>2. ParentsOK(n) /\ ExcludedOK(c, n) /\ AuditedOK(c, n) /\ SeenOK(n) /\ UnitsOK(n)
  BY DEF ParentsOK, ExcludedOK, AuditedOK, SeenOK, UnitsOK, Calm
<1> QED
  BY <1>1, <1>2 DEF Knows

(* Who is on record and still runs is the requester or its agent.          *)
LEMMA OwnRow ==
    ASSUME HostInv, ScanInv, NEW c \in Conns, H!Audited(c) = {},
           NEW p \in Pids, H!Alive(p), On(p)
    PROVE  ~H!Stranger(c, host[p])
<1> DEFINE root == scan[c].root
           row == [pid |-> p, start |-> host[p].start]
           agent == H!Nearest(root.pid, "agent")
<1>1. root \in [pid : Pids \cup {H!Nowhere}, start : Nat] /\ RootOK(c, root)
  BY DEF ScanInv, Knows, Knowledge
<1>2. row = root \/ p = H!Agent(root)
  <2>1. row \in Rows /\ H!Is(row.pid, row.start) /\ host[row.pid].role # "bridge"
    BY DEF On, H!Is
  <2> QED
    BY <2>1 DEF H!Audited
<1>3. p # H!Nowhere
  BY HostAssumption
<1>4. CASE row = root
  <2>1. root.pid = p /\ H!Is(root.pid, root.start)
    BY <1>4 DEF H!Is
  <2> QED
    BY <1>1, <1>3, <2>1 DEF RootOK, H!Stranger
<1>5. CASE p = H!Agent(root)
  <2>1. root.pid # H!Nowhere /\ H!Is(root.pid, root.start)
    BY <1>3, <1>5 DEF H!Agent
  <2>2. root.pid \in Pids /\ c \in host[root.pid].member /\ Line(c, root.pid)
    BY <1>1, <2>1 DEF RootOK
  <2>3. p = IF agent = H!Nowhere THEN root.pid ELSE agent
    BY <1>5, <2>1 DEF H!Agent
  <2>4. agent # H!Nowhere => c \in host[agent].member
    BY <2>2, Kin DEF HostInv
  <2> QED
    BY <2>2, <2>3, <2>4 DEF H!Stranger
<1> QED
  BY <1>2, <1>4, <1>5

LEMMA AuditStep ==
    ASSUME HostInv, ScanInv, NEW c \in Conns, H!Audit(c)
    PROVE  scan'[c] \in Knowledge /\ Knows(c, scan'[c])
<1> DEFINE k == scan[c]
           n == scan'[c]
           quiet == H!Audited(c) = {}
           left == H!Entries(c) \ k.excluded
<1>1. k \in Knowledge /\ Knows(c, k) /\ k.stage = "audit"
  BY DEF ScanInv, H!Audit
<1>2. n = [k EXCEPT !.stage = IF quiet THEN "look" ELSE "done",
                    !.left = IF quiet THEN left ELSE {}, !.quiet = quiet]
  BY DEF H!Audit, H!Put, ScanInv
<1>3. left \in SUBSET Pids /\ \A p \in Pids : Lasting(k, p) => p \in left \cup k.excluded
  BY DEF H!Entries, Lasting
<1>4. CASE quiet
  <2>1. quiet = TRUE
    BY <1>4
  <2>2. \A p \in Pids : Lasting(k, p) /\ On(p) => ~H!Stranger(c, host[p])
    BY <1>4, OwnRow DEF Lasting, H!Alive
  <2> HIDE DEF n, k, quiet, left
  <2>3. n = [k EXCEPT !.stage = "look", !.left = left, !.quiet = TRUE]
    BY <1>2, <2>1
  <2>4. n \in Knowledge
    BY <1>1, <1>3, <2>3 DEF Knowledge, Stages
  <2>5. /\ n.stage = "look" /\ n.root = k.root /\ n.listed = k.listed
        /\ n.excluded = k.excluded /\ n.left = left
    BY <1>1, <2>3 DEF Knowledge
  <2>6. \A p \in Pids : Lasting(n, p) <=> Lasting(k, p)
    BY <2>5 DEF Lasting
  <2>7. RootOK(c, n.root) /\ ListedOK(n)
    BY <1>1, <2>5 DEF Knows, ListedOK
  <2>8. ExcludedOK(c, n)
    BY <1>1, <2>5 DEF Knows, ExcludedOK, Lasting
  <2>9. AuditedOK(c, n)
    BY <2>2, <2>6 DEF AuditedOK
  <2>10. ParentsOK(n) /\ SeenOK(n) /\ UnitsOK(n)
    BY <1>3, <2>5, <2>6 DEF ParentsOK, SeenOK, UnitsOK, Calm
  <2> QED
    BY <2>4, <2>7, <2>8, <2>9, <2>10 DEF Knows, n
<1>5. CASE ~quiet
  <2>1. quiet = FALSE
    BY <1>5
  <2> HIDE DEF n, k, quiet, left
  <2>2. n = [k EXCEPT !.stage = "done", !.left = {}, !.quiet = FALSE]
    BY <1>2, <2>1
  <2>3. n \in Knowledge
    BY <1>1, <2>2 DEF Knowledge, Stages
  <2>4. n.stage = "done" /\ n.root = k.root /\ n.listed = k.listed /\ ~n.quiet
    BY <1>1, <2>2 DEF Knowledge
  <2> QED
    BY <1>1, <2>3, <2>4, Unquiet DEF n
<1> QED
  BY <1>4, <1>5

LEMMA LookStep ==
    ASSUME HostInv, ScanInv, NEW c \in Conns, NEW x \in Pids, H!Look(c, x)
    PROVE  scan'[c] \in Knowledge /\ Knows(c, scan'[c])
<1> DEFINE k == scan[c]
           n == scan'[c]
           quiet == ~H!Alive(x) \/ H!Reason(x) = "nothing" \/ H!Resident(x)
<1>1. k \in Knowledge /\ Knows(c, k) /\ k.stage = "look"
  BY DEF ScanInv, H!Look
<1>2. n = [k EXCEPT !.stage = IF quiet THEN "look" ELSE "done",
                    !.left = IF quiet THEN k.left \ {x} ELSE {}, !.quiet = quiet]
  BY <1>1 DEF H!Look, H!Put, ScanInv, Knowledge
<1>3. CASE quiet
  <2>1. quiet = TRUE
    BY <1>3
  <2>2. Lasting(k, x) => H!Reason(x) = "nothing" \/ H!Resident(x)
    BY <1>3 DEF Lasting, H!Alive
  <2> HIDE DEF n, k, quiet
  <2>3. n = [k EXCEPT !.stage = "look", !.left = k.left \ {x}, !.quiet = TRUE]
    BY <1>2, <2>1
  <2>4. n \in Knowledge
    BY <1>1, <2>3 DEF Knowledge, Stages
  <2>5. /\ n.stage = "look" /\ n.root = k.root /\ n.listed = k.listed
        /\ n.excluded = k.excluded /\ n.left = k.left \ {x}
    BY <1>1, <2>3 DEF Knowledge
  <2>6. \A p \in Pids : Lasting(n, p) <=> Lasting(k, p)
    BY <2>5 DEF Lasting
  <2>7. RootOK(c, n.root) /\ ListedOK(n)
    BY <1>1, <2>5 DEF Knows, ListedOK
  <2>8. ExcludedOK(c, n)
    BY <1>1, <2>5 DEF Knows, ExcludedOK, Lasting
  <2>9. AuditedOK(c, n)
    BY <1>1, <2>6 DEF Knows, AuditedOK
  <2>10. SeenOK(n)
    BY <1>1, <2>2, <2>5, <2>6 DEF Knows, SeenOK
  <2>11. ParentsOK(n) /\ UnitsOK(n)
    BY <2>5 DEF ParentsOK, UnitsOK, Calm
  <2> QED
    BY <2>4, <2>7, <2>8, <2>9, <2>10, <2>11 DEF Knows, n
<1>4. CASE ~quiet
  <2>1. quiet = FALSE
    BY <1>4
  <2> HIDE DEF n, k, quiet
  <2>2. n = [k EXCEPT !.stage = "done", !.left = {}, !.quiet = FALSE]
    BY <1>2, <2>1
  <2>3. n \in Knowledge
    BY <1>1, <2>2 DEF Knowledge, Stages
  <2>4. n.stage = "done" /\ n.root = k.root /\ n.listed = k.listed /\ ~n.quiet
    BY <1>1, <2>2 DEF Knowledge
  <2> QED
    BY <1>1, <2>3, <2>4, Unquiet DEF n
<1> QED
  BY <1>3, <1>4

LEMMA ServicesStep ==
    ASSUME HostInv, ScanInv, NEW c \in Conns, H!Services(c)
    PROVE  scan'[c] \in Knowledge /\ Knows(c, scan'[c])
<1> DEFINE k == scan[c]
           n == scan'[c]
           quiet == \A p \in Pids : host[p].shows # "unit"
<1>1. k \in Knowledge /\ Knows(c, k) /\ k.stage = "look" /\ k.left = {}
  BY DEF ScanInv, H!Services
<1>2. n = [k EXCEPT !.stage = "done", !.quiet = quiet]
  BY DEF H!Services, H!Put, ScanInv
<1>3. CASE quiet
  <2>1. quiet = TRUE
    BY <1>3
  <2> HIDE DEF n, k
  <2>3. n = [k EXCEPT !.stage = "done", !.quiet = TRUE]
    BY <1>2, <2>1
  <2>4. n \in Knowledge
    BY <1>1, <2>3 DEF Knowledge, Stages
  <2>5. /\ n.stage = "done" /\ n.root = k.root /\ n.listed = k.listed
        /\ n.excluded = k.excluded /\ n.left = k.left
    BY <1>1, <2>3 DEF Knowledge
  <2>6. \A p \in Pids : Lasting(n, p) <=> Lasting(k, p)
    BY <2>5 DEF Lasting
  <2>7. RootOK(c, n.root) /\ ListedOK(n)
    BY <1>1, <2>5 DEF Knows, ListedOK
  <2>8. ExcludedOK(c, n)
    BY <1>1, <2>5 DEF Knows, ExcludedOK, Lasting
  <2>9. AuditedOK(c, n)
    BY <1>1, <2>6 DEF Knows, AuditedOK
  <2>10. SeenOK(n)
    BY <1>1, <2>5, <2>6 DEF Knows, SeenOK
  <2>11. ParentsOK(n) /\ UnitsOK(n)
    BY <1>1, <1>3, <2>5 DEF ParentsOK, UnitsOK, Calm
  <2> QED
    BY <2>4, <2>7, <2>8, <2>9, <2>10, <2>11 DEF Knows, n
<1>4. CASE ~quiet
  <2>1. quiet = FALSE
    BY <1>4
  <2> HIDE DEF n, k, quiet
  <2>2. n = [k EXCEPT !.stage = "done", !.quiet = FALSE]
    BY <1>2, <2>1
  <2>3. n \in Knowledge
    BY <1>1, <2>2 DEF Knowledge, Stages
  <2>4. n.stage = "done" /\ n.root = k.root /\ n.listed = k.listed /\ ~n.quiet
    BY <1>1, <2>2 DEF Knowledge
  <2> QED
    BY <1>1, <2>3, <2>4, Unquiet DEF n
<1> QED
  BY <1>3, <1>4

LEMMA ScanStep == ASSUME HostInv, ScanInv, NEW c \in Conns, H!Scan(c) PROVE ScanInv'
<1>1. UNCHANGED <<host, starts>> /\ scan' = [scan EXCEPT ![c] = scan'[c]]
  <2>1. \E k : H!Put(c, k) /\ UNCHANGED <<host, starts>>
    BY DEF H!Scan, H!List, H!Exclude, H!Exclusion, H!Audit, H!Services, H!ReadParent, H!Look
  <2> QED
    BY <2>1 DEF H!Put, ScanInv
<1>2. scan'[c] \in Knowledge /\ Knows(c, scan'[c])
  BY ListStep, ParentStep, ExcludeStep, AuditStep, LookStep, ServicesStep DEF H!Scan
<1> QED
  BY <1>1, <1>2, Putting, Learning DEF ScanInv

(* Between scans: the root is known anew, or nothing is.                   *)
LEMMA RestingStep ==
    ASSUME HostInv, NEW c \in Conns, NEW k, k = H!Resting
    PROVE  k \in Knowledge /\ Knows(c, k)
<1>1. k \in Knowledge /\ k.stage = "rest" /\ k.root = H!NoRoot /\ \A p \in Pids : k.listed[p] = 0
  BY DEF H!Resting, H!NoRoot, Knowledge, Stages
<1>2. RootOK(c, k.root)
  BY <1>1 DEF RootOK, H!NoRoot
<1>3. \A p \in Pids : k.listed[p] <= starts[p]
  BY <1>1, HostAssumption DEF HostInv, HostTyped
<1> QED
  BY <1>1, <1>2, <1>3, Rest

LEMMA AnchorStep ==
    ASSUME HostInv, ScanInv, NEW c \in Conns, ClientOK(c), H!Anchor(c) PROVE ScanInv'
<1> DEFINE k == scan[c]
           n == scan'[c]
           p == Client[c]
           root == IF p = H!Nowhere THEN H!NoRoot
                   ELSE IF H!Alive(p)
                   THEN [pid |-> H!Root(p), start |-> host[H!Root(p)].start]
                   ELSE [pid |-> p, start |-> 0]
<1>1. k \in Knowledge /\ Knows(c, k)
  BY DEF ScanInv
<1>2. n = [k EXCEPT !.root = root] /\ scan' = [scan EXCEPT ![c] = n]
  BY DEF H!Anchor, H!Put, ScanInv
<1>3. root \in [pid : Pids \cup {H!Nowhere}, start : Nat] /\ RootOK(c, root)
  <2>1. CASE p = H!Nowhere
    BY <2>1 DEF H!NoRoot, RootOK
  <2>2. CASE p # H!Nowhere /\ H!Alive(p)
    <3>1. /\ H!Root(p) \in Pids /\ c \in host[H!Root(p)].member /\ Line(c, H!Root(p))
          /\ host[H!Root(p)].start \in Nat /\ host[H!Root(p)].start <= starts[H!Root(p)]
      BY <2>2, Rooted, Processes, HostAssumption DEF HostInv, HostTyped
    <3> QED
      BY <2>2, <3>1 DEF RootOK
  <2>3. CASE p # H!Nowhere /\ ~H!Alive(p)
    <3>1. p \in Pids /\ starts[p] \in Nat /\ root = [pid |-> p, start |-> 0]
      BY <2>3, HostAssumption DEF HostInv, HostTyped
    <3>2. ~H!Is(p, 0)
      BY DEF H!Is, H!Alive
    <3> QED
      BY <3>1, <3>2 DEF RootOK
  <2> QED
    BY <2>1, <2>2, <2>3
<1> HIDE DEF n, k, root
<1>4. n \in Knowledge
  BY <1>1, <1>2, <1>3 DEF Knowledge
<1>5. /\ n.root = root /\ n.stage = k.stage /\ n.listed = k.listed /\ n.parents = k.parents
      /\ n.left = k.left /\ n.excluded = k.excluded /\ n.quiet = k.quiet
  BY <1>1, <1>2 DEF Knowledge
<1>6. Knows(c, n)
  <2>1. \A q \in Pids : Lasting(n, q) <=> Lasting(k, q)
    BY <1>5 DEF Lasting
  <2>2. Calm(n) <=> Calm(k)
    BY <1>5 DEF Calm
  <2>3. RootOK(c, n.root) /\ ListedOK(n)
    BY <1>1, <1>3, <1>5 DEF Knows, ListedOK
  <2>4. ParentsOK(n)
    BY <1>1, <1>5, <2>1 DEF Knows, ParentsOK
  <2>5. k.excluded \subseteq Pids
    BY <1>1 DEF Knowledge
  <2>6. ExcludedOK(c, n)
    BY <1>1, <1>5, <2>1, <2>2, <2>5 DEF Knows, ExcludedOK
  <2>7. AuditedOK(c, n)
    BY <1>1, <1>5, <2>1, <2>2 DEF Knows, AuditedOK
  <2>8. SeenOK(n) /\ UnitsOK(n)
    BY <1>1, <1>5, <2>1, <2>2 DEF Knows, SeenOK, UnitsOK
  <2> QED
    BY <2>3, <2>4, <2>6, <2>7, <2>8 DEF Knows
<1> QED
  BY <1>2, <1>4, <1>6, Putting, Learning DEF ScanInv, n, H!Anchor

LEMMA ForgetStep == ASSUME HostInv, ScanInv, NEW c \in Conns, H!Forget(c) PROVE ScanInv'
<1>1. scan'[c] = H!Resting /\ scan' = [scan EXCEPT ![c] = scan'[c]] /\ UNCHANGED <<host, starts>>
  BY DEF H!Forget, H!Put, ScanInv
<1>2. scan'[c] \in Knowledge /\ Knows(c, scan'[c])
  BY <1>1, RestingStep
<1> QED
  BY <1>1, <1>2, Putting, Learning DEF ScanInv

LEMMA ConcludeStep ==
    ASSUME HostInv, ScanInv, NEW c \in Conns, H!Conclude(c)
    PROVE  ScanInv' /\ scan'[c].listed = scan[c].listed
<1> DEFINE k == scan[c]
           n == scan'[c]
<1>1. k \in Knowledge /\ Knows(c, k)
  BY DEF ScanInv
<1>2. /\ n = [H!Resting EXCEPT !.root = k.root, !.listed = k.listed]
      /\ scan' = [scan EXCEPT ![c] = n] /\ UNCHANGED <<host, starts>>
  BY DEF H!Conclude, H!Put, ScanInv
<1> HIDE DEF n, k
<1>3. H!Resting \in Knowledge /\ H!Resting.stage = "rest"
  BY DEF H!Resting, H!NoRoot, Knowledge, Stages
<1>4. n \in Knowledge
  BY <1>1, <1>2, <1>3 DEF Knowledge
<1>5. n.root = k.root /\ n.listed = k.listed /\ n.stage = "rest"
  BY <1>2, <1>3 DEF Knowledge
<1>6. Knows(c, n)
  BY <1>1, <1>4, <1>5, Rest DEF Knows, ListedOK
<1> QED
  BY <1>2, <1>4, <1>5, <1>6, Putting, Learning DEF ScanInv, n, k

-----------------------------------------------------------------------------
(* The endpoint on its host.  On the way to where it publishes a thread    *)
(* passes a quiet scan; what is published after is as safe as it was then. *)
PublishInv == \A c \in Conns : at[c] = "publishing" => H!Overlooked(c) = {}

ClientsInv == \A c \in Conns : Unregistered(c) => ClientOK(c)

SInv == HostInv /\ ScanInv /\ PublishInv /\ ClientsInv

(* The host restricts what endpoint and bridge do, and adds nothing.       *)
LEMMA ServiceNextStep == [ServiceNext]_serviceVars => [BridgedNext]_<<vars, bridge>>
<1> SUFFICES ASSUME [ServiceNext]_serviceVars PROVE [BridgedNext]_<<vars, bridge>>
  OBVIOUS
<1>1. ASSUME NEW c \in Conns, Works(c) PROVE [BridgedNext]_<<vars, bridge>>
  <2>1. CASE Registers(c)
    BY <2>1 DEF Registers, BridgedNext
  <2>2. CASE Handles(c)
    BY <2>2 DEF Handles, BridgedNext
  <2>3. CASE Scans(c)
    BY <2>3 DEF Scans
  <2>4. CASE Concludes(c)
    BY <2>4 DEF Concludes, BridgedNext
  <2> QED
    BY <1>1, <2>1, <2>2, <2>3, <2>4 DEF Works
<1>2. CASE Clients
  <2>1. ASSUME NEW c \in Busy, GiveUp(c), UNCHANGED bridge PROVE BridgedNext
    BY <2>1 DEF BridgedNext, Busy
  <2>2. ASSUME NEW c \in Conns \ Bridged, Arrive(c), UNCHANGED bridge PROVE BridgedNext
    BY <2>2 DEF BridgedNext
  <2>3. ASSUME NEW c \in Conns, IssueGrant(Grant(c)) \/ Lapse(Grant(c)), UNCHANGED bridge
        PROVE  BridgedNext
    BY <2>3, Carried DEF BridgedNext
  <2>4. CASE BridgeMoves
    BY <2>4 DEF BridgedNext
  <2> QED
    BY <1>2, <2>1, <2>2, <2>3, <2>4 DEF Clients
<1>3. CASE HostMoves
  BY <1>3 DEF HostMoves
<1>4. CASE Restarts
  BY <1>4 DEF Restarts, BridgedNext
<1>5. CASE UNCHANGED serviceVars
  BY <1>5 DEF serviceVars
<1> QED
  BY <1>1, <1>2, <1>3, <1>4, <1>5 DEF ServiceNext, Busy

LEMMA Unpublished ==
    ASSUME ThreadsOK, NEW c \in Conns
    PROVE  /\ Register(c) \/ Handle(c) \/ InspectBefore(c) \/ Arrive(c) \/ GiveUp(c)
                  => Only(c) /\ at'[c] # "publishing"
           /\ InspectAfter(c) => Only(c)
           /\ Register(c) => Unregistered(c)
           /\ Unregistered(c)' /\ (Register(c) \/ Handle(c) \/ InspectBefore(c) \/ InspectAfter(c)
                                      \/ Arrive(c) \/ GiveUp(c)) => Unregistered(c)
<1> USE DEF Unregistered
<1>1. Register(c) \/ Arrive(c) \/ GiveUp(c) =>
         Only(c) /\ at'[c] # "publishing" /\ Unregistered(c)
  BY Entering
<1>2. InspectBefore(c) => Only(c) /\ at'[c] # "publishing" /\ ~Unregistered(c)'
  BY Recovery
<1>3. ReadCached(c) \/ TakeSelection(c) \/ TakeSession(c) \/ Enter(c) \/ Run(c)
          \/ Leave(c) \/ Record(c) => Only(c) /\ at'[c] # "publishing" /\ ~Unregistered(c)'
  BY Entering
<1>4. ReadClaims(c) \/ Fence(c) \/ LockOwner(c) \/ Validate(c) \/ RevokeOwner(c)
          \/ InspectGrants(c) \/ Publish(c) \/ ReleaseOwner(c) \/ Unfence(c)
              => Only(c) /\ at'[c] # "publishing" /\ ~Unregistered(c)'
  BY Recovery
<1>5. InspectAfter(c) => Only(c) /\ ~Unregistered(c)'
  BY Recovery
<1> QED
  BY <1>1, <1>2, <1>3, <1>4, <1>5 DEF Handle

(* What is overlooked only gets less, as long as nobody scans anew.        *)
LEMMA OverlookedStays ==
    ASSUME NEW c \in Conns, UNCHANGED host, scan'[c].listed = scan[c].listed,
           H!Overlooked(c) = {}
    PROVE  H!Overlooked(c)' = {}
<1> SUFFICES ASSUME NEW p \in Pids, H!Works(c, p)', scan'[c].listed[p] = host'[p].start
             PROVE  FALSE
  BY DEF H!Overlooked
<1>1. H!Works(c, p) /\ scan[c].listed[p] = host[p].start
  BY DEF H!Works, H!Alive, H!Reason
<1> QED
  BY <1>1 DEF H!Overlooked

LEMMA OverlookedShrinks ==
    ASSUME HostTyped, ScanInv, NEW x \in Pids, Moves(x), NEW c \in Conns, H!Overlooked(c) = {}
    PROVE  H!Overlooked(c)' = {}
<1> SUFFICES ASSUME NEW p \in Pids, H!Works(c, p)', scan'[c].listed[p] = host'[p].start
             PROVE  FALSE
  BY DEF H!Overlooked
<1>1. Lasting(scan[c], p)'
  <2>1. host'[p].start > 0
    BY DEF H!Works, H!Alive
  <2> QED
    BY <2>1 DEF Lasting
<1>2. Lasting(scan[c], p) /\ Kept(p)
  BY <1>1, Lasts
<1>3. H!Works(c, p)
  BY <1>2 DEF H!Works, H!Alive, H!Reason, H!Stranger, Kept
<1> QED
  BY <1>2, <1>3 DEF H!Overlooked, Lasting

LEMMA Untouched ==
    ASSUME HostInv, ScanInv, UNCHANGED <<host, starts>>
    PROVE  /\ HostInv' /\ (UNCHANGED scan => ScanInv')
           /\ \A c \in Conns : ClientOK(c) => ClientOK(c)'
<1>1. HostInv'
  BY DEF HostInv, HostTyped, FamiliesOK, H!Alive
<1>2. UNCHANGED scan => ScanInv'
  BY Unmoved DEF ScanInv
<1>3. \A c \in Conns : ClientOK(c) => ClientOK(c)'
  BY DEF ClientOK, H!Alive, Line
<1> QED
  BY <1>1, <1>2, <1>3

LEMMA WorksStep == ASSUME ThreadsOK, SInv, NEW c \in Conns, Works(c) PROVE SInv'
<1> USE DEF SInv
<1>1. ASSUME UNCHANGED host, Only(c), \A d \in Conns \ {c} : scan'[d] = scan[d],
             at'[c] = "publishing" => H!Overlooked(c)' = {}
      PROVE  PublishInv'
  BY <1>1, OverlookedStays DEF PublishInv, Only
<1>2. ASSUME UNCHANGED <<host, starts>> PROVE HostInv' /\ ClientsInv'
  <2>1. \A d \in Conns : Unregistered(d)' => Unregistered(d)
    <3>1. CASE Scans(c)
      BY <3>1 DEF Scans, Unregistered, vars, threads
    <3>2. CASE ~Scans(c)
      BY <3>2, Unpublished DEF Works, Registers, Handles, Concludes, Only, Unregistered
    <3> QED
      BY <3>1, <3>2
  <2> QED
    BY <1>2, <2>1, Untouched DEF ClientsInv
<1>3. ASSUME UNCHANGED hostVars PROVE ScanInv'
  BY <1>3, Untouched DEF hostVars
<1>4. CASE Registers(c)
  <2>1. Only(c) /\ at'[c] # "publishing" /\ ClientOK(c)
    BY <1>4, Unpublished DEF Registers, ClientsInv
  <2>2. CASE H!Anchor(c)
    <3>1. UNCHANGED <<host, starts>> /\ \A d \in Conns \ {c} : scan'[d] = scan[d]
      BY <2>2 DEF H!Anchor, H!Put, ScanInv
    <3> QED
      BY <1>1, <1>2, <2>1, <2>2, <3>1, AnchorStep
  <2>3. CASE UNCHANGED hostVars
    BY <1>1, <1>2, <1>3, <2>1, <2>3 DEF hostVars
  <2> QED
    BY <1>4, <2>2, <2>3 DEF Registers
<1>5. CASE Handles(c)
  <2>1. Only(c) /\ at'[c] # "publishing"
    BY <1>5, Unpublished DEF Handles
  <2>2. CASE H!Forget(c)
    <3>1. UNCHANGED <<host, starts>> /\ \A d \in Conns \ {c} : scan'[d] = scan[d]
      BY <2>2 DEF H!Forget, H!Put, ScanInv
    <3> QED
      BY <1>1, <1>2, <2>1, <2>2, <3>1, ForgetStep
  <2>3. CASE UNCHANGED hostVars
    BY <1>1, <1>2, <1>3, <2>1, <2>3 DEF hostVars
  <2> QED
    BY <1>5, <2>2, <2>3 DEF Handles
<1>6. CASE Scans(c)
  <2>1. Only(c) /\ at'[c] # "publishing"
    BY <1>6 DEF Scans, Inspecting, Only, vars, threads
  <2>2. UNCHANGED <<host, starts>> /\ \A d \in Conns \ {c} : scan'[d] = scan[d]
    <3>1. \E k : H!Put(c, k) /\ UNCHANGED <<host, starts>>
      BY <1>6 DEF Scans, H!Scan, H!List, H!Exclude, H!Exclusion, H!Audit, H!Services,
                  H!ReadParent, H!Look
    <3> QED
      BY <3>1 DEF H!Put, ScanInv
  <2> QED
    BY <1>1, <1>2, <1>6, <2>1, <2>2, ScanStep DEF Scans
<1>7. CASE Concludes(c)
  <2>1. Only(c) /\ H!Conclude(c)
    BY <1>7, Unpublished DEF Concludes
  <2>2. UNCHANGED <<host, starts>> /\ \A d \in Conns \ {c} : scan'[d] = scan[d]
    BY <2>1 DEF H!Conclude, H!Put, ScanInv
  <2>3. ASSUME at'[c] = "publishing" PROVE H!Overlooked(c)' = {}
    <3>1. H!Quiet(c)
      BY <1>7, <2>3 DEF Concludes
    <3>2. H!Overlooked(c) = {}
      BY <3>1, NothingOverlooked DEF HostInv
    <3> QED
      BY <2>1, <2>2, <3>2, ConcludeStep, OverlookedStays
  <2> QED
    BY <1>1, <1>2, <2>1, <2>2, <2>3, ConcludeStep
<1> QED
  BY <1>4, <1>5, <1>6, <1>7 DEF Works

LEMMA ServiceStep == ASSUME ThreadsOK, SInv, [ServiceNext]_serviceVars PROVE SInv'
<1> USE DEF SInv
<1>1. ASSUME UNCHANGED hostVars,
             \A c \in Conns : /\ at'[c] = "publishing" => at[c] = "publishing"
                              /\ Unregistered(c)' => Unregistered(c)
      PROVE  SInv'
  <2>1. HostInv'
    BY <1>1, Untouched DEF hostVars
  <2>2. ScanInv'
    BY <1>1, Untouched DEF hostVars
  <2>3. PublishInv'
    BY <1>1, OverlookedStays DEF PublishInv, hostVars
  <2>4. ClientsInv'
    BY <1>1, Untouched DEF ClientsInv, hostVars
  <2> QED
    BY <2>1, <2>2, <2>3, <2>4
<1>2. CASE Clients
  <2> DEFINE Fewer == \A d \in Conns : /\ at'[d] = "publishing" => at[d] = "publishing"
                                       /\ Unregistered(d)' => Unregistered(d)
  <2>1. ASSUME NEW c \in Conns, Arrive(c) \/ GiveUp(c) PROVE Fewer
    BY <2>1, Unpublished DEF Only, Unregistered
  <2>2. UNCHANGED at => Fewer
    BY DEF Unregistered
  <2>3. ASSUME NEW g, IssueGrant(g) \/ Lapse(g) PROVE UNCHANGED at
    BY <2>3 DEF IssueGrant, Lapse, Expire, RevokeGrant, threads
  <2>4. ASSUME Call \/ Reply \/ NewBridge PROVE UNCHANGED at
    BY <2>4 DEF Call, Reply, NewBridge, vars, threads
  <2> HIDE DEF Fewer
  <2>5. CASE BridgeMoves
    <3>1. ASSUME NEW g \in Grants, Issue(g) PROVE Fewer
      BY <2>2, <2>3, <3>1 DEF Issue
    <3>2. ASSUME NEW c \in Bridged, Send(c) PROVE Fewer
      BY <2>1, <3>2, BridgeAssumption DEF Send
    <3>3. Fewer
      BY <2>2, <2>4, <2>5, <3>1, <3>2 DEF BridgeMoves
    <3> QED
      BY <1>1, <1>2, <3>3 DEF Clients, Fewer
  <2>6. CASE ~BridgeMoves
    <3>1. Fewer
      BY <1>2, <2>1, <2>2, <2>3, <2>6 DEF Clients, Busy
    <3> QED
      BY <1>1, <1>2, <3>1 DEF Clients, Fewer
  <2> QED
    BY <2>5, <2>6
<1>3. CASE HostMoves
  <2>1. PICK x \in Pids : Moves(x)
    BY <1>3, Moving DEF HostMoves
  <2>2. HostInv' /\ ScanInv'
    BY <2>1, ScanHostStep DEF Moves, HostInv
  <2>3. UNCHANGED at
    BY <1>3 DEF HostMoves, vars, threads
  <2>4. PublishInv'
    BY <2>1, <2>3, OverlookedShrinks DEF PublishInv, HostInv
  <2>5. ClientsInv'
    <3> SUFFICES ASSUME NEW c \in Conns, Unregistered(c)' PROVE ClientOK(c)'
      BY DEF ClientsInv
    <3>1. Unregistered(c)
      BY <2>3 DEF Unregistered
    <3>2. Client[c] \in Pids => starts'[Client[c]] = starts[Client[c]]
      BY <1>3, <3>1 DEF HostMoves
    <3> QED
      BY <2>1, <3>1, <3>2, ClientStep DEF ClientsInv, HostInv
  <2> QED
    BY <2>2, <2>4, <2>5
<1>4. CASE Restarts
  <2>1. UNCHANGED <<host, starts>> /\ scan' = [c \in Conns |-> H!Resting]
    BY <1>4 DEF Restarts
  <2>2. HostInv'
    BY <2>1, Untouched
  <2>3. ASSUME NEW c \in Conns PROVE scan'[c] \in Knowledge /\ Knows(c, scan[c])'
    <3>1. scan'[c] \in Knowledge /\ Knows(c, scan'[c])
      BY <2>1, RestingStep
    <3> QED
      BY <2>1, <3>1, Unmoved
  <2>4. ScanInv'
    BY <2>1, <2>3 DEF ScanInv
  <2>5. PublishInv'
    BY <1>4 DEF Restarts, Restart, PublishInv, ThreadsOK
  <2>6. \A c \in Conns : Unregistered(c)' => Unregistered(c)
    BY <1>4 DEF Restarts, Restart, Unregistered, ThreadsOK
  <2>7. ClientsInv'
    BY <2>1, <2>6, Untouched DEF ClientsInv
  <2> QED
    BY <2>2, <2>4, <2>5, <2>7
<1>5. CASE UNCHANGED serviceVars
  BY <1>1, <1>5 DEF serviceVars, vars, threads, Unregistered
<1> QED
  BY <1>2, <1>3, <1>4, <1>5, WorksStep DEF ServiceNext, Busy

LEMMA ServiceInitially == ServiceInit => SInv
<1> SUFFICES ASSUME ServiceInit PROVE SInv
  OBVIOUS
<1>1. HostInv /\ ClientsInv
  BY HostInitially DEF ServiceInit, ClientsInv
<1>2. scan = [c \in Conns |-> H!Resting]
  BY DEF ServiceInit, H!HostInit
<1>3. \A c \in Conns : scan[c] \in Knowledge /\ Knows(c, scan[c])
  BY <1>1, <1>2, RestingStep
<1>4. ScanInv
  BY <1>2, <1>3 DEF ScanInv
<1>5. PublishInv
  BY DEF ServiceInit, Init, PublishInv
<1> QED
  BY <1>1, <1>4, <1>5 DEF SInv

(* The endpoint does nothing on its host that the bridge and the endpoint  *)
(* by themselves could not do: what was proved of them holds of the        *)
(* service, whatever the scans find.                                       *)
THEOREM ThmServiceIsBridged == ServiceSpec => BridgedSpec
<1>1. ServiceInit => Init /\ BridgeInit
  BY DEF ServiceInit
<1> QED
  BY <1>1, ServiceNextStep, PTL DEF ServiceSpec, BridgedSpec

(* A claim is only moved after a scan that passed no lasting work over, on *)
(* every host that is well formed, whatever processes come and go under    *)
(* the scan: the pid of an excluded process that is given to another one,  *)
(* a child that changes its parent, a client that ends, hide nothing that  *)
(* worked when the scan began.  The pids listed by a scan that still reads *)
(* parents are not given again, nor is a client's before its request is    *)
(* registered.                                                             *)
THEOREM ThmLastingWorkIsSeen == ServiceSpec => []LastingWorkIsSeen
<1>1. BridgedSpec => Spec
  BY BridgedStep, PTL DEF BridgedSpec, Spec
<1>2. IInv /\ SInv /\ [ServiceNext]_serviceVars => SInv'
  BY ServiceStep DEF IInv, Typed
<1>3. SInv => LastingWorkIsSeen
  <2> SUFFICES ASSUME SInv PROVE LastingWorkIsSeen
    OBVIOUS
  <2>1. host \in [Pids -> H!Process \cup {H!Absent}] /\ starts \in [Pids -> 0..MaxStarts]
    BY DEF SInv, HostInv, HostTyped
  <2>2. ASSUME NEW c \in Conns
        PROVE  /\ scan[c].stage \in {"rest", "parents", "audit", "look", "done"}
               /\ scan[c].left \cup scan[c].excluded \subseteq Pids
    BY DEF SInv, ScanInv, Knowledge, Stages
  <2> QED
    BY <2>1, <2>2 DEF SInv, PublishInv, LastingWorkIsSeen, H!HostTypeOK
<1> QED
  BY <1>1, <1>2, <1>3, ServiceInitially, ThmServiceIsBridged, Invariance, PTL DEF ServiceSpec
=============================================================================
