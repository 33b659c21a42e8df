--------------------- MODULE CampaignContinuation_proofs ---------------------
(***************************************************************************)
(* What a question binds, for every store of sessions, every repository    *)
(* with its worktrees and every grant.                                     *)
(*                                                                         *)
(* The invariant keeps little, the question just answered, and the state   *)
(* moves on only when it is forgotten.  The work is in what an answer can  *)
(* be, and the lemmas follow the code from its end: a session that is      *)
(* bound is a row of a capsule (OfAnswers), the row is of a session that   *)
(* the lookup matched for the question as the Environment went on with it  *)
(* (FromLookup, AskedOn), whose campaign is one of the project's           *)
(* (SelectedApart), so that foreign work there would have been found; the  *)
(* question is from the innermost marked directory (AskedFrom); and every  *)
(* filter on the way, the lookup's (FoundToo, Kept) and the selection's    *)
(* (RowsLeft, Decided), drops a session only for what it lacks against the *)
(* one that is kept (SelectedUnguessed).                                   *)
(***************************************************************************)
EXTENDS CampaignContinuation, SequenceTheorems, FiniteSetTheorems, NaturalsInduction,
        WellFoundedInduction, TLAPS

-----------------------------------------------------------------------------
(* The innermost of the marked directories around one.                     *)

LEMMA Greatest ==
    ASSUME NEW L \in Nat, NEW S, S \subseteq 1 .. L, S # {}
    PROVE  \E n \in S : \A m \in S : m <= n
<1> DEFINE R == {p \in Nat \X Nat : p[1] < p[2]}
           T == {L - n : n \in S}
<1>1. IsWellFoundedOn(R, Nat)
  BY NatLessThanWellFounded, Zenon DEF OpToRel
<1>2. T \subseteq Nat /\ T # {}
  <2>1. ASSUME NEW n \in S PROVE L - n \in Nat
    OBVIOUS
  <2> QED
    BY <2>1
<1> HIDE DEF R, T
<1>3. PICK x \in T : \A y \in T : <<y, x>> \notin R
  BY <1>1, <1>2, WFMin, Zenon
<1>4. PICK n \in S : x = L - n
  BY <1>3 DEF T
<1>5. ASSUME NEW m \in S PROVE m <= n
  <2>1. L - m \in T /\ L - m \in Nat /\ x \in Nat /\ m \in Nat /\ n \in Nat
    BY <1>2, <1>4 DEF T
  <2>2. <<L - m, x>> \in R <=> L - m < x
    BY <2>1 DEF R
  <2> QED
    BY <1>3, <1>4, <2>1, <2>2
<1> QED
  BY <1>5

LEMMA Paths ==
    ASSUME NEW d \in Dirs
    PROVE  /\ Path[d] \in Seq(Dirs) /\ Len(Path[d]) \in Nat \ {0}
           /\ ToSet(Path[d]) = {Path[d][n] : n \in 1 .. Len(Path[d])}
<1>1. Path[d] \in Seq(Dirs) /\ Path[d] # <<>>
  BY PathAssumption
<1>2. Len(Path[d]) \in Nat \ {0}
  BY <1>1, EmptySeq
<1> QED
  BY <1>1, <1>2 DEF ToSet

LEMMA OnPath ==
    ASSUME NEW d \in Dirs, NEW e \in ToSet(Path[d]) PROVE e \in Dirs
<1>1. PICK n \in 1 .. Len(Path[d]) : e = Path[d][n]
  BY Paths
<1> QED
  BY <1>1, Paths

(* What lies above one directory on a path is on the path of that one.     *)
LEMMA Above ==
    ASSUME NEW d \in Dirs, NEW n \in 1 .. Len(Path[d]), NEW m \in 1 .. n
    PROVE  Inside(Path[d][n], Path[d][m])
<1>1. Path[d] \in Seq(Dirs) /\ Len(Path[d]) \in Nat /\ Path[d][n] \in Dirs
  BY Paths
<1>2. Path[Path[d][n]] = SubSeq(Path[d], 1, n)
  BY PathAssumption
<1>3. Len(SubSeq(Path[d], 1, n)) = n /\ SubSeq(Path[d], 1, n)[m] = Path[d][m]
  BY <1>1
<1> QED
  BY <1>1, <1>2, <1>3, Paths DEF Inside

LEMMA InnermostMarked ==
    ASSUME NEW d \in Dirs, NEW site, Marked(d, site) # {}
    PROVE  /\ Innermost(Marked(d, site)) \in Marked(d, site)
           /\ \A above \in Marked(d, site) : Inside(Innermost(Marked(d, site)), above)
<1> DEFINE I == {n \in 1 .. Len(Path[d]) : site.marker[Path[d][n]] # "none"}
<1>1. Marked(d, site) = {Path[d][n] : n \in I}
  <2>1. ToSet(Path[d]) = {Path[d][n] : n \in 1 .. Len(Path[d])}
    BY Paths
  <2>2. \A e : e \in Marked(d, site) <=> \E n \in I : e = Path[d][n]
    BY <2>1 DEF Marked
  <2> QED
    BY <2>2
<1>2. I # {} /\ I \subseteq 1 .. Len(Path[d]) /\ Len(Path[d]) \in Nat
  BY <1>1, Paths
<1> HIDE DEF I
<1>3. PICK n \in I : \A m \in I : m <= n
  BY <1>2, Greatest
<1>4. \A m \in I : Inside(Path[d][n], Path[d][m])
  BY <1>2, <1>3, Above
<1>5. \E e \in Marked(d, site) : \A above \in Marked(d, site) : Inside(e, above)
  BY <1>1, <1>3, <1>4
<1> QED
  BY <1>5 DEF Innermost

(* What a question that is not refused is about.                           *)
LEMMA AskedFrom ==
    ASSUME NEW a \in Asks, CheckoutOf(a) # Refused
    PROVE  /\ CheckoutOf(a) \in Checkouts \cup {None}
           /\ \A d \in ToSet(Path[a.cwd]) : Place(a).marker[d] # "none" =>
                 CheckoutOf(a) \in Place(a).registered /\ Inside(CheckoutOf(a), d)
<1>1. CheckoutOf(a) = RegisteredCheckout(a.grant, a.cwd, Place(a))
  BY DEF CheckoutOf, Resolved
<1>2. a.cwd \in Dirs /\ a.site \in DOMAIN Sites
  BY AsksAssumption
<1> DEFINE marked == Marked(a.cwd, Place(a))
<1>3. \/ marked = {} /\ CheckoutOf(a) = None
      \/ /\ marked # {} /\ CheckoutOf(a) = Innermost(marked)
         /\ CheckoutOf(a) \in Place(a).registered
  BY <1>1 DEF RegisteredCheckout
<1>4. \A d \in ToSet(Path[a.cwd]) : Place(a).marker[d] # "none" => d \in marked
  BY DEF Marked
<1>5. Place(a).registered \subseteq Checkouts
  BY <1>2, SitesAssumption DEF Place
<1> HIDE DEF marked
<1>6. marked # {} => \A above \in marked : Inside(Innermost(marked), above)
  BY <1>2, InnermostMarked DEF marked
<1> QED
  BY <1>3, <1>4, <1>5, <1>6

LEMMA RepositoryIn ==
    ASSUME NEW a \in Asks
    PROVE  ProjectRepository(a.grant, a.cwd, Place(a)) \in Dirs \cup {Refused}
<1> DEFINE marked == Marked(a.cwd, Place(a))
           main == Place(a).main[Innermost(marked)]
<1>1. a.cwd \in Dirs /\ (a.grant.scope = "project" => a.grant.root \in Dirs)
  BY AsksAssumption
<1>2. ASSUME marked # {}, Inside(Innermost(marked), main) PROVE main \in Dirs
  <2>1. Innermost(marked) \in Dirs
    <3>1. Innermost(marked) \in Marked(a.cwd, Place(a))
      BY <1>1, <1>2, InnermostMarked
    <3>2. \A e \in Marked(a.cwd, Place(a)) : e \in ToSet(Path[a.cwd])
      BY DEF Marked
    <3> QED
      BY <1>1, <3>1, <3>2, OnPath
  <2> QED
    BY <1>2, <2>1, OnPath DEF Inside
<1> QED
  BY <1>1, <1>2 DEF ProjectRepository, Identified

LEMMA ContextAsked ==
    ASSUME NEW a \in Asks, ContextOf(a) # Refused PROVE ContextOf(a) \in Contexts \cup {None}
<1> DEFINE root == ProjectRepository(a.grant, a.cwd, Place(a))
           checkout == RegisteredCheckout(a.grant, a.cwd, Place(a))
           dir == IF checkout = None THEN root ELSE checkout
           file == IF Place(a).own[dir] # None THEN Place(a).own[dir] ELSE Place(a).common[dir]
<1>1. ContextOf(a) = DefinitionOf(a.grant, a.cwd, Place(a)) /\ CheckoutOf(a) = checkout
  BY DEF ContextOf, CheckoutOf, Resolved
<1>2. a.cwd \in Dirs /\ a.site \in DOMAIN Sites
  BY AsksAssumption
<1>3. root # Refused /\ checkout # Refused
  BY <1>1 DEF DefinitionOf
<1>4. root \in Dirs
  BY <1>3, RepositoryIn
<1>5. checkout # None => checkout \in Dirs
  <2>1. ASSUME checkout # None
        PROVE  /\ Marked(a.cwd, Place(a)) # {}
               /\ checkout = Innermost(Marked(a.cwd, Place(a)))
    BY <1>3, <2>1 DEF RegisteredCheckout
  <2>2. \A e \in Marked(a.cwd, Place(a)) : e \in ToSet(Path[a.cwd])
    BY DEF Marked
  <2>3. checkout # None => checkout \in Marked(a.cwd, Place(a))
    BY <1>2, <2>1, InnermostMarked
  <2> HIDE DEF checkout
  <2> QED
    BY <1>2, <2>2, <2>3, OnPath
<1>6. ContextOf(a) = None \/ (file \notin {None, Refused} /\ ContextOf(a) = file.id)
  BY <1>1, <1>3 DEF DefinitionOf
<1>7. dir \in Dirs
  BY <1>4, <1>5
<1> HIDE DEF dir
<1> QED
  BY <1>2, <1>6, <1>7, SitesAssumption DEF Place

-----------------------------------------------------------------------------
(* The lookup: where the capsules that it returns come from.               *)

Questions == [campaign : Campaigns \cup {None}, task : BOOLEAN, session : Sessions \cup {None},
              checkout : Checkouts \cup {None}, context : Contexts \cup {None}, cwd : Dirs,
              site : DOMAIN Sites]

LEMMA Stored ==
    ASSUME TypeOK, NEW s \in Sessions, Present(s)
    PROVE  /\ store[s] \in Snapshots
           /\ store[s].campaign \in Campaigns /\ store[s].context \in Contexts
           /\ store[s].checkout \in Checkouts \cup {None}
           /\ store[s].grant \in Checkouts \cup {None}
<1>1. store[s] \in Snapshots
  BY DEF TypeOK, Present
<1> QED
  BY <1>1, SnapshotsAssumption

LEMMA AmongDuplicates ==
    ASSUME NEW S, NEW checkout, NEW D \in AuthoritativeDuplicate(S, checkout) PROVE D \subseteq S
  BY DEF AuthoritativeDuplicate

LEMMA AmongMatching ==
    ASSUME NEW S, NEW q, NEW D \in Deduplicated(S, q) PROVE D \subseteq S
  BY AmongDuplicates DEF Deduplicated

LEMMA FromCapsules ==
    ASSUME NEW campaigns, NEW q, NEW task, NEW caps \in Capsules(campaigns, q, task),
           NEW cap \in caps
    PROVE  \E c \in campaigns : \E S \in SUBSET Matching(c, q, task) :
               /\ cap = Capsule(c, S, q, task)
               /\ S \in Deduplicated(Matching(c, q, task), q)
<1> DEFINE found == {c \in campaigns : Matching(c, q, task) # {}}
           pick == [c \in found |-> Deduplicated(Matching(c, q, task), q)]
<1>1. PICK f \in {g \in [found -> UNION {pick[c] : c \in found}] :
                      \A c \in found : g[c] \in pick[c]} :
           caps = {Capsule(c, f[c], q, task) : c \in found}
  BY DEF Capsules
<1>2. PICK c \in found : cap = Capsule(c, f[c], q, task)
  BY <1>1
<1>3. f[c] \in Deduplicated(Matching(c, q, task), q)
  BY <1>1
<1> QED
  BY <1>2, <1>3, AmongMatching

(* The question as the Environment goes on with it.                        *)
LEMMA AskedOn ==
    ASSUME TypeOK, NEW q \in Questions, ~ExactRefused(q),
           NEW w \in Relocated(Exactly(Narrowed(q)))
    PROVE  /\ w \in Questions /\ w.task = q.task /\ w.session = q.session
           /\ w.campaign = IF q.session = None THEN q.campaign ELSE store[q.session].campaign
           /\ q.campaign \in {None, w.campaign}
           /\ q.session # None => w.campaign # None
           /\ w.context = IF q.checkout = None THEN None ELSE q.context
           /\ \/ w.checkout = q.checkout
              \/ q.checkout = Root /\ w.checkout \in Checkouts /\ w.campaign # None
<1> DEFINE n == Narrowed(q)
           e == Exactly(n)
           R == {store[s].checkout : s \in {t \in Sessions :
                    /\ Mine(t) /\ Live(t) /\ store[t].campaign = e.campaign
                    /\ store[t].context = e.context}} \ {None}
<1>1. /\ n \in Questions /\ n.campaign = q.campaign /\ n.task = q.task
      /\ n.session = q.session /\ n.checkout = q.checkout
      /\ n.context = IF q.checkout = None THEN None ELSE q.context
  BY DEF Questions, Narrowed
<1>2. q.session # None => /\ store[q.session].campaign \in Campaigns
                          /\ q.campaign \in {None, store[q.session].campaign}
  BY Stored DEF ExactRefused, Mine, Questions
<1> HIDE DEF n
<1>3. /\ e \in Questions /\ e.task = n.task /\ e.session = n.session
      /\ e.checkout = n.checkout /\ e.context = n.context
      /\ e.campaign = IF q.session = None THEN q.campaign ELSE store[q.session].campaign
  BY <1>1, <1>2 DEF Exactly, Questions
<1>4. w \in IF \/ e.campaign = None \/ e.context \notin Standard
               \/ e.checkout # Root \/ R = {} THEN {e}
            ELSE IF Cardinality(R) > 1 THEN {} ELSE {[e EXCEPT !.checkout = c] : c \in R}
  BY DEF Relocated, n
<1>5. R \subseteq Checkouts
  BY Stored DEF Mine
<1> HIDE DEF e, R
<1>6. \/ w = e
      \/ /\ e.campaign # None /\ e.checkout = Root
         /\ \E c \in R : w = [e EXCEPT !.checkout = c]
  BY <1>4
<1>7. /\ w \in Questions /\ w.task = e.task /\ w.session = e.session /\ w.campaign = e.campaign
      /\ w.context = e.context
      /\ w.checkout = e.checkout \/ (e.checkout = Root /\ w.checkout \in Checkouts
                                       /\ w.campaign # None)
  BY <1>3, <1>5, <1>6 DEF Questions
<1> QED
  BY <1>1, <1>2, <1>3, <1>7, NamesAssumption

(* A task comes down to one of the sessions it is bound to, in a campaign  *)
(* of the repository or with a durable fact of its own.                    *)
Tied(t, w) ==
    store[t].campaign \in ProjectCampaigns(w) \/ References(t, Loose(w, store[t].context))

LEMMA FromTask ==
    ASSUME TypeOK, NEW w, NEW caps \in TaskLookup(w), NEW cap \in caps
    PROVE  \E t \in Sessions :
               /\ \E c \in Contexts : binding[c] = t
               /\ Live(t) /\ Tied(t, w)
               /\ caps \in Capsules({store[t].campaign}, w, t)
<1>1. PICK contexts \in ContextsRead(w) :
          caps \in IF TaskRefused(w, contexts) THEN {{}}
                  ELSE UNION {IF Cardinality(S) # 1 THEN {{}}
                              ELSE UNION {IF ~Live(t) THEN {{}}
                                          ELSE Capsules({store[t].campaign}, w, t) : t \in S} :
                                  S \in TaskChoices(w, contexts)}
  BY DEF TaskLookup
<1>2. PICK S \in TaskChoices(w, contexts) :
          caps \in IF Cardinality(S) # 1 THEN {{}}
                  ELSE UNION {IF ~Live(t) THEN {{}}
                              ELSE Capsules({store[t].campaign}, w, t) : t \in S}
  BY <1>1
<1>3. PICK t \in S : Live(t) /\ caps \in Capsules({store[t].campaign}, w, t)
  BY <1>2
<1>4. S \subseteq ProjectBindings(w, contexts)
  BY <1>2, AmongDuplicates DEF TaskChoices
<1>5. contexts \subseteq Contexts
  <2>1. \A s \in Sessions : Mine(s) => store[s].context \in Contexts
    BY Stored DEF Mine
  <2>2. \A x : \A s \in Readers(x) : s \in Sessions /\ Mine(s)
    BY DEF Readers, Listed
  <2> QED
    BY <1>1, <2>1, <2>2 DEF ContextsRead
<1>6. t \in TaskTargets(w, contexts) /\ Tied(t, w)
  BY <1>3, <1>4 DEF ProjectBindings, Tied
<1>7. PICK c \in contexts : t = binding[c] /\ t # None
  BY <1>6 DEF TaskTargets
<1>8. t \in Sessions
  BY <1>5, <1>7 DEF TypeOK
<1> QED
  BY <1>5, <1>6, <1>7, <1>8, <1>3

(* The sessions S of one campaign that a capsule shows.                    *)
Sourced(cap, w, S) ==
    /\ cap = Capsule(cap.campaign, S, w, cap.task)
    /\ S \subseteq Matching(cap.campaign, w, cap.task)
    /\ S \in Deduplicated(Matching(cap.campaign, w, cap.task), w)
    /\ \/ /\ ~w.task /\ cap.task = None
          /\ cap.campaign \in IF w.campaign # None THEN {w.campaign} ELSE ProjectCampaigns(w)
       \/ /\ w.task /\ cap.task \in Sessions /\ Tied(cap.task, w)
          /\ cap.campaign = store[cap.task].campaign
          /\ \E c \in Contexts : binding[c] = cap.task

LEMMA FromLookup ==
    ASSUME TypeOK, NEW q \in Questions, NEW caps \in Lookup(q), NEW cap \in caps
    PROVE  /\ ~ExactRefused(q)
           /\ \E w \in Relocated(Exactly(Narrowed(q))) :
                 ~ForeignOwner(w) /\ \E S : Sourced(cap, w, S)
<1>1. ~ExactRefused(q)
  BY DEF Lookup
<1>2. PICK w \in Relocated(Exactly(Narrowed(q))) :
          /\ ~ForeignOwner(w)
          /\ \/ w.task /\ caps \in TaskLookup(w)
             \/ /\ ~w.task
                /\ caps \in Capsules(IF w.campaign # None THEN {w.campaign}
                                     ELSE ProjectCampaigns(w), w, None)
  BY <1>1 DEF Lookup
<1>3. ASSUME NEW c, NEW S, NEW task, cap = Capsule(c, S, w, task)
      PROVE  cap.campaign = c /\ cap.task = task
  BY <1>3 DEF Capsule
<1>4. CASE w.task /\ caps \in TaskLookup(w)
  <2>1. PICK t \in Sessions : /\ \E c \in Contexts : binding[c] = t
                              /\ Live(t) /\ Tied(t, w)
                              /\ caps \in Capsules({store[t].campaign}, w, t)
    BY <1>4, FromTask
  <2>2. PICK S \in SUBSET Matching(store[t].campaign, w, t) :
            /\ cap = Capsule(store[t].campaign, S, w, t)
            /\ S \in Deduplicated(Matching(store[t].campaign, w, t), w)
    BY <2>1, FromCapsules
  <2>3. cap.campaign = store[t].campaign /\ cap.task = t
    BY <1>3, <2>2
  <2>4. Sourced(cap, w, S)
    BY <1>4, <2>1, <2>2, <2>3 DEF Sourced
  <2> QED
    BY <1>1, <1>2, <2>4
<1>5. CASE ~w.task
  <2> DEFINE C == IF w.campaign # None THEN {w.campaign} ELSE ProjectCampaigns(w)
  <2>a. caps \in Capsules(C, w, None)
    BY <1>2, <1>5
  <2>1. PICK c \in C : \E S \in SUBSET Matching(c, w, None) :
            cap = Capsule(c, S, w, None) /\ S \in Deduplicated(Matching(c, w, None), w)
    <3> HIDE DEF C
    <3> QED
      BY <2>a, FromCapsules
  <2>2. PICK S \in SUBSET Matching(c, w, None) :
            cap = Capsule(c, S, w, None) /\ S \in Deduplicated(Matching(c, w, None), w)
    BY <2>1
  <2>3. cap.campaign = c /\ cap.task = None
    BY <1>3, <2>2
  <2>4. Sourced(cap, w, S)
    BY <1>5, <2>1, <2>2, <2>3 DEF Sourced
  <2> QED
    BY <1>1, <1>2, <2>4
<1> QED
  BY <1>2, <1>4, <1>5

-----------------------------------------------------------------------------
(* The selection: a session that is selected is one of a capsule's rows.   *)

(* Where the row was found, as the question asks for it.                   *)
Found(r, q, registered) ==
    \/ q.checkout = None \/ RowMatchesCheckout(r, q.checkout)
    \/ q.checkout = Root /\ r.checkout \in registered

LEMMA OfSelectRow ==
    ASSUME NEW cap, NEW q, NEW registered, NEW a, a = SelectRow(cap, q, registered)
    PROVE  /\ a.cap = cap
           /\ \/ /\ a.session = None
                 /\ a.status = "ready" => \E r \in cap.rows : ~Selectable(r)
              \/ \E r \in cap.rows : /\ a.session = r.session /\ Selectable(r)
                                     /\ Found(r, q, registered)
<1> DEFINE all == CheckoutRows(cap, q, registered)
           good == {r \in all : Selectable(r)}
           authoritative == IF Cardinality(good) > 1 /\ q.checkout # None
                            THEN UniqueAuthoritative(good, q) ELSE {}
<1>1. all \subseteq cap.rows /\ \A r \in all : Found(r, q, registered)
  BY DEF CheckoutRows, ExactContextRows, Found, AtWorktree
<1>2. authoritative \subseteq good
  BY DEF UniqueAuthoritative
<1>3. ASSUME NEW status PROVE Unselected(cap, status).cap = cap
                              /\ Unselected(cap, status).session = None
                              /\ Unselected(cap, status).status = status
  BY DEF Unselected
<1>4. ASSUME NEW r, NEW basis PROVE Selected(cap, r, basis).cap = cap
                                    /\ Selected(cap, r, basis).session = r.session
  BY DEF Selected
<1>5. Unfit(cap).cap = cap /\ Unfit(cap).session = None /\ Unfit(cap).status # "ready"
  BY DEF Unfit, Unselected
<1>6. \A r : ~r.linked => ~Selectable(r)
  BY DEF Selectable
<1>7. \/ a = Unselected(cap, cap.status) /\ \E r \in all : ~r.linked
      \/ a = Unfit(cap)
      \/ \E r \in good, basis \in {"duplicate", "link", "context"} :
            a = Selected(cap, r, basis)
  <2> HIDE DEF all
  <2>1. SelectRow(cap, q, registered) =
        IF good = {} THEN IF \E r \in all : Cardinality(all) = 1 /\ ~r.linked
                          THEN Unselected(cap, cap.status) ELSE Unfit(cap)
        ELSE IF authoritative # {}
             THEN Selected(cap, CHOOSE r \in authoritative : TRUE, "duplicate")
        ELSE IF Cardinality(good) > 1 THEN Unfit(cap)
        ELSE Selected(cap, CHOOSE r \in good : TRUE,
                      IF q.session # None THEN "link" ELSE "context")
    BY DEF SelectRow, all
  <2> HIDE DEF good, authoritative
  <2> QED
    BY <1>2, <2>1
<1> QED
  BY <1>1, <1>3, <1>4, <1>5, <1>6, <1>7

LEMMA OfSelectContext ==
    ASSUME NEW cap, NEW q, NEW registered, NEW a, a = SelectContext(cap, q, registered)
    PROVE  /\ a.cap = cap
           /\ \/ /\ a.session = None
                 /\ \/ a.status # "ready" \/ q.checkout = None \/ cap.truncated
                    \/ \E r \in cap.rows : ~Selectable(r)
              \/ \E r \in cap.rows : /\ a.session = r.session /\ Selectable(r)
                                     /\ Found(r, q, registered)
<1>1. ASSUME NEW status PROVE Unselected(cap, status).cap = cap
                              /\ Unselected(cap, status).session = None
                              /\ Unselected(cap, status).status = status
  BY DEF Unselected
<1>2. \/ a = Unselected(cap, "mismatch")
      \/ /\ q.checkout = None \/ cap.status = "reconciliation-required" \/ cap.truncated
         /\ a = Unselected(cap, cap.status)
      \/ a = SelectRow(cap, q, registered)
  BY DEF SelectContext
<1> QED
  BY <1>1, <1>2, OfSelectRow

LEMMA OfAnswers ==
    ASSUME NEW q, NEW answers \in AnswerSets(q), NEW a \in answers, a.session # None,
           \A caps \in Lookup(q) : \A cap \in caps : \A r \in cap.rows : r.session # None
    PROVE  \E caps \in Lookup(q), registered \in SUBSET (Worktrees \cap Sites[q.site].registered) :
               /\ a.cap \in caps
               /\ \E r \in a.cap.rows : /\ a.session = r.session /\ Selectable(r)
                                        /\ Found(r, q, registered)
<1>1. PICK caps \in Lookup(q), registered \in SUBSET (Worktrees \cap Sites[q.site].registered) :
          answers = {ExplicitLink(x, q) : x \in SelectCampaign(caps, q, registered)}
  BY DEF AnswerSets
<1>2. PICK x \in SelectCampaign(caps, q, registered) : a = ExplicitLink(x, q)
  BY <1>1
<1>3. PICK cap \in caps : x = SelectContext(cap, q, registered)
  BY <1>2 DEF SelectCampaign
<1>4. CASE a = x
  BY <1>3, <1>4, OfSelectContext
<1>5. CASE a # x
  <2>1. /\ x.session = None /\ x.status = "ready" /\ ~x.cap.truncated
        /\ \A r \in x.cap.rows : Selectable(r)
        /\ Cardinality(x.cap.rows) = 1
        /\ a = Selected(x.cap, CHOOSE r \in x.cap.rows : TRUE, "link")
    BY <1>2, <1>5 DEF ExplicitLink
  <2>2. x.cap = cap
    BY <1>3, OfSelectContext
  <2>3. q.checkout = None
    BY <1>1, <1>3, <2>1, <2>2, OfSelectContext
  <2>4. x.cap.rows # {}
    <3>1. \A R : R = {} => Cardinality(R) = 0
      BY FS_EmptySet
    <3>2. Cardinality(x.cap.rows) # 0
      BY <2>1
    <3> QED
      BY <3>1, <3>2, Zenon
  <2>5. PICK r \in x.cap.rows : r = CHOOSE y \in x.cap.rows : TRUE
    BY <2>4
  <2>6. a.cap = x.cap /\ a.session = r.session
    BY <2>1, <2>5 DEF Selected
  <2> QED
    BY <1>1, <1>3, <2>1, <2>2, <2>3, <2>5, <2>6 DEF Found
<1> QED
  BY <1>4, <1>5

(* The sessions a capsule may show are the caller's, live, of its campaign *)
(* and of this checkout.                                                   *)
LEMMA Matched ==
    ASSUME NEW c, NEW w, NEW task, NEW s \in Matching(c, w, task)
    PROVE  /\ s \in Surveyed(w) /\ Mine(s) /\ store[s].campaign = c
           /\ task \in {None, s} /\ w.session \in {None, s}
           /\ Matches(s, IF task = None THEN w ELSE Loose(w, store[task].context))
           /\ task # None /\ w.session # None =>
                 References(s, Loose(w, store[task].context))
  BY DEF Matching

LEMMA OfRows ==
    ASSUME TypeOK, NEW q \in Questions, NEW caps \in Lookup(q), NEW cap \in caps,
           NEW r \in cap.rows
    PROVE  r.session # None
<1>1. PICK w \in Relocated(Exactly(Narrowed(q))) : \E S : Sourced(cap, w, S)
  BY FromLookup
<1>2. PICK S : Sourced(cap, w, S)
  BY <1>1
<1>3. cap.rows = {Row(s, w) : s \in S} /\ S \subseteq Matching(cap.campaign, w, cap.task)
  BY <1>2 DEF Sourced, Capsule
<1>4. PICK s \in S : r = Row(s, w)
  BY <1>3
<1>5. s \in Sessions /\ r.session = s
  BY <1>3, <1>4 DEF Matching, Surveyed, Listed, Row
<1> QED
  BY <1>5, NamesAssumption

(* What is selected, and as what.                                          *)
LEMMA Chosen ==
    ASSUME TypeOK, NEW q \in Questions, NEW answers \in AnswerSets(q), NEW a \in answers,
           a.session # None
    PROVE  /\ ~ExactRefused(q)
           /\ \E w \in Relocated(Exactly(Narrowed(q))) :
                 /\ ~ForeignOwner(w)
                 /\ \E S : Sourced(a.cap, w, S) /\ a.session \in S
                 /\ Selectable(Row(a.session, w))
                 /\ Found(Row(a.session, w), q, Worktrees)
<1>0. \A caps \in Lookup(q) : \A cap \in caps : \A r \in cap.rows : r.session # None
  BY OfRows
<1>1. PICK caps \in Lookup(q), registered \in SUBSET (Worktrees \cap Sites[q.site].registered) :
          /\ a.cap \in caps
          /\ \E r \in a.cap.rows : /\ a.session = r.session /\ Selectable(r)
                                   /\ Found(r, q, registered)
  BY <1>0, OfAnswers
<1>2. PICK r \in a.cap.rows : /\ a.session = r.session /\ Selectable(r)
                              /\ Found(r, q, registered)
  BY <1>1
<1>3. /\ ~ExactRefused(q)
      /\ \E w \in Relocated(Exactly(Narrowed(q))) :
            ~ForeignOwner(w) /\ \E S : Sourced(a.cap, w, S)
  BY <1>1, FromLookup
<1>4. PICK w \in Relocated(Exactly(Narrowed(q))) :
          ~ForeignOwner(w) /\ \E S : Sourced(a.cap, w, S)
  BY <1>3
<1>5. PICK S : Sourced(a.cap, w, S)
  BY <1>4
<1>6. a.cap.rows = {Row(s, w) : s \in S}
  BY <1>5 DEF Sourced, Capsule
<1>7. PICK s \in S : r = Row(s, w)
  BY <1>2, <1>6
<1>8. a.session = s
  BY <1>2, <1>7 DEF Row
<1>9. Found(r, q, Worktrees)
  BY <1>1, <1>2 DEF Found
<1> QED
  BY <1>2, <1>3, <1>4, <1>5, <1>7, <1>8, <1>9

(* The one of the rows at the checkout that may be selected or, of several,*)
(* the one that decides.                                                   *)
Good(cap, q, registered) == {r \in CheckoutRows(cap, q, registered) : Selectable(r)}

Preferred(s, cap, q, registered) ==
    \E r \in Good(cap, q, registered) :
        /\ r.session = s
        /\ \/ ~(Cardinality(Good(cap, q, registered)) > 1)
           \/ r \in UniqueAuthoritative(Good(cap, q, registered), q)

LEMMA OfSelection ==
    ASSUME NEW cap, NEW q, NEW registered, NEW a, a = SelectContext(cap, q, registered),
           a.session # None, q.checkout # None
    PROVE  Preferred(a.session, cap, q, registered)
<1> DEFINE good == Good(cap, q, registered)
           all == CheckoutRows(cap, q, registered)
           authoritative == IF Cardinality(good) > 1 /\ q.checkout # None
                            THEN UniqueAuthoritative(good, q) ELSE {}
<1>1. /\ \A status : Unselected(cap, status).session = None
      /\ Unfit(cap).session = None
      /\ \A r, basis : Selected(cap, r, basis).session = r.session
  BY DEF Unselected, Unfit, Selected
<1>2. a = SelectRow(cap, q, registered)
  BY <1>1 DEF SelectContext
<1>3. a = IF good = {} THEN IF \E r \in all : Cardinality(all) = 1 /\ ~r.linked
                            THEN Unselected(cap, cap.status) ELSE Unfit(cap)
          ELSE IF authoritative # {}
               THEN Selected(cap, CHOOSE r \in authoritative : TRUE, "duplicate")
          ELSE IF Cardinality(good) > 1 THEN Unfit(cap)
          ELSE Selected(cap, CHOOSE r \in good : TRUE,
                        IF q.session # None THEN "link" ELSE "context")
  BY <1>2 DEF SelectRow, Good
<1>4. authoritative \subseteq good
  BY DEF UniqueAuthoritative
<1>5. authoritative # {} => Cardinality(good) > 1 /\ authoritative = UniqueAuthoritative(good, q)
  OBVIOUS
<1> HIDE DEF good, all, authoritative
<1>6. \/ \E r \in authoritative : r.session = a.session
      \/ ~(Cardinality(good) > 1) /\ \E r \in good : r.session = a.session
  <2>1. good # {}
    BY <1>1, <1>3
  <2>2. CASE authoritative # {}
    <3>1. a = Selected(cap, CHOOSE r \in authoritative : TRUE, "duplicate")
      BY <1>3, <2>1, <2>2
    <3>2. (CHOOSE r \in authoritative : TRUE) \in authoritative
      BY <2>2
    <3>3. PICK r \in authoritative : r = CHOOSE y \in authoritative : TRUE
      BY <3>2
    <3>4. a.session = r.session
      BY <3>1, <3>3 DEF Selected
    <3> QED
      BY <3>3, <3>4
  <2>3. CASE authoritative = {}
    <3>1. ~(Cardinality(good) > 1)
      BY <1>1, <1>3, <2>1, <2>3
    <3>2. a = Selected(cap, CHOOSE r \in good : TRUE,
                       IF q.session # None THEN "link" ELSE "context")
      BY <1>3, <2>1, <2>3, <3>1
    <3>3. PICK r \in good : r = CHOOSE y \in good : TRUE
      BY <2>1
    <3>4. PICK basis : a = Selected(cap, r, basis)
      BY <3>2, <3>3
    <3>5. a.session = r.session
      BY <1>1, <3>4
    <3> QED
      BY <3>1, <3>3, <3>5
  <2> QED
    BY <2>2, <2>3
<1>7. \E r \in good : /\ r.session = a.session
                      /\ ~(Cardinality(good) > 1) \/ r \in UniqueAuthoritative(good, q)
  BY <1>4, <1>5, <1>6
<1> QED
  BY <1>7 DEF Preferred, good

LEMMA ChosenAmong ==
    ASSUME TypeOK, NEW q \in Questions, NEW answers \in AnswerSets(q), NEW a \in answers,
           a.session # None, q.checkout # None
    PROVE  /\ ~ExactRefused(q)
           /\ \E w \in Relocated(Exactly(Narrowed(q))), registered \in SUBSET Worktrees :
                 \E S : Sourced(a.cap, w, S) /\ Preferred(a.session, a.cap, q, registered)
<1>1. PICK caps \in Lookup(q), registered \in SUBSET (Worktrees \cap Sites[q.site].registered) :
          answers = {ExplicitLink(x, q) : x \in SelectCampaign(caps, q, registered)}
  BY DEF AnswerSets
<1>2. PICK x \in SelectCampaign(caps, q, registered) : a = ExplicitLink(x, q)
  BY <1>1
<1>3. PICK cap \in caps : x = SelectContext(cap, q, registered)
  BY <1>2 DEF SelectCampaign
<1>4. x.cap = cap /\ \A r \in cap.rows : r.session # None
  BY <1>1, <1>3, OfSelectContext, OfRows
<1>5. a = x
  <2>1. SUFFICES ASSUME a # x PROVE FALSE
    OBVIOUS
  <2>2. /\ x.session = None /\ x.status = "ready" /\ ~x.cap.truncated
        /\ \A r \in x.cap.rows : Selectable(r)
    BY <1>2, <2>1 DEF ExplicitLink
  <2> QED
    BY <1>3, <1>4, <2>2, OfSelectContext
<1>6. Preferred(a.session, cap, q, registered) /\ a.cap = cap
  BY <1>3, <1>4, <1>5, OfSelection
<1>7. /\ ~ExactRefused(q)
      /\ \E w \in Relocated(Exactly(Narrowed(q))) : \E S : Sourced(cap, w, S)
  BY <1>1, <1>3, FromLookup
<1> QED
  BY <1>1, <1>6, <1>7

-----------------------------------------------------------------------------
(* The properties of what a question may bind.                             *)

Facts(s, q) ==
    /\ Mine(s) /\ store[s].lifecycle = "active"
    /\ ReferenceBasis(s) \/ store[s].grant # None
    /\ q.campaign \in {None, store[s].campaign}
    /\ q.session \in {None, s}
    /\ q.checkout = None \/ \E found \in {q.checkout} \cup (IF q.checkout = Root THEN Worktrees
                                                           ELSE {}) : WorksAt(s, found)
    /\ q.task => \E c \in Contexts : binding[c] = s

LEMMA SelectedFacts ==
    ASSUME TypeOK, NEW q \in Questions, NEW answers \in AnswerSets(q), NEW a \in answers,
           a.session # None, a.cap.task \in {None, a.session}
    PROVE  a.session \in Sessions /\ Facts(a.session, q)
<1> DEFINE s == a.session
<1>1. PICK w \in Relocated(Exactly(Narrowed(q))) :
          /\ ~ForeignOwner(w)
          /\ \E S : Sourced(a.cap, w, S) /\ s \in S
          /\ Selectable(Row(s, w))
          /\ Found(Row(s, w), q, Worktrees)
  BY Chosen
<1>2. /\ ~ExactRefused(q)
      /\ w.task = q.task /\ w.session = q.session
      /\ q.campaign \in {None, w.campaign}
      /\ w.checkout = q.checkout \/ (q.checkout = Root /\ w.checkout \in Checkouts)
  <2>1. ~ExactRefused(q)
    BY Chosen
  <2> QED
    BY <2>1, AskedOn
<1>3. PICK S : Sourced(a.cap, w, S) /\ s \in S
  BY <1>1
<1>4. s \in Matching(a.cap.campaign, w, a.cap.task)
  BY <1>3 DEF Sourced
<1>5. /\ s \in Surveyed(w) /\ Mine(s) /\ store[s].campaign = a.cap.campaign
      /\ w.session \in {None, s}
  BY <1>4, Matched
<1>6. s \in Sessions /\ w.campaign \in {None, store[s].campaign}
  BY <1>5 DEF Surveyed, Listed
<1>7. /\ store[s].lifecycle = "active"
      /\ ReferenceBasis(s) \/ ScopeGrantMatches(s, w.checkout)
  BY <1>1 DEF Selectable, Row
<1>8. ReferenceBasis(s) \/ store[s].grant # None
  BY <1>7 DEF ScopeGrantMatches
<1>9. q.checkout = None \/ \E found \in {q.checkout} \cup (IF q.checkout = Root THEN Worktrees
                                                           ELSE {}) : WorksAt(s, found)
  <2> DEFINE r == Row(s, w)
  <2>1. /\ r.claims = store[s].claims
        /\ r.checkout = store[s].checkout \/ r.checkout = store[s].grant
    BY DEF Row, ShownCheckout, ScopeGrantMatches
  <2>2. \A c : RowMatchesCheckout(r, c) => WorksAt(s, c)
    BY <2>1 DEF RowMatchesCheckout, WorksAt
  <2>3. WorksAt(s, r.checkout)
    BY <2>1 DEF WorksAt
  <2> HIDE DEF r
  <2> QED
    BY <1>1, <2>2, <2>3 DEF Found, r
<1>10. q.task => \E c \in Contexts : binding[c] = s
  <2>1. q.task => a.cap.task \in Sessions /\ \E c \in Contexts : binding[c] = a.cap.task
    BY <1>2, <1>3 DEF Sourced
  <2> QED
    BY <2>1, NamesAssumption
<1>11. q.campaign \in {None, store[s].campaign} /\ q.session \in {None, s}
  BY <1>2, <1>5, <1>6
<1> QED
  BY <1>5, <1>6, <1>7, <1>8, <1>9, <1>10, <1>11 DEF Facts

(* What the lookup does not answer is refused for a reason: other work.    *)
Apart(s, q) ==
    \A f \in Sessions : Live(f) /\ ~Mine(f) =>
        /\ store[f].campaign # store[s].campaign
        /\ q.campaign = None /\ q.session = None => ~ClaimOverlaps(store[f].claims, q.checkout)

(* A session is of a campaign of the project when the question, or the     *)
(* context its binding adds, leads to it.                                  *)
LEMMA InProject ==
    ASSUME NEW w, NEW s \in Surveyed(w), Mine(s), References(s, w), Matches(s, w)
    PROVE  store[s].campaign \in ProjectCampaigns(w)
  BY DEF ProjectCampaigns, Surveyed, Listed

LEMMA NoForeign ==
    ASSUME NEW w, ~ForeignOwner(w), NEW s \in Sessions,
           w.campaign \in {None, store[s].campaign},
           w.campaign = None => store[s].campaign \in ProjectCampaigns(w),
           w.session # None => w.campaign # None,
           NEW f \in Sessions, Live(f), ~Mine(f)
    PROVE  /\ store[f].campaign # store[s].campaign
           /\ w.campaign = None => ~ClaimOverlaps(store[f].claims, w.checkout)
<1>1. CASE w.campaign # None
  <2>1. store[f].campaign = w.campaign => f \in Surveyed(w)
    BY DEF Surveyed, Listed, Live
  <2> QED
    BY <1>1, <2>1 DEF ForeignOwner
<1>2. CASE w.campaign = None
  <2>1. f \in Surveyed(w)
    BY <1>2 DEF Surveyed, Listed, Live
  <2> QED
    BY <1>2, <2>1 DEF ForeignOwner
<1> QED
  BY <1>1, <1>2

LEMMA SelectedApart ==
    ASSUME TypeOK, NEW q \in Questions, NEW answers \in AnswerSets(q), NEW a \in answers,
           a.session # None, a.cap.task \in {None, a.session},
           ~(q.task /\ q.campaign = None /\ q.context = None)
    PROVE  Apart(a.session, q)
<1> DEFINE s == a.session
<1>1. PICK w \in Relocated(Exactly(Narrowed(q))) :
          /\ ~ForeignOwner(w)
          /\ \E S : Sourced(a.cap, w, S) /\ s \in S
          /\ Selectable(Row(s, w))
          /\ Found(Row(s, w), q, Worktrees)
  BY Chosen
<1>2. /\ w \in Questions /\ w.task = q.task /\ w.session = q.session
      /\ q.campaign \in {None, w.campaign}
      /\ w.campaign = IF q.session = None THEN q.campaign ELSE store[q.session].campaign
      /\ w.session # None => w.campaign # None
      /\ w.context = IF q.checkout = None THEN None ELSE q.context
      /\ w.checkout = q.checkout \/ (q.checkout = Root /\ w.campaign # None)
  <2>1. ~ExactRefused(q)
    BY Chosen
  <2> QED
    BY <2>1, AskedOn
<1>3. PICK S : Sourced(a.cap, w, S) /\ s \in S
  BY <1>1
<1>4. s \in Matching(a.cap.campaign, w, a.cap.task)
  BY <1>3 DEF Sourced
<1>5. /\ s \in Surveyed(w) /\ Mine(s) /\ store[s].campaign = a.cap.campaign
      /\ Matches(s, IF a.cap.task = None THEN w ELSE Loose(w, store[a.cap.task].context))
  BY <1>4, Matched
<1>6. s \in Sessions /\ w.campaign \in {None, store[s].campaign}
  BY <1>5 DEF Surveyed, Listed
<1>7. ASSUME w.campaign = None PROVE store[s].campaign \in ProjectCampaigns(w)
  <2>1. CASE ~w.task
    BY <1>3, <1>5, <1>7, <2>1 DEF Sourced
  <2>2. CASE w.task
    <3>1. a.cap.task = s /\ Tied(s, w)
      BY <1>3, <2>2, NamesAssumption DEF Sourced
    <3>2. Matches(s, Loose(w, store[s].context))
      BY <1>5, <1>6, <3>1, NamesAssumption
    <3>3. CASE w.context # None
      <4>1. Loose(w, store[s].context) = w
        BY <1>2, <3>3 DEF Loose, Questions
      <4> QED
        BY <1>5, <3>1, <3>2, <4>1, InProject DEF Tied
    <3>4. CASE w.context = None
      <4>1. w.checkout = None /\ Loose(w, store[s].context).checkout = None
        BY <1>2, <1>7, <2>2, <3>4 DEF Loose
      <4>2. Matches(s, w)
        BY <4>1 DEF Matches
      <4>3. References(s, Loose(w, store[s].context)) => References(s, w)
        BY <4>1 DEF References, GrantReaches, ScopeGrantMatches
      <4> QED
        BY <1>5, <3>1, <4>2, <4>3, InProject DEF Tied
    <3> QED
      BY <3>3, <3>4
  <2> QED
    BY <2>1, <2>2
<1>8. ASSUME NEW f \in Sessions, Live(f), ~Mine(f)
      PROVE  /\ store[f].campaign # store[s].campaign
             /\ w.campaign = None => ~ClaimOverlaps(store[f].claims, w.checkout)
  BY <1>1, <1>2, <1>6, <1>7, <1>8, NoForeign
<1> QED
  BY <1>2, <1>8 DEF Apart

LEMMA NotForTask ==
    ASSUME TypeOK, NEW q \in Questions, NEW answers \in AnswerSets(q), NEW a \in answers,
           a.session # None, ~q.task
    PROVE  a.cap.task = None
<1>1. PICK w \in Relocated(Exactly(Narrowed(q))) : \E S : Sourced(a.cap, w, S)
  BY Chosen
<1>2. ~w.task
  <2>1. ~ExactRefused(q)
    BY Chosen
  <2> QED
    BY <2>1, AskedOn
<1> QED
  BY <1>1, <1>2 DEF Sourced

-----------------------------------------------------------------------------
(* Why a selection is no guess: the lookup and the selection each leave a  *)
(* rival out for something it lacks.                                       *)

(* Counting tells members of a finite set apart.                           *)
LEMMA OnlyOne ==
    ASSUME NEW S, IsFiniteSet(S), ~(Cardinality(S) > 1), NEW x \in S, NEW y \in S
    PROVE  x = y
<1>1. SUFFICES ASSUME x # y PROVE FALSE
  OBVIOUS
<1>2. IsFiniteSet({x, y}) /\ Cardinality({x, y}) <= Cardinality(S)
  BY FS_Subset
<1>3. Cardinality({x, y}) = 2
  <2>1. IsFiniteSet({x}) /\ Cardinality({x}) = 1
    BY FS_Singleton
  <2>2. Cardinality({x} \cup {y}) = Cardinality({x}) + 1
    BY <1>1, <2>1, FS_AddElement
  <2>3. {x, y} = {x} \cup {y}
    OBVIOUS
  <2> QED
    BY <2>1, <2>2, <2>3
<1>4. Cardinality(S) \in Nat
  BY FS_CardinalityType
<1> QED
  BY <1>2, <1>3, <1>4

LEMMA ImageFinite ==
    ASSUME NEW S, IsFiniteSet(S), NEW f, f = [x \in S |-> f[x]]
    PROVE  IsFiniteSet({f[x] : x \in S})
<1> DEFINE T == {f[x] : x \in S}
<1>1. f \in Surjection(S, T)
  BY DEF Surjection
<1> HIDE DEF T
<1>2. IsFiniteSet(T)
  BY <1>1, FS_Surjection
<1> QED
  BY <1>2 DEF T

(* A question that was moved went to the only checkout on record among the *)
(* live sessions of its campaign and definition.                           *)
LEMMA Moved ==
    ASSUME TypeOK, NEW q \in Questions, q.session = None, ~ExactRefused(q),
           NEW w \in Relocated(Exactly(Narrowed(q))), w.checkout # q.checkout
    PROVE  /\ q.checkout = Root /\ w.context = q.context /\ w.checkout # None
           /\ w.campaign # None /\ q.context # None
           /\ \E u \in Sessions : /\ Mine(u) /\ Live(u) /\ store[u].campaign = w.campaign
                                  /\ store[u].context = q.context
                                  /\ store[u].checkout = w.checkout
           /\ \A u \in Sessions : Mine(u) /\ Live(u) /\ store[u].campaign = w.campaign
                                  /\ store[u].context = q.context
                                    => store[u].checkout \in {None, w.checkout}
<1> DEFINE e == Exactly(Narrowed(q))
           Own == {t \in Sessions : /\ Mine(t) /\ Live(t) /\ store[t].campaign = e.campaign
                                    /\ store[t].context = e.context}
           R == {store[s].checkout : s \in Own} \ {None}
<1>1. /\ e \in Questions /\ e.campaign = q.campaign /\ e.checkout = q.checkout
      /\ e.context = IF q.checkout = None THEN None ELSE q.context
  BY DEF Exactly, Narrowed, Questions
<1>2. w \in IF \/ e.campaign = None \/ e.context \notin Standard
               \/ e.checkout # Root \/ R = {} THEN {e}
            ELSE IF Cardinality(R) > 1 THEN {} ELSE {[e EXCEPT !.checkout = c] : c \in R}
  BY DEF Relocated
<1>3. IsFiniteSet(R)
  <2>1. IsFiniteSet(Own)
    BY SessionsAssumption, FS_Subset
  <2>2. IsFiniteSet({store[s].checkout : s \in Own})
    <3> DEFINE f == [s \in Own |-> store[s].checkout]
    <3>1. f = [s \in Own |-> f[s]] /\ {store[s].checkout : s \in Own} = {f[s] : s \in Own}
      OBVIOUS
    <3> HIDE DEF f
    <3> QED
      BY <2>1, <3>1, ImageFinite
  <2> QED
    BY <2>2, FS_Subset
<1>4. \A u \in Own : store[u].checkout \in {None} \cup R
  OBVIOUS
<1>5. \A c \in R : c # None /\ \E u \in Own : store[u].checkout = c
  OBVIOUS
<1>9. \A c \in Standard : c # None
  BY NamesAssumption, StandardAssumption
<1> HIDE DEF e, R
<1>6. /\ e.campaign # None /\ e.context # None /\ e.checkout = Root /\ ~(Cardinality(R) > 1)
      /\ \E c \in R : w = [e EXCEPT !.checkout = c]
  BY <1>1, <1>2, <1>9
<1>7. /\ w.checkout \in R /\ w.campaign = e.campaign /\ w.context = e.context
  BY <1>1, <1>6 DEF Questions
<1>8. \A c \in R : c = w.checkout
  BY <1>3, <1>6, <1>7, OnlyOne
<1> QED
  BY <1>1, <1>4, <1>5, <1>6, <1>7, <1>8 DEF e

(* Of the sessions that were found, one that is dropped lacks what decides *)
(* for the one that is kept; nothing is dropped when two are kept.         *)
LEMMA Kept ==
    ASSUME NEW M \in SUBSET Sessions, NEW w, w.checkout # None, NEW S \in Deduplicated(M, w),
           NEW s \in S, NEW t \in M, t # s
    PROVE  /\ t \notin S => Outranks(s, t, w.checkout)
           /\ t \in S => S = M
<1> DEFINE K == w.checkout
           owners == {x \in M : ClaimMatches(store[x].claims, K)}
           pointed == {x \in M : store[x].checkpoint}
           placed == {x \in M : K # None /\ store[x].checkout = K}
           by(P) == IF Cardinality(P) = 1 THEN P ELSE {}
           found == by(pointed) \cup by(placed)
<1>0. \A P \in SUBSET M : IsFiniteSet(P)
  BY SessionsAssumption, FS_Subset
<1>1. S \in IF Cardinality(M) < 2 \/ K = None THEN {M}
            ELSE IF Cardinality(owners) = 1 THEN {owners}
            ELSE IF owners # {} THEN {M}
            ELSE AuthoritativeDuplicate(M, K)
  BY DEF Deduplicated
<1>2. AuthoritativeDuplicate(M, K) = IF found = {} THEN {M} ELSE {{x} : x \in found}
  BY DEF AuthoritativeDuplicate
<1>3. ASSUME NEW P \in SUBSET M, Cardinality(P) = 1, s \in P PROVE t \notin P
  BY <1>0, <1>3, OnlyOne
<1>4. \/ S = M
      \/ S = owners /\ Cardinality(owners) = 1
      \/ \E x \in found : S = {x}
  <2> HIDE DEF owners, found
  <2> QED
    BY <1>1, <1>2
<1>5. CASE S = owners /\ Cardinality(owners) = 1
  <2>1. s \in owners /\ t \notin owners
    BY <1>3, <1>5
  <2> QED
    BY <1>5, <2>1 DEF Outranks
<1>6. CASE \E x \in found : S = {x}
  <2>1. s \in found /\ t \notin S
    BY <1>6
  <2>2. CASE s \in by(pointed)
    <3>1. Cardinality(pointed) = 1 /\ s \in pointed
      BY <2>2
    <3>2. t \notin pointed
      BY <1>3, <3>1
    <3> QED
      BY <2>1, <3>1, <3>2 DEF Outranks
  <2>3. CASE s \in by(placed)
    <3>1. Cardinality(placed) = 1 /\ s \in placed
      BY <2>3
    <3>2. t \notin placed
      BY <1>3, <3>1
    <3> QED
      BY <2>1, <3>1, <3>2 DEF Outranks
  <2> QED
    BY <2>1, <2>2, <2>3
<1> QED
  BY <1>4, <1>5, <1>6

(* What the lookup finds of a campaign, once it finds some.                *)
LEMMA AlsoMatching ==
    ASSUME NEW w, w.session = None, NEW c, NEW s \in Matching(c, w, None),
           NEW t \in Sessions, Mine(t), Live(t), store[t].campaign = c, Matches(t, w)
    PROVE  t \in Matching(c, w, None)
<1> DEFINE here == {x \in Surveyed(w) : /\ Mine(x) /\ store[x].campaign = c /\ Matches(x, w)}
           linked == {x \in here : References(x, w)}
<1>1. Matching(c, w, None) = IF linked = {} THEN {} ELSE here
  BY DEF Matching
<1>2. Matching(c, w, None) = here /\ s \in here
  <2> HIDE DEF here, linked
  <2> QED
    BY <1>1
<1>3. s \in Surveyed(w) /\ w.campaign \in {None, c}
  BY <1>2 DEF Surveyed
<1>4. t \in Surveyed(w)
  BY <1>3 DEF Surveyed, Listed, Live
<1> QED
  BY <1>2, <1>4

(* A rival at the checkout was found as well, or only a grant ties it to   *)
(* the checkout in a question that consults none.                          *)
LEMMA FoundToo ==
    ASSUME TypeOK, NEW w \in Questions, w.checkout # None, w.session = None, NEW c,
           NEW s \in Matching(c, w, None), NEW t \in Rivals(s, w.checkout)
    PROVE  t \in Matching(c, w, None) \/ Outranks(s, t, w.checkout)
<1>1. store[s].campaign = c /\ Matches(s, w) /\ w.campaign \in {None, c}
  BY Matched DEF Surveyed
<1>2. /\ t \in Sessions /\ Mine(t) /\ Live(t) /\ store[t].campaign = c
      /\ WorksAt(t, w.checkout)
  BY <1>1 DEF Rivals, Live, Mine
<1>3. CASE Matches(t, w)
  BY <1>2, <1>3, AlsoMatching
<1>4. CASE ~Matches(t, w)
  <2>1. /\ store[t].checkout # w.checkout
        /\ ~ClaimMatches(store[t].claims, w.checkout)
        /\ store[t].grant = w.checkout /\ ~GrantReaches(t, w)
    BY <1>2, <1>4 DEF Matches, WorksAt
  <2>2. ~GrantReaches(s, w)
    BY <1>1, <1>2, <2>1 DEF GrantReaches, ScopeGrantMatches
  <2>3. store[s].checkout = w.checkout \/ ClaimMatches(store[s].claims, w.checkout)
    BY <1>1, <2>2 DEF Matches
  <2> QED
    BY <2>1, <2>3 DEF Outranks
<1> QED
  BY <1>3, <1>4

(* Where the row of a session that matches the question is shown.          *)
LEMMA ShownAt ==
    ASSUME NEW w, w.checkout # None, NEW s
    PROVE  /\ Row(s, w).session = s /\ Row(s, w).claims = store[s].claims
           /\ Row(s, w).context = store[s].context
           /\ Row(s, w).checkpoint = store[s].checkpoint
           /\ Row(s, w).checkout = IF store[s].grant = w.checkout THEN w.checkout
                                   ELSE store[s].checkout
           /\ Recorded(s, w.checkout) <=> Row(s, w).checkout = w.checkout
           /\ Matches(s, w) => RowMatchesCheckout(Row(s, w), w.checkout)
           /\ WorksAt(s, w.checkout) => RowMatchesCheckout(Row(s, w), w.checkout)
<1>1. /\ Row(s, w).session = s /\ Row(s, w).claims = store[s].claims
      /\ Row(s, w).context = store[s].context /\ Row(s, w).checkpoint = store[s].checkpoint
      /\ Row(s, w).checkout = IF store[s].grant = w.checkout THEN w.checkout
                              ELSE store[s].checkout
  BY DEF Row, ShownCheckout, ScopeGrantMatches
<1> QED
  BY <1>1 DEF Recorded, Matches, GrantReaches, ScopeGrantMatches, RowMatchesCheckout,
              WorksAt

(* Of two rows that may be selected, only one that decides is.             *)
LEMMA Decided ==
    ASSUME NEW good, IsFiniteSet(good), NEW q, NEW r \in UniqueAuthoritative(good, q),
           NEW o \in good, o # r
    PROVE  \/ ClaimOverlaps(r.claims, FoundAt(r, q)) /\ ~ClaimOverlaps(o.claims, FoundAt(r, q))
           \/ r.checkpoint /\ ~o.checkpoint
<1> DEFINE at == {FoundAt(x, q) : x \in good}
           unknown == {x \in good : Cardinality(x.claims) > MaxClaims}
           owners == {x \in good \ unknown : \A c \in at : ClaimOverlaps(x.claims, c)}
           ahead == {x \in good : x.checkpoint}
<1>1. UniqueAuthoritative(good, q) =
        IF \/ Cardinality({x.context : x \in good}) > 1 \/ Cardinality(at) > 1
           \/ Cardinality(owners) > 1 \/ unknown # {}
        THEN {}
        ELSE IF owners # {} THEN owners
        ELSE IF Cardinality(ahead) = 1 THEN ahead ELSE {}
  BY DEF UniqueAuthoritative
<1>2. /\ ~(Cardinality(at) > 1) /\ ~(Cardinality(owners) > 1) /\ unknown = {}
      /\ \/ r \in owners
         \/ Cardinality(ahead) = 1 /\ r \in ahead
  <2> HIDE DEF at, unknown, owners, ahead
  <2> QED
    BY <1>1
<1>3. IsFiniteSet(at) /\ IsFiniteSet(owners) /\ IsFiniteSet(ahead)
  <2> DEFINE f == [x \in good |-> FoundAt(x, q)]
  <2>1. f = [x \in good |-> f[x]] /\ at = {f[x] : x \in good}
    OBVIOUS
  <2>2. IsFiniteSet(at)
    <3> HIDE DEF f
    <3> QED
      BY <2>1, ImageFinite
  <2> QED
    BY <2>2, FS_Subset
<1>4. r \in good /\ FoundAt(r, q) \in at
  BY <1>2
<1>5. \A c \in at : c = FoundAt(r, q)
  <2> HIDE DEF at
  <2> QED
    BY <1>2, <1>3, <1>4, OnlyOne
<1>6. CASE r \in owners
  <2>1. o \notin owners
    <3> HIDE DEF owners
    <3> QED
      BY <1>2, <1>3, <1>6, OnlyOne
  <2> QED
    BY <1>2, <1>4, <1>5, <1>6, <2>1
<1>7. CASE Cardinality(ahead) = 1 /\ r \in ahead
  <2>1. o \notin ahead
    <3> HIDE DEF ahead
    <3> QED
      BY <1>3, <1>7, OnlyOne
  <2> QED
    BY <1>7, <2>1
<1> QED
  BY <1>2, <1>6, <1>7

(* A row of the same context that is not at the checkout asked for.        *)
LEMMA RowsLeft ==
    ASSUME NEW cap, NEW q, NEW registered, cap.task = None, q.session = None,
           q.checkout # None, NEW r \in CheckoutRows(cap, q, registered), NEW o \in cap.rows,
           o.context = r.context, Selectable(o), o \notin CheckoutRows(cap, q, registered)
    PROVE  \/ RowMatchesCheckout(r, q.checkout) /\ ~RowMatchesCheckout(o, q.checkout)
           \/ /\ ~RowMatchesCheckout(r, q.checkout)
              /\ r.checkout \in registered /\ o.checkout \notin registered
<1> DEFINE exact == {x \in ExactContextRows(cap, q) : cap.task \in {None, x.session}}
           here == {x \in exact : q.checkout # None => RowMatchesCheckout(x, q.checkout)}
           apart == {x \in exact : AtWorktree(x, registered)}
<1>1. CheckoutRows(cap, q, registered) = IF here # {} \/ q.checkout # Root THEN here ELSE apart
  BY DEF CheckoutRows
<1>2. r \in exact
  <2> HIDE DEF exact
  <2> QED
    BY <1>1
<1>3. o \in exact
  BY <1>2 DEF ExactContextRows
<1>4. CASE here # {} \/ q.checkout # Root
  <2>1. r \in here /\ o \notin here
    <3> HIDE DEF here
    <3> QED
      BY <1>1, <1>4
  <2> QED
    BY <1>3, <2>1
<1>5. CASE here = {} /\ q.checkout = Root
  <2>1. r \in apart /\ o \notin apart
    <3> HIDE DEF apart, here
    <3> QED
      BY <1>1, <1>5
  <2>2. r \notin here
    BY <1>5
  <2> QED
    BY <1>2, <1>3, <2>1, <2>2 DEF AtWorktree
<1> QED
  BY <1>4, <1>5

(* In a question that was moved and still leaves two sessions to choose    *)
(* from, they are of its definition, and at the checkout it was moved to,  *)
(* if at any.                                                              *)
LEMMA MovedRows ==
    ASSUME TypeOK, NEW q \in Questions, q.session = None, ~q.task, ~ExactRefused(q),
           NEW w \in Relocated(Exactly(Narrowed(q))), w.checkout # q.checkout,
           NEW cap, cap.task = None, cap.rows = {Row(x, w) : x \in Matching(w.campaign, w, None)},
           NEW s \in Matching(w.campaign, w, None), store[s].lifecycle = "active",
           Row(s, w) \in ExactContextRows(cap, q),
           NEW t \in Sessions, Mine(t), store[t].lifecycle = "active",
           store[t].campaign = w.campaign, store[t].context = store[s].context
    PROVE  /\ Row(s, w).checkout \in {None, w.checkout}
           /\ Row(t, w).checkout \in {None, w.checkout}
<1>1. PICK u \in Sessions : /\ Mine(u) /\ Live(u) /\ store[u].campaign = w.campaign
                            /\ store[u].context = q.context
                            /\ store[u].checkout = w.checkout
  BY Moved
<1>2. /\ q.checkout = Root /\ w.checkout # None /\ q.context # None
      /\ w \in Questions /\ w.session = None
  BY Moved, AskedOn
<1>3. u \in Matching(w.campaign, w, None)
  BY <1>1, <1>2, AlsoMatching DEF Matches
<1>4. \E r \in cap.rows : r.context = q.context
  BY <1>1, <1>2, <1>3, ShownAt
<1>5. Selector(cap, q) = q.context
  BY <1>2, <1>4, NamesAssumption DEF Selector
<1>6. store[s].context = q.context
  BY <1>2, <1>5, ShownAt DEF ExactContextRows
<1>7. s \in Sessions /\ Mine(s) /\ store[s].campaign = w.campaign
  BY Matched DEF Surveyed, Listed
<1>8. store[s].checkout \in {None, w.checkout} /\ store[t].checkout \in {None, w.checkout}
  <2>1. Live(s) /\ Live(t)
    BY <1>7 DEF Live, Mine
  <2> QED
    BY <1>6, <1>7, <2>1, Moved
<1> QED
  BY <1>2, <1>8, ShownAt

Unguessed(s, q) ==
    q.session = None /\ ~q.task /\ q.checkout # None =>
        \E found \in {q.checkout} \cup (IF q.checkout = Root THEN Worktrees ELSE {}) :
            /\ WorksAt(s, found)
            /\ \A t \in Rivals(s, found) :
                  \E place \in {found, q.checkout} : Outranks(s, t, place)

LEMMA SelectedUnguessed ==
    ASSUME TypeOK, NEW q \in Questions, NEW answers \in AnswerSets(q), NEW a \in answers,
           a.session # None
    PROVE  Unguessed(a.session, q)
<1> SUFFICES ASSUME q.session = None, ~q.task, q.checkout # None PROVE Unguessed(a.session, q)
  BY DEF Unguessed
<1> DEFINE s == a.session
           cap == a.cap
<1>1. /\ ~ExactRefused(q)
      /\ \E w \in Relocated(Exactly(Narrowed(q))), registered \in SUBSET Worktrees :
            \E S : Sourced(cap, w, S) /\ Preferred(s, cap, q, registered)
  BY ChosenAmong
<1>2. PICK w \in Relocated(Exactly(Narrowed(q))), registered \in SUBSET Worktrees :
          \E S : Sourced(cap, w, S) /\ Preferred(s, cap, q, registered)
  BY <1>1
<1>3. PICK S : Sourced(cap, w, S) /\ Preferred(s, cap, q, registered)
  BY <1>2
<1> DEFINE K == w.checkout
           c == cap.campaign
           M == Matching(c, w, None)
           good == Good(cap, q, registered)
<1>4. /\ w \in Questions /\ ~w.task /\ w.session = None /\ K # None
      /\ K = q.checkout \/ (q.checkout = Root /\ K \in Checkouts /\ w.campaign # None)
  BY <1>1, AskedOn, NamesAssumption
<1>5. /\ cap.task = None /\ S \subseteq M /\ S \in Deduplicated(M, w)
      /\ cap.rows = {Row(x, w) : x \in S}
      /\ w.campaign # None => c = w.campaign
  <2>1. cap.task = None /\ (w.campaign # None => c = w.campaign)
    BY <1>3, <1>4 DEF Sourced
  <2> QED
    BY <1>3, <2>1 DEF Sourced, Capsule
<1>6. \A x \in M : x \in Sessions /\ Mine(x) /\ store[x].campaign = c /\ Matches(x, w)
  BY Matched DEF Surveyed, Listed
<1>7. good \subseteq cap.rows
  BY DEF Good, CheckoutRows, ExactContextRows
<1>8. PICK r \in good : /\ r.session = s
                        /\ ~(Cardinality(good) > 1) \/ r \in UniqueAuthoritative(good, q)
  BY <1>3 DEF Preferred
<1>9. s \in S /\ r = Row(s, w)
  <2>1. PICK x \in S : r = Row(x, w)
    BY <1>5, <1>7
  <2>2. x = s
    BY <1>4, <1>8, <2>1, ShownAt
  <2> QED
    BY <2>1, <2>2
<1>10. WorksAt(s, K) /\ RowMatchesCheckout(r, K)
  <2>1. Matches(s, w)
    BY <1>5, <1>6, <1>9
  <2> QED
    BY <1>4, <1>9, <2>1, ShownAt DEF Matches, WorksAt, GrantReaches, ScopeGrantMatches
<1>11. IsFiniteSet(good)
  <2>1. IsFiniteSet(S)
    BY <1>5, <1>6, SessionsAssumption, FS_Subset
  <2> DEFINE f == [x \in S |-> Row(x, w)]
  <2>2. f = [x \in S |-> f[x]] /\ {Row(x, w) : x \in S} = {f[x] : x \in S}
    OBVIOUS
  <2>3. IsFiniteSet({Row(x, w) : x \in S})
    <3> HIDE DEF f
    <3> QED
      BY <2>1, <2>2, ImageFinite
  <2> QED
    BY <1>5, <1>7, <2>3, FS_Subset
<1>12. r \in CheckoutRows(cap, q, registered) /\ Selectable(r)
  BY DEF Good
<1> HIDE DEF s, cap, good, M, c
<1>13. ASSUME NEW t \in Rivals(s, K) PROVE \E place \in {K, q.checkout} : Outranks(s, t, place)
  <2> DEFINE o == Row(t, w)
  <2>1. /\ t \in Sessions /\ t # s /\ Mine(t) /\ store[t].lifecycle = "active"
        /\ ReferenceBasis(t) /\ store[t].campaign = c /\ store[t].context = store[s].context
        /\ WorksAt(t, K)
    BY <1>5, <1>6, <1>9 DEF Rivals
  <2>2. t \in M \/ Outranks(s, t, K)
    BY <1>4, <1>5, <1>9, FoundToo DEF M
  <2>3. ASSUME t \in M PROVE (t \notin S => Outranks(s, t, K)) /\ (t \in S => S = M)
    <3>1. M \subseteq Sessions
      BY <1>6
    <3> QED
      BY <1>4, <1>5, <1>9, <2>1, <2>3, <3>1, Kept
  <2>4. CASE t \in S
    <3>1. S = M /\ o \in cap.rows
      BY <1>5, <2>3, <2>4
    <3>2. /\ o.context = r.context /\ o # r /\ Selectable(o)
          /\ RowMatchesCheckout(o, K)
          /\ r.claims = store[s].claims /\ r.checkpoint = store[s].checkpoint
          /\ o.claims = store[t].claims /\ o.checkpoint = store[t].checkpoint
      <4>1. o.linked /\ o.lifecycle = "active"
        BY <2>1 DEF Row
      <4> QED
        BY <1>4, <1>9, <2>1, <4>1, ShownAt DEF Selectable
    <3>3. K # q.checkout => /\ q.checkout = Root
                            /\ r.checkout \in {None, K} /\ o.checkout \in {None, K}
      <4> SUFFICES ASSUME K # q.checkout
                   PROVE  r.checkout \in {None, K} /\ o.checkout \in {None, K}
        BY <1>4
      <4>1. c = w.campaign
        BY <1>4, <1>5
      <4>2. cap.rows = {Row(x, w) : x \in Matching(w.campaign, w, None)}
        BY <1>5, <3>1, <4>1 DEF M
      <4>3. s \in Matching(w.campaign, w, None)
        BY <1>9, <3>1, <4>1 DEF M
      <4>4. Row(s, w) \in ExactContextRows(cap, q)
        BY <1>9, <1>12 DEF CheckoutRows
      <4>5. store[s].lifecycle = "active"
        BY <1>9, <1>12 DEF Selectable, Row
      <4> QED
        BY <1>1, <1>5, <1>9, <2>1, <4>1, <4>2, <4>3, <4>4, <4>5, MovedRows
    <3> HIDE DEF o
    <3>4. q.checkout # None /\ (r.checkout \in registered => r.checkout # None)
      BY NamesAssumption DEF Checkouts
    <3>5. ~RowMatchesCheckout(r, q.checkout) => r.checkout = K
      <4>1. r.checkout \in registered \/ RowMatchesCheckout(r, q.checkout)
        BY <1>12 DEF CheckoutRows, AtWorktree
      <4>2. K = q.checkout => RowMatchesCheckout(r, q.checkout)
        BY <1>10
      <4> QED
        BY <3>3, <3>4, <4>1, <4>2
    <3>6. CASE o \in good
      <4>1. Cardinality(good) > 1
        BY <1>11, <3>2, <3>6, OnlyOne
      <4>2. r \in UniqueAuthoritative(good, q)
        BY <1>8, <4>1
      <4>3. FoundAt(r, q) \in {K, q.checkout}
        BY <3>5 DEF FoundAt
      <4>4. \/ /\ ClaimOverlaps(r.claims, FoundAt(r, q))
               /\ ~ClaimOverlaps(o.claims, FoundAt(r, q))
            \/ r.checkpoint /\ ~o.checkpoint
        BY <1>11, <3>2, <3>6, <4>2, Decided
      <4> QED
        BY <3>2, <4>3, <4>4 DEF Outranks
    <3>7. CASE o \notin good
      <4>1. o \notin CheckoutRows(cap, q, registered)
        BY <3>2, <3>7 DEF good, Good
      <4>2. \/ RowMatchesCheckout(r, q.checkout) /\ ~RowMatchesCheckout(o, q.checkout)
            \/ /\ ~RowMatchesCheckout(r, q.checkout)
               /\ r.checkout \in registered /\ o.checkout \notin registered
        BY <1>5, <1>12, <3>1, <3>2, <4>1, RowsLeft
      <4>3. CASE RowMatchesCheckout(r, q.checkout) /\ ~RowMatchesCheckout(o, q.checkout)
        <5>1. K # q.checkout
          BY <3>2, <4>3
        <5>2. r.checkout # q.checkout
          BY <3>3, <5>1
        <5>3. ClaimMatches(r.claims, q.checkout) /\ ~ClaimMatches(o.claims, q.checkout)
          BY <4>3, <5>2 DEF RowMatchesCheckout
        <5> QED
          BY <3>2, <5>3 DEF Outranks
      <4>4. CASE /\ ~RowMatchesCheckout(r, q.checkout)
                 /\ r.checkout \in registered /\ o.checkout \notin registered
        <5>1. r.checkout = K /\ o.checkout # K
          BY <3>5, <4>4
        <5>2. Recorded(s, K) /\ ~Recorded(t, K)
          BY <1>4, <1>9, <5>1, ShownAt DEF o
        <5> QED
          BY <5>2 DEF Outranks
      <4> QED
        BY <4>2, <4>3, <4>4
    <3> QED
      BY <3>6, <3>7
  <2> QED
    BY <2>2, <2>3, <2>4
<1>14. K \in {q.checkout} \cup (IF q.checkout = Root THEN Worktrees ELSE {})
  BY <1>4 DEF Checkouts
<1>15. /\ WorksAt(s, K)
       /\ \A t \in Rivals(s, K) : \E place \in {K, q.checkout} : Outranks(s, t, place)
  BY <1>10, <1>13
<1> HIDE DEF K
<1> QED
  BY <1>14, <1>15 DEF Unguessed, s

-----------------------------------------------------------------------------
(* The invariant: the question just answered, if it bound a session, bound *)
(* one that it may, and no one else is at work there.                      *)

Around(q) ==
    \A d \in ToSet(Path[q.cwd]) : Sites[q.site].marker[d] # "none" =>
        q.checkout \in Sites[q.site].registered /\ Inside(q.checkout, d)

Lawful(s, q) ==
    /\ Facts(s, q) /\ Around(q) /\ Unguessed(s, q)
    /\ ~(q.task /\ q.campaign = None /\ q.context = None) => Apart(s, q)

IInv ==
    /\ TypeOK
    /\ Answered => Lawful(bound, asked) /\ Refused \notin {asked.checkout, asked.context}

LEMMA Authorized ==
    ASSUME IInv PROVE BoundIsAuthorized /\ ForeignWorkIsRefused /\ NeverGuesses
<1>1. BoundIsAuthorized
  BY DEF IInv, Lawful, Facts, Around, BoundIsAuthorized, PlacesAsked
<1>2. ForeignWorkIsRefused
  BY DEF IInv, Lawful, Apart, ForeignWorkIsRefused
<1>3. NeverGuesses
  BY DEF IInv, Lawful, Unguessed, NeverGuesses, PlacesAsked
<1> QED
  BY <1>1, <1>2, <1>3

LEMMA Answers ==
    ASSUME TypeOK, NEW a \in Asks, NEW context \in Contexts \cup {None},
           CheckoutOf(a) # Refused, NEW answers \in AnswerSets(Question(a, context)),
           NEW x \in answers, x.session # None,
           ~a.task \/ x.cap.task \in {None, x.session}
    PROVE  x.session \in Sessions /\ Lawful(x.session, Question(a, context))
<1> DEFINE q == Question(a, context)
<1>1. q \in Questions /\ q.task = a.task
  <2>1. CheckoutOf(a) \in Checkouts \cup {None}
    BY AskedFrom
  <2> QED
    BY <2>1, AsksAssumption DEF Question, Questions
<1>2. Around(q)
  <2>1. q.cwd = a.cwd /\ Sites[q.site] = Place(a) /\ q.checkout = CheckoutOf(a)
    BY DEF Question, Place
  <2> HIDE DEF q
  <2> QED
    BY <2>1, AskedFrom DEF Around
<1> HIDE DEF q
<1>3. answers \in AnswerSets(q)
  BY DEF q
<1>4. x.cap.task \in {None, x.session}
  BY <1>1, <1>3, NotForTask
<1>5. x.session \in Sessions /\ Facts(x.session, q)
  BY <1>1, <1>3, <1>4, SelectedFacts
<1>6. ~(q.task /\ q.campaign = None /\ q.context = None) => Apart(x.session, q)
  BY <1>1, <1>3, <1>4, SelectedApart
<1>7. Unguessed(x.session, q)
  BY <1>1, <1>3, SelectedUnguessed
<1>8. x.session \in Sessions /\ Lawful(x.session, q)
  BY <1>2, <1>5, <1>6, <1>7 DEF Lawful
<1> QED
  BY <1>8 DEF q

(* A question that was asked and answered with s.                          *)
LEMMA Asking ==
    ASSUME IInv, NEW q, q.checkout \in Checkouts \cup {None},
           q.context \in Contexts \cup {None}, asked' = q,
           Refused \notin {q.checkout, q.context},
           UNCHANGED <<store, binding>>,
           bound' = None \/ (bound' \in Sessions /\ Lawful(bound', q))
    PROVE  IInv'
<1>1. TypeOK'
  BY DEF IInv, TypeOK
<1>2. ASSUME bound' # None, Lawful(bound', q) PROVE Lawful(bound, asked)'
  <2>1. Facts(bound, asked)'
    BY <1>2 DEF Lawful, Facts, Mine, Present, ReferenceBasis, WorksAt, ClaimMatches
  <2>2. Around(asked)'
    BY <1>2 DEF Lawful, Around
  <2>3. Apart(bound', q) => Apart(bound, asked)'
    BY DEF Apart, Live, Mine, Present, ClaimOverlaps
  <2>4. Unguessed(bound', q) => Unguessed(bound, asked)'
    BY DEF Unguessed, Rivals, Outranks, Recorded, WorksAt, Mine, Present, ReferenceBasis,
           ClaimMatches, ClaimOverlaps
  <2> QED
    BY <1>2, <2>1, <2>2, <2>3, <2>4 DEF Lawful
<1> QED
  BY <1>1, <1>2 DEF IInv, Answered

LEMMA Quiet == ASSUME TypeOK', asked' = None \/ bound' = None PROVE IInv'
  BY DEF IInv, Answered

(* A refused question may name no checkout or no context.                  *)
LEMMA Refusing ==
    ASSUME TypeOK, NEW a \in Asks, NEW context \in Contexts \cup {None, Refused},
           asked' = Question(a, context), bound' = None, UNCHANGED <<store, binding>>
    PROVE  IInv'
<1>1. CheckoutOf(a) \in Checkouts \cup {None, Refused}
  BY AskedFrom
<1>2. asked'.checkout = CheckoutOf(a) /\ asked'.context = context
  BY DEF Question
<1>3. TypeOK'
  BY <1>1, <1>2 DEF TypeOK
<1> QED
  BY <1>3, Quiet

LEMMA AskedContextIn == ASSUME NEW a \in Asks PROVE AskedContext(a) \in Contexts \cup {None, Refused}
  BY ContextAsked DEF AskedContext

LEMMA Binding ==
    ASSUME NEW answers, Binds(answers) # None
    PROVE  \E x \in answers : Sessionable(x) /\ Binds(answers) = x.session
  BY DEF Binds

THEOREM Invariance == Spec => []IInv
<1>1. Init => IInv
  <2>1. Init => TypeOK
    BY NamesAssumption DEF Init, TypeOK
  <2> QED
    BY <2>1 DEF Init, IInv, Answered
<1>2. ASSUME IInv, [Next]_vars PROVE IInv'
  <2> USE <1>2
  <2>0. TypeOK
    BY DEF IInv
  <2>1. ASSUME asked = None, NEW s \in Sessions, NEW r \in Snapshots, Enter(s, r) \/ Change(s, r)
        PROVE  IInv'
    <3>1. TypeOK'
      BY <2>0, <2>1 DEF TypeOK, Enter, Change
    <3>2. asked' = None
      BY <2>1 DEF Enter, Change
    <3> QED
      BY <3>1, <3>2, Quiet
  <2>2. ASSUME NEW a \in Asks, Continue(a) PROVE IInv'
    <3> DEFINE q == Question(a, AskedContext(a))
    <3>1. /\ CheckoutOf(a) # Refused /\ AskedContext(a) # Refused
          /\ asked' = q /\ UNCHANGED <<store, binding>>
      BY <2>2 DEF Continue, Unresolved
    <3>2. PICK answers \in AnswerSets(q) : bound' = Binds(answers)
      BY <2>2 DEF Continue
    <3>3. AskedContext(a) \in Contexts \cup {None} /\ CheckoutOf(a) \in Checkouts \cup {None}
      BY <3>1, AskedContextIn, AskedFrom
    <3>4. bound' = None \/ (bound' \in Sessions /\ Lawful(bound', q))
      <4>1. SUFFICES ASSUME bound' # None PROVE bound' \in Sessions /\ Lawful(bound', q)
        OBVIOUS
      <4>2. PICK x \in answers : Sessionable(x) /\ bound' = x.session
        BY <3>2, <4>1, Binding
      <4>3. x.session # None /\ x.cap.task \in {None, x.session}
        BY <4>2 DEF Sessionable
      <4> QED
        BY <2>0, <3>1, <3>2, <3>3, <4>2, <4>3, Answers
    <3>5. /\ q.checkout \in Checkouts \cup {None} /\ q.context \in Contexts \cup {None}
          /\ Refused \notin {q.checkout, q.context}
      BY <3>1, <3>3 DEF Question
    <3> HIDE DEF q
    <3> QED
      BY <3>1, <3>4, <3>5, Asking
  <2>3. ASSUME asked = None, NEW a \in Asks, Refuse(a) PROVE IInv'
    <3>1. /\ asked' = Question(a, AskedContext(a)) /\ bound' = None
          /\ UNCHANGED <<store, binding>>
      BY <2>3 DEF Refuse
    <3> QED
      BY <2>0, <3>1, AskedContextIn, Refusing
  <2>4. ASSUME asked = None, NEW s \in Sessions, NEW a \in Asks, AttachEntry(s, a) PROVE IInv'
    <3> DEFINE context == EnteredContext(s, a)
               q == Question(a, context)
    <3>0. /\ asked' = q /\ UNCHANGED <<store, binding>>
          /\ ~a.task /\ Present(s)
      BY <2>4 DEF AttachEntry, EntryAsks, Mine
    <3>5. context \in Contexts \cup {None, Refused}
      <4>1. EntryContext(a.grant, store[s].context, Place(a)) \in Contexts \cup {None}
        BY <2>0, <3>0, Stored DEF EntryContext
      <4> QED
        BY <4>1, ContextAsked DEF EnteredContext
    <3>1. CASE Refused \in {CheckoutOf(a), context}
      <4>1. bound' = None
        BY <2>4, <3>1 DEF AttachEntry
      <4> HIDE DEF context
      <4> QED
        BY <2>0, <3>0, <3>5, <4>1, Refusing
    <3>2. CASE Refused \notin {CheckoutOf(a), context}
      <4>1. PICK answers \in AnswerSets(q) :
                bound' = IF \E x \in answers : x.session = s /\ x.basis = "context"
                         THEN s ELSE None
        <5>1. \E answers \in AnswerSets(asked') :
                bound' = IF \E x \in answers : x.session = s /\ x.basis = "context"
                         THEN s ELSE None
          BY <2>4, <3>2 DEF AttachEntry
        <5> HIDE DEF q
        <5> QED
          BY <3>0, <5>1
      <4>3. CheckoutOf(a) \in Checkouts \cup {None}
        BY <3>2, AskedFrom
      <4>4. context \in Contexts \cup {None}
        BY <3>2, <3>5
      <4>5. bound' = None \/ (bound' \in Sessions /\ Lawful(bound', q))
        <5>1. SUFFICES ASSUME bound' # None PROVE bound' \in Sessions /\ Lawful(bound', q)
          OBVIOUS
        <5>2. PICK x \in answers : bound' = x.session
          BY <4>1, <5>1
        <5> HIDE DEF context
        <5> QED
          BY <2>0, <3>0, <3>2, <4>1, <4>4, <5>1, <5>2, Answers
      <4>6. /\ q.checkout \in Checkouts \cup {None} /\ q.context \in Contexts \cup {None}
            /\ Refused \notin {q.checkout, q.context}
        BY <3>2, <4>3, <4>4 DEF Question
      <4> HIDE DEF q
      <4> QED
        BY <3>0, <4>5, <4>6, Asking
    <3> QED
      BY <3>1, <3>2
  <2>5. ASSUME asked = None, NEW s \in Sessions, TaskBind(s) \/ Accept(s) PROVE IInv'
    <3>1. Present(s) /\ asked' = None
      BY <2>5 DEF TaskBind, Accept
    <3>2. store[s].context \in Contexts
      BY <2>0, <3>1, Stored
    <3>3. TypeOK'
      BY <2>0, <2>5, <3>1, <3>2 DEF TypeOK, TaskBind, Accept
    <3> QED
      BY <3>1, <3>3, Quiet
  <2>6. CASE Given
    <3>1. TypeOK' /\ asked' = None
      BY <2>0, <2>6 DEF TypeOK, Given
    <3> QED
      BY <3>1, Quiet
  <2>7. CASE UNCHANGED vars
    <3>1. TypeOK' /\ (Answered' <=> Answered)
      BY <2>0, <2>7 DEF vars, TypeOK, Answered
    <3>2. Lawful(bound, asked) => Lawful(bound, asked)'
      BY <2>7 DEF vars, Lawful, Facts, Around, Apart, Mine, Live, Present, ReferenceBasis,
                  Unguessed, Rivals, Outranks, Recorded, WorksAt, ClaimMatches, ClaimOverlaps
    <3>3. UNCHANGED asked
      BY <2>7 DEF vars
    <3> QED
      BY <3>1, <3>2, <3>3 DEF IInv
  <2> QED
    BY <1>2, <2>1, <2>2, <2>3, <2>4, <2>5, <2>6, <2>7 DEF Next
<1> QED
  BY <1>1, <1>2, PTL DEF Spec

(* What a question binds is a session of the caller's that may be          *)
(* continued and lies within everything the question names: the binding    *)
(* of a continuation (_campaign_continuation, with what                    *)
(* _select_project_campaign_context makes of the store's answer).          *)
THEOREM ThmBoundIsAuthorized == Spec => []BoundIsAuthorized
  BY Invariance, Authorized, PTL

(* No question binds a session while another principal's live session has  *)
(* its campaign, nor, when it names neither campaign nor session, while    *)
(* one holds a claim on its checkout (the look for foreign owners in       *)
(* campaign_continuation); of a task asked for with neither campaign nor   *)
(* definition nothing is said.                                             *)
THEOREM ThmForeignWorkIsRefused == Spec => []ForeignWorkIsRefused
  BY Invariance, Authorized, PTL

(* A question that names neither session nor task is never answered by     *)
(* one of two sessions that are as good: what decides is a claim, a        *)
(* record or a checkpoint that the other lacks (the deduplication of       *)
(* campaign_continuation and _select_project_campaign_context).            *)
THEOREM ThmNeverGuesses == Spec => []NeverGuesses
  BY Invariance, Authorized, PTL
=============================================================================
