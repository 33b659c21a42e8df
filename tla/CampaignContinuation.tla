------------------------ MODULE CampaignContinuation ------------------------
(***************************************************************************)
(* Which session of one repository an execution may go on with: the lookup *)
(* in the Environment's store (environment_sessions.py) and Control's own  *)
(* selection among what it returns (environment_rpc.py).  The store is     *)
(* shared with other principals and moves on between two questions.        *)
(*                                                                         *)
(* A snapshot keeps what the decision reads: whose it is, its campaign and *)
(* context (the definition and workspace it was entered with), lifecycle,  *)
(* checkout, whether it names the repository, the checkout its scope grant *)
(* admits, the scopes of its claims here, whether it has a checkpoint.     *)
(* Lifecycle "active" stands for the five that may be continued.           *)
(*                                                                         *)
(* What is asked says from where: ProjectCheckout makes of the directory   *)
(* the checkout and the context that the question is about.                *)
(***************************************************************************)
EXTENDS Naturals, FiniteSets, ProjectCheckout

CONSTANTS Sessions, Campaigns,
          Root, Worktrees,   \* the checkouts of the repository
          Whole,             \* the scope of a claim on all of it
          Absent,
          Snapshots,         \* the snapshots sessions go through
          Asks,              \* what may be asked
          MaxRows,           \* rows a capsule shows, 16 in the code
          MaxClaims          \* claims a row shows, 8 in the code

Checkouts == {Root} \cup Worktrees

ASSUME SnapshotsAssumption ==
    Snapshots \subseteq [owner : {"me", "other"}, campaign : Campaigns,
                         context : Contexts,
                         lifecycle : {"active", "handed-off", "completed"},
                         checkout : Checkouts \cup {None}, named : BOOLEAN,
                         grant : Checkouts \cup {None},
                         claims : SUBSET (Checkouts \cup {Whole}),
                         checkpoint : BOOLEAN]

ASSUME AsksAssumption ==
    /\ Asks \subseteq [campaign : Campaigns \cup {None}, task : BOOLEAN,
                       session : Sessions \cup {None}, cwd : Dirs, site : DOMAIN Sites,
                       grant : [scope : {"project", "workspace"}, root : Dirs \cup {None}]]
    /\ \A a \in Asks : a.grant.scope = "project" => a.grant.root \in Dirs

(* What Control may read: the repository's checkouts, known definitions.   *)
ASSUME SitesAssumption ==
    \A name \in DOMAIN Sites :
        /\ Sites[name].registered \subseteq Checkouts
        /\ \A d \in Dirs :
              /\ Sites[name].own[d] \notin {None, Refused} => Sites[name].own[d].id \in Contexts
              /\ Sites[name].common[d] \notin {None, Refused} =>
                    Sites[name].common[d].id \in Contexts

ASSUME NamesAssumption ==
    /\ None \notin Sessions \cup Campaigns \cup Contexts \cup Checkouts \cup {Refused}
    /\ Absent \notin Snapshots
    /\ Root \notin Worktrees

ASSUME SessionsAssumption == IsFiniteSet(Sessions)

(* The question that is asked, once its directory is resolved.             *)
Place(a) == Sites[a.site]
Resolved == [a \in Asks |-> [checkout |-> RegisteredCheckout(a.grant, a.cwd, Place(a)),
                             context |-> DefinitionOf(a.grant, a.cwd, Place(a))]]
CheckoutOf(a) == Resolved[a].checkout
ContextOf(a) == Resolved[a].context
(* A task's own context does for a question that no checkout narrows: the  *)
(* project's definition, which may be refused, is not derived then.        *)
AskedContext(a) ==
    IF a.task /\ CheckoutOf(a) = None /\ ContextOf(a) = Refused THEN None ELSE ContextOf(a)
Question(a, context) ==
    [campaign |-> a.campaign, task |-> a.task, session |-> a.session,
     checkout |-> CheckoutOf(a), context |-> context, cwd |-> a.cwd, site |-> a.site]

VARIABLES
    store,    \* the snapshot of each session
    binding,  \* the session the task is bound to, by context
    bound,    \* the grant's bound_session_id
    asked     \* history: the question just asked, as the store then was

vars == <<store, binding, bound, asked>>

TypeOK ==
    /\ store \in [Sessions -> Snapshots \cup {Absent}]
    /\ binding \in [Contexts -> Sessions \cup {None}]
    /\ bound \in Sessions \cup {None}
    /\ asked = None \/ asked.checkout \in Checkouts \cup {None, Refused}
    /\ asked = None \/ asked.context \in Contexts \cup {None, Refused}

Init ==
    /\ store = [s \in Sessions |-> Absent]
    /\ binding = [c \in Contexts |-> None]
    /\ bound = None
    /\ asked = None

-----------------------------------------------------------------------------
(* The Environment: sessions come, and move.                               *)

Present(s) == store[s] # Absent
Live(s) == Present(s) /\ store[s].lifecycle # "completed"
Mine(s) == Present(s) /\ store[s].owner = "me"

Enter(s, r) ==
    /\ ~Present(s) /\ r.lifecycle = "active"
    /\ store' = [store EXCEPT ![s] = r]
    /\ UNCHANGED <<binding, bound, asked>>

Change(s, r) ==
    /\ Live(s) /\ r # store[s]
    /\ \A f \in {"owner", "campaign", "context", "named"} : r[f] = store[s][f]
    /\ store' = [store EXCEPT ![s] = r]
    /\ UNCHANGED <<binding, bound, asked>>

-----------------------------------------------------------------------------
(* What ties a session to the repository and to the checkout asked for.    *)

ClaimMatches(claims, checkout) == checkout \in claims
ClaimOverlaps(claims, checkout) ==
    claims # {} /\ (checkout = None \/ {checkout, Whole} \cap claims # {})

ScopeGrantMatches(s, checkout) == checkout # None /\ store[s].grant = checkout

(* A scope grant is consulted inside the campaign asked for or, when none  *)
(* is, once a definition narrows the question; that of another principal   *)
(* in the same context only.                                               *)
GrantReaches(s, q) ==
    /\ ScopeGrantMatches(s, q.checkout)
    /\ IF q.campaign # None THEN store[s].campaign = q.campaign ELSE q.context # None
    /\ Mine(s) \/ q.context \in {None, store[s].context}

Matches(s, q) ==
    \/ q.checkout = None
    \/ store[s].checkout = q.checkout
    \/ ClaimMatches(store[s].claims, q.checkout)
    \/ GrantReaches(s, q)

ReferenceBasis(s) == store[s].named \/ store[s].checkout # None \/ store[s].claims # {}

References(s, q) == ReferenceBasis(s) \/ (Mine(s) /\ GrantReaches(s, q))

-----------------------------------------------------------------------------
(* The lookup: who works on this repository.                               *)

(* An exact session must be the caller's, and stands for its campaign.     *)
ExactRefused(q) ==
    /\ q.session # None
    /\ ~Mine(q.session) \/ q.campaign \notin {None, store[q.session].campaign}

(* The definition narrows the question only with the checkout it is of.    *)
Narrowed(q) == IF q.checkout = None THEN [q EXCEPT !.context = None] ELSE q

Exactly(q) ==
    IF q.session = None THEN q ELSE [q EXCEPT !.campaign = store[q.session].campaign]

(* A question from the root of the repository, within a known campaign and *)
(* a definition of the configured workspace, is moved to the checkout its  *)
(* live sessions recorded; the Environment refuses to choose between       *)
(* several.                                                                *)
Relocated(q) ==
    LET recorded == {store[s].checkout : s \in {t \in Sessions :
                       /\ Mine(t) /\ Live(t) /\ store[t].campaign = q.campaign
                       /\ store[t].context = q.context}} \ {None}
    IN  IF q.campaign = None \/ q.context \notin Standard \/ q.checkout # Root \/ recorded = {}
        THEN {q}
        ELSE IF Cardinality(recorded) > 1 THEN {}
        ELSE {[q EXCEPT !.checkout = c] : c \in recorded}

Listed(q) ==
    IF q.campaign # None /\ (~q.task \/ q.session # None)
    THEN {s \in Sessions : Live(s) /\ store[s].campaign = q.campaign}
    ELSE {s \in Sessions : Present(s)}

Surveyed(q) == {s \in Listed(q) : Live(s) /\ q.campaign \in {None, store[s].campaign}}

ProjectCampaigns(q) ==
    {store[s].campaign : s \in {t \in Surveyed(q) : Mine(t) /\ References(t, q) /\ Matches(t, q)}}

(* A slip: a foreign session of a campaign that is also the caller's.      *)
ForeignOwnerApart(q) ==
    \E s \in Surveyed(q) :
        /\ ~Mine(s)
        /\ \/ q.campaign # None
           \/ References(s, q) /\ Matches(s, q)
           \/ ClaimOverlaps(store[s].claims, q.checkout)

ForeignOwner(q) ==
    \E s \in Surveyed(q) :
        /\ ~Mine(s)
        /\ \/ q.campaign # None
           \/ References(s, q) /\ Matches(s, q)
           \/ ClaimOverlaps(store[s].claims, q.checkout)
           \/ store[s].campaign \in ProjectCampaigns(q)

-----------------------------------------------------------------------------
(* The lookup: the session a task is bound to.  The loop over the sessions *)
(* assigns the definition the question carries, so that once it has read   *)
(* one session the scope grants of the later ones are consulted too.       *)

Loose(q, context) == [q EXCEPT !.context = IF @ = None THEN context ELSE @]

RelevantCampaigns(q) ==
    ProjectCampaigns(q) \cup ({q.campaign} \ {None})
        \cup {store[s].campaign : s \in {t \in Listed(q) :
                                           Mine(t) /\ Matches(t, q) /\ References(t, q)}}

Readers(q) ==
    {s \in Listed(q) : Mine(s) /\ store[s].campaign \in RelevantCampaigns(q) /\ Matches(s, q)}

(* The contexts whose binding is read: those of the readers and, in an     *)
(* unknown order, of any that only a grant lets in after the first.        *)
ContextsRead(q) ==
    LET first == Readers(q)
        later == UNION {Readers(Loose(q, store[s].context)) : s \in first} \ first
    IN  {{store[s].context : s \in first \cup more} : more \in SUBSET later}

(* The Environment's own choice among duplicates: the only one with a      *)
(* checkpoint, or the only one recorded at the checkout; or none.          *)
AuthoritativeDuplicate(S, checkout) ==
    LET by(P) == IF Cardinality(P) = 1 THEN P ELSE {}
        found == by({s \in S : store[s].checkpoint})
                   \cup by({s \in S : checkout # None /\ store[s].checkout = checkout})
    IN  IF found = {} THEN {S} ELSE {{s} : s \in found}

(* A binding read is unusable when its target left the checkout; one of    *)
(* another campaign than the one asked for is a conflict.                  *)
TaskTargets(q, contexts) == {binding[c] : c \in contexts} \ {None}

TaskRefused(q, contexts) ==
    LET targets == TaskTargets(q, contexts)
    IN  \/ \E c \in contexts : binding[c] # None /\ ~Matches(binding[c], Loose(q, c))
        \/ /\ targets # {} /\ q.campaign # None
           /\ q.campaign \notin {store[t].campaign : t \in targets}

ProjectBindings(q, contexts) ==
    {t \in TaskTargets(q, contexts) :
        /\ q.campaign \in {None, store[t].campaign}
        /\ \/ store[t].campaign \in ProjectCampaigns(q)
           \/ References(t, Loose(q, store[t].context))}

(* The sets of sessions the task may come down to.                         *)
TaskChoices(q, contexts) ==
    LET S == ProjectBindings(q, contexts)
    IN  IF Cardinality(S) < 2 THEN {S}
        ELSE AuthoritativeDuplicate(S, q.checkout) \cup AuthoritativeDuplicate(S, None)

-----------------------------------------------------------------------------
(* The lookup: the capsule of one campaign.                                *)

(* The checkout a row shows: the one a scope grant admits goes first.      *)
ShownCheckout(s, q) == IF ScopeGrantMatches(s, q.checkout) THEN q.checkout
                       ELSE store[s].checkout

Row(s, q) ==
    [session |-> s, context |-> store[s].context, lifecycle |-> store[s].lifecycle,
     linked |-> ReferenceBasis(s) \/ ScopeGrantMatches(s, q.checkout),
     checkout |-> ShownCheckout(s, q), claims |-> store[s].claims,
     checkpoint |-> store[s].checkpoint]

(* The sessions of the campaign at this checkout, or the task's one; none  *)
(* unless one of them is linked to the repository.                         *)
Matching(campaign, q, task) ==
    LET here == {s \in Surveyed(q) : /\ Mine(s) /\ store[s].campaign = campaign
                                     /\ Matches(s, IF task = None THEN q
                                                   ELSE Loose(q, store[task].context))
                                     /\ task \in {None, s}}
        linked == {s \in here : References(s, IF task = None THEN q
                                              ELSE Loose(q, store[task].context))}
    IN  IF q.session = None THEN IF linked = {} THEN {} ELSE here
        ELSE linked \cap {q.session}

(* One live owner of the checkout wins over its duplicates, several stay.  *)
Deduplicated(S, q) ==
    LET owners == {s \in S : ClaimMatches(store[s].claims, q.checkout)}
    IN  IF Cardinality(S) < 2 \/ q.checkout = None THEN {S}
        ELSE IF Cardinality(owners) = 1 THEN {owners}
        ELSE IF owners # {} THEN {S}
        ELSE AuthoritativeDuplicate(S, q.checkout)

CapsuleStatus(S) ==
    IF Cardinality({store[s].context : s \in S}) > 1 THEN "context-conflict"
    ELSE IF \E s \in S : store[s].lifecycle # "active" THEN "reconciliation-required"
    ELSE IF Cardinality(S) = 1 THEN "ready" ELSE "ambiguous"

Capsule(campaign, S, q, task) ==
    [status |-> CapsuleStatus(S), campaign |-> campaign, task |-> task,
     rows |-> {Row(s, q) : s \in S}, truncated |-> Cardinality(S) > MaxRows]

(* The answers to a question about given campaigns: each is a set, of the  *)
(* capsules of those that have one.                                        *)
Capsules(campaigns, q, task) ==
    LET found == {c \in campaigns : Matching(c, q, task) # {}}
        pick == [c \in found |-> Deduplicated(Matching(c, q, task), q)]
    IN  {{Capsule(c, f[c], q, task) : c \in found} :
            f \in {g \in [found -> UNION {pick[c] : c \in found}] :
                      \A c \in found : g[c] \in pick[c]}}

TaskLookup(q) ==
    UNION {IF TaskRefused(q, contexts) THEN {{}}
           ELSE UNION {IF Cardinality(S) # 1 THEN {{}}   \* ambiguous, unbound or not linked
                       ELSE UNION {IF ~Live(t) THEN {{}}
                                   ELSE Capsules({store[t].campaign}, q, t) : t \in S} :
                         S \in TaskChoices(q, contexts)} :
             contexts \in ContextsRead(q)}

Lookup(q) ==
    LET moved == IF ExactRefused(q) THEN {} ELSE Relocated(Exactly(Narrowed(q)))
        sees(w) == IF ForeignOwner(w) THEN {{}}
                   ELSE IF w.task THEN TaskLookup(w)
                   ELSE Capsules(IF w.campaign # None THEN {w.campaign}
                                 ELSE ProjectCampaigns(w), w, None)
    IN  IF moved = {} THEN {{}} ELSE UNION {sees(w) : w \in moved}

-----------------------------------------------------------------------------
(* Control's selection among the rows of one capsule.                      *)

Selectable(r) == r.lifecycle = "active" /\ r.linked

(* The context that narrows the rows: the task's, or the one of the        *)
(* definition, which a linked worktree and a root whose definition no row  *)
(* was entered with leave aside.                                           *)
Selector(cap, q) ==
    IF cap.task # None THEN store[cap.task].context
    ELSE IF \/ q.checkout \in Worktrees
            \/ q.checkout = Root /\ q.context \notin {r.context : r \in cap.rows}
         THEN None ELSE q.context

ExactContextRows(cap, q) ==
    {r \in cap.rows : /\ Selector(cap, q) \in {None, r.context}
                      /\ q.session \in {None, r.session}}

RowMatchesCheckout(r, checkout) ==
    r.checkout = checkout \/ ClaimMatches(r.claims, checkout)

(* A row whose recorded checkout is a worktree that still is registered.   *)
AtWorktree(r, registered) == Selectable(r) /\ r.checkout \in registered

(* The rows at the checkout asked for; from a root that has none, the rows *)
(* at worktrees.                                                           *)
CheckoutRows(cap, q, registered) ==
    LET exact == {r \in ExactContextRows(cap, q) : cap.task \in {None, r.session}}
        here == {r \in exact : q.checkout # None => RowMatchesCheckout(r, q.checkout)}
    IN  IF here # {} \/ q.checkout # Root THEN here
        ELSE {r \in exact : AtWorktree(r, registered)}

(* The checkout each of them was found at.                                 *)
FoundAt(r, q) == IF RowMatchesCheckout(r, q.checkout) THEN q.checkout ELSE r.checkout

(* A slip: the first of several with a checkpoint.                         *)
UniqueAuthoritativeFirst(rows, q) ==
    LET owners == {r \in rows : ClaimOverlaps(r.claims, q.checkout)}
        ahead == {r \in rows : r.checkpoint}
    IN  IF Cardinality(owners) = 1 THEN owners
        ELSE IF owners # {} \/ ahead = {} THEN {} ELSE {CHOOSE r \in ahead : TRUE}

(* One of several rows of one context and checkout that alone holds a      *)
(* claim on it or, when none does, alone has a checkpoint.                 *)
UniqueAuthoritative(rows, q) ==
    LET at == {FoundAt(r, q) : r \in rows}
        unknown == {r \in rows : Cardinality(r.claims) > MaxClaims}
        owners == {r \in rows \ unknown : \A c \in at : ClaimOverlaps(r.claims, c)}
        ahead == {r \in rows : r.checkpoint}
    IN  IF \/ Cardinality({r.context : r \in rows}) > 1 \/ Cardinality(at) > 1
           \/ Cardinality(owners) > 1 \/ unknown # {}
        THEN {}
        ELSE IF owners # {} THEN owners
        ELSE IF Cardinality(ahead) = 1 THEN ahead ELSE {}

Unselected(cap, status) ==
    [status |-> status, session |-> None, basis |-> "none", cap |-> cap]

Selected(cap, r, basis) ==
    [status |-> "ready", session |-> r.session, basis |-> basis, cap |-> cap]

(* A capsule that was ready stops being so when its session does not fit.  *)
Unfit(cap) == Unselected(cap, IF cap.status = "ready" THEN "unfit" ELSE cap.status)

SelectRow(cap, q, registered) ==
    LET all == CheckoutRows(cap, q, registered)
        good == {r \in all : Selectable(r)}
        authoritative == IF Cardinality(good) > 1 /\ q.checkout # None
                         THEN UniqueAuthoritative(good, q) ELSE {}
    IN  IF good = {} THEN IF \E r \in all : Cardinality(all) = 1 /\ ~r.linked
                          THEN Unselected(cap, cap.status) ELSE Unfit(cap)
        ELSE IF authoritative # {}
             THEN Selected(cap, CHOOSE r \in authoritative : TRUE, "duplicate")
        ELSE IF Cardinality(good) > 1 THEN Unfit(cap)
        ELSE Selected(cap, CHOOSE r \in good : TRUE,
                      IF q.session # None THEN "link" ELSE "context")

SelectContext(cap, q, registered) ==
    IF cap.task # None /\ q.session \notin {None, cap.task} THEN Unselected(cap, "mismatch")
    ELSE IF \/ q.checkout = None /\ q.session = None /\ Selector(cap, q) = None
            \/ cap.status = "reconciliation-required" \/ cap.truncated
         THEN Unselected(cap, cap.status)
    ELSE SelectRow(cap, q, registered)

(* Of several campaigns, the only one of which a session can be selected.  *)
SelectCampaign(caps, q, registered) ==
    LET answers == {SelectContext(cap, q, registered) : cap \in caps}
        ready == {a \in answers : a.session # None}
    IN  IF Cardinality(caps) = 1 THEN answers
        ELSE IF Cardinality(caps) <= MaxRows /\ Cardinality(ready) = 1 THEN ready
        ELSE {}

(* Without a selection, an explicit campaign or session still names its    *)
(* only row.                                                               *)
ExplicitLink(a, q) ==
    IF /\ a.session = None /\ a.status = "ready" /\ ~a.cap.truncated
       /\ q.campaign # None \/ q.session # None
       /\ Cardinality(a.cap.rows) = 1 /\ \A r \in a.cap.rows : Selectable(r)
    THEN Selected(a.cap, CHOOSE r \in a.cap.rows : TRUE, "link")
    ELSE a

-----------------------------------------------------------------------------
(* The operations of a grant.                                              *)

(* A worktree may stop being registered while the rows are checked.        *)
AnswerSets(q) ==
    {{ExplicitLink(a, q) : a \in SelectCampaign(caps, q, registered)} :
        caps \in Lookup(q),
        registered \in SUBSET (Worktrees \cap Sites[q.site].registered)}

(* A session is bound when the answer is ready and, for a task, its own.   *)
Sessionable(a) == a.status = "ready" /\ a.session # None /\ a.cap.task \in {None, a.session}

Binds(answers) ==
    LET good == {a \in answers : Sessionable(a)}
    IN  IF good = {} THEN None ELSE (CHOOSE a \in good : TRUE).session

Unresolved(a) == Refused \in {CheckoutOf(a), AskedContext(a)}

(* A slip: a question that selects nothing leaves the last selection.      *)
ContinueKeeps(a) ==
    /\ ~Unresolved(a)
    /\ asked' = Question(a, AskedContext(a))
    /\ \E answers \in AnswerSets(asked') :
          bound' = IF Binds(answers) = None THEN bound ELSE Binds(answers)
    /\ UNCHANGED <<store, binding>>

Continue(a) ==
    /\ ~Unresolved(a)
    /\ asked' = Question(a, AskedContext(a))
    /\ \E answers \in AnswerSets(asked') : bound' = Binds(answers)
    /\ UNCHANGED <<store, binding>>

(* The selection is forgotten before the directory is looked at.           *)
Refuse(a) ==
    /\ Unresolved(a)
    /\ bound' = None
    /\ asked' = Question(a, AskedContext(a))
    /\ UNCHANGED <<store, binding>>

(* An entry that came back with session s asks about its campaign and the  *)
(* context it was entered in, if that can be confirmed.                    *)
EntryAsks(s, a) ==
    /\ Mine(s) /\ Live(s)
    /\ a.campaign = store[s].campaign /\ ~a.task /\ a.session = None

(* Without a confirmed context or a checkout the project's definition      *)
(* narrows the answer.                                                     *)
EnteredContext(s, a) ==
    LET context == EntryContext(a.grant, store[s].context, Place(a))
    IN IF context = None /\ CheckoutOf(a) = None THEN ContextOf(a) ELSE context

(* It binds s only when the checkout or the context alone select it.       *)
AttachEntry(s, a) ==
    /\ EntryAsks(s, a)
    /\ asked' = Question(a, EnteredContext(s, a))
    /\ IF Refused \in {CheckoutOf(a), EnteredContext(s, a)}
       THEN bound' = None
       ELSE \E answers \in AnswerSets(asked') :
                bound' = IF \E x \in answers : x.session = s /\ x.basis = "context"
                         THEN s ELSE None
    /\ UNCHANGED <<store, binding>>

(* A session that its owner handed to the caller is accepted.              *)
Accept(s) ==
    /\ Present(s) /\ store[s].lifecycle = "handed-off"
    /\ LET accepted == [store[s] EXCEPT !.owner = "me", !.lifecycle = "active"]
       IN /\ accepted \in Snapshots
          /\ store' = [store EXCEPT ![s] = accepted]
    /\ bound' = s
    /\ UNCHANGED <<binding, asked>>

(* Publishing a binding is the Environment's, which never moves one.       *)
TaskBind(s) ==
    LET fits == /\ Mine(s) /\ store[s].lifecycle = "active" /\ ReferenceBasis(s)
                /\ binding[store[s].context] \in {None, s}
    IN  /\ Present(s)
        /\ binding' = IF fits THEN [binding EXCEPT ![store[s].context] = s] ELSE binding
        /\ bound' = IF fits THEN s ELSE None
        /\ UNCHANGED <<store, asked>>

(* The answer is given; the store moves on before the next question.       *)
Given == asked # None /\ asked' = None /\ UNCHANGED <<store, binding, bound>>

Next ==
    \/ /\ asked = None
       /\ \/ \E s \in Sessions, r \in Snapshots : Enter(s, r) \/ Change(s, r)
          \/ \E a \in Asks : Continue(a) \/ Refuse(a)
          \/ \E s \in Sessions, a \in Asks : AttachEntry(s, a)
          \/ \E s \in Sessions : TaskBind(s) \/ Accept(s)
    \/ Given

Spec == Init /\ [][Next]_vars

-----------------------------------------------------------------------------
Answered == asked # None /\ bound # None

WorksAt(s, checkout) ==
    \/ store[s].checkout = checkout \/ store[s].grant = checkout
    \/ ClaimMatches(store[s].claims, checkout)

(* A question from the root of the repository may be about a worktree.     *)
PlacesAsked == {asked.checkout} \cup (IF asked.checkout = Root THEN Worktrees ELSE {})

(* What a question binds is a session of the caller that may be continued, *)
(* that a durable fact ties to the repository, and that lies within        *)
(* everything the question names, asked from no checkout but the innermost *)
(* around the directory, a registered one: a question whose directory or   *)
(* definition is refused leaves none; and the state has its types.         *)
BoundIsAuthorized ==
    /\ TypeOK
    /\ Answered =>
          /\ Mine(bound) /\ store[bound].lifecycle = "active"
          /\ ReferenceBasis(bound) \/ store[bound].grant # None
          /\ Refused \notin {asked.checkout, asked.context}
          /\ asked.campaign \in {None, store[bound].campaign}
          /\ asked.session \in {None, bound}
          /\ asked.checkout = None \/ \E found \in PlacesAsked : WorksAt(bound, found)
          /\ asked.task => \E c \in Contexts : binding[c] = bound
          /\ \A d \in ToSet(Path[asked.cwd]) : Sites[asked.site].marker[d] # "none" =>
                asked.checkout \in Sites[asked.site].registered /\ Inside(asked.checkout, d)

(* No question binds a session while another principal's live session has  *)
(* the campaign of the bound one; nor, when it names neither campaign nor  *)
(* session, while one holds a claim on its checkout.  A task asked for     *)
(* with neither campaign nor definition is excepted: the scope grants that *)
(* its loop admits late are not part of the look for foreign owners.       *)
ForeignWorkIsRefused ==
    Answered /\ ~(asked.task /\ asked.campaign = None /\ asked.context = None) =>
        \A s \in Sessions : Live(s) /\ ~Mine(s) =>
            /\ store[s].campaign # store[bound].campaign
            /\ asked.campaign = None /\ asked.session = None
                 => ~ClaimOverlaps(store[s].claims, asked.checkout)

(* A question from a checkout that names neither its session nor a task    *)
(* never chooses between two that are as good: the others of the campaign  *)
(* at the checkout where it found one, entered in the same context, lack   *)
(* the claim, the record or the checkpoint that decides; a question from   *)
(* the root that was moved to a worktree also prefers the one of its       *)
(* sessions with a claim on the root.  Questions of a task, or from no     *)
(* checkout, are not spoken of.                                            *)
Rivals(s, checkout) ==
    {t \in Sessions \ {s} :
        /\ Mine(t) /\ store[t].lifecycle = "active" /\ ReferenceBasis(t)
        /\ store[t].campaign = store[s].campaign /\ store[t].context = store[s].context
        /\ WorksAt(t, checkout)}

Recorded(s, checkout) == checkout \in {store[s].checkout, store[s].grant}

Outranks(s, t, checkout) ==
    \/ ClaimOverlaps(store[s].claims, checkout) /\ ~ClaimOverlaps(store[t].claims, checkout)
    \/ ClaimMatches(store[s].claims, checkout) /\ ~ClaimMatches(store[t].claims, checkout)
    \/ store[s].checkpoint /\ ~store[t].checkpoint
    \/ store[s].checkout = checkout /\ store[t].checkout # checkout
    \/ Recorded(s, checkout) /\ ~Recorded(t, checkout)

NeverGuesses ==
    Answered /\ asked.session = None /\ ~asked.task /\ asked.checkout # None =>
        \E found \in PlacesAsked :
            /\ WorksAt(bound, found)
            /\ \A t \in Rivals(bound, found) :
                  \E place \in {found, asked.checkout} : Outranks(bound, t, place)
=============================================================================
