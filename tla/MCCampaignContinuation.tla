----------------------- MODULE MCCampaignContinuation -----------------------
(* One repository with a worktree, sessions of two principals; questions   *)
(* from its directories, as the filesystem may then be.                    *)
EXTENDS CampaignContinuation, TLC

CONSTANTS s1, s2, s3, home, tree, sub, nested, base

Snap(o, c, d, l, w, n, g, h, k) ==
    [owner |-> o, campaign |-> c, context |-> d, lifecycle |-> l, checkout |-> w,
     named |-> n, grant |-> g, claims |-> h, checkpoint |-> k]

MCSnapshots ==
    {Snap("me", "c1", "d1", "active", home, FALSE, None, {}, FALSE),
     Snap("me", "c1", "d1", "active", home, FALSE, None, {}, TRUE),
     Snap("me", "c1", "d1", "active", home, FALSE, None, {Whole}, TRUE),
     Snap("me", "c1", "d1", "active", home, FALSE, None, {home, Whole}, FALSE),
     Snap("me", "c1", "d1", "handed-off", home, FALSE, None, {}, FALSE),
     Snap("me", "c1", "d1", "completed", home, FALSE, None, {}, TRUE),
     Snap("me", "c1", "d1", "active", tree, FALSE, None, {tree}, TRUE),
     Snap("me", "c1", "d2", "active", tree, FALSE, None, {}, TRUE),
     Snap("me", "c2", "d1", "active", home, FALSE, None, {home}, TRUE),
     Snap("me", "c1", "d1", "active", None, TRUE, None, {}, FALSE),
     Snap("me", "c1", "d1", "active", None, FALSE, tree, {}, FALSE),
     Snap("other", "c1", "d1", "active", home, FALSE, None, {}, FALSE),
     Snap("other", "c2", "d2", "active", None, TRUE, None, {}, FALSE),
     Snap("other", "c2", "d2", "active", None, TRUE, None, {Whole}, FALSE)}

(* The repository has a directory sub, a checkout nested that nobody       *)
(* registered, and a campaign root around its worktree.                    *)
MCPath == [d \in {home, sub, nested, base, tree} |->
              CASE d = home -> <<home>> [] d = sub -> <<home, sub>>
                [] d = nested -> <<home, nested>> [] d = base -> <<home, base>>
                [] d = tree -> <<home, base, tree>>]

File(id, kind, more) ==
    [id |-> id, place |-> home, kind |-> kind, repositories |-> {home} \cup more,
     intent |-> {home}, protected |-> more, explicit |-> TRUE]
Plain == File("d1", "repository", {})
Tools == File("d1", "workspace", {"tools"})
Campaign == [File("d2", "campaign", {}) EXCEPT !.place = base]
All(x) == [d \in DOMAIN MCPath |-> x]
At(dirs, x, y) == [d \in DOMAIN MCPath |-> IF d \in dirs THEN x ELSE y]

Site(marked, registered, own, common, alone) ==
    [marker |-> At(marked, "git", "none"), aliased |-> {}, registered |-> registered,
     main |-> At({nested}, nested, home), named |-> {home}, alone |-> alone,
     own |-> own, common |-> common, toolchains |-> All({"tools"}),
     source |-> [c \in {"d1", "d2"} |-> IF c = "d2" THEN Campaign ELSE None]]
Checked == {home, tree, nested}
MCSites ==
    [git |-> Site(Checked, {home, tree}, At({tree}, Plain, None), All(Plain), {base}),
     bare |-> Site(Checked, {home, tree}, All(None), All(None), {}),
     flat |-> Site({}, {}, At({home}, Tools, None), All(Refused), {base}),
     empty |-> Site({}, {}, All(None), All(None), {}),
     closed |-> Site({}, {}, All(None), All(Refused), {}),
     moved |-> Site(Checked, {home}, All(None), At({home}, Tools, Plain), {}),
     wide |-> [Site(Checked, {home, tree}, All(None), All(Tools), {}) EXCEPT
                  !.toolchains = All({}), !.aliased = {sub}]]

Granted(scope) == [scope |-> scope, root |-> IF scope = "project" THEN home ELSE None]
Ask(c, t, s, d, site, scope) ==
    [campaign |-> c, task |-> t, session |-> s, cwd |-> d, site |-> site,
     grant |-> Granted(scope)]

MCAsks ==
    {Ask(c, t, None, d, "git", "project") : c \in {None, "c1"}, t \in BOOLEAN, d \in {sub, tree}}
    \cup {Ask(c, t, None, tree, "bare", "project") : c \in {None, "c1"}, t \in BOOLEAN}
    \cup {Ask(c, t, s, home, "git", "project") : c \in {None, "c1"}, t \in BOOLEAN,
                                s \in {s1, s2, s3}}
    \cup {Ask("c1", FALSE, s, home, "flat", "project") : s \in {s1, s2, s3}}
    \cup {Ask("c1", FALSE, None, d, "moved", "project") : d \in {home, nested, tree}}
    \cup {Ask("c1", FALSE, None, nested, "moved", "workspace"),
          Ask("c1", FALSE, None, sub, "wide", "project")}
    \cup {Ask("c1", FALSE, None, home, "empty", "project"),
          Ask(None, TRUE, None, home, "closed", "project")}

MCSymmetry == Permutations({s1, s2, s3})
=============================================================================
