-------------------------- MODULE ProjectCheckout --------------------------
(***************************************************************************)
(* From the directory a request was made in to the repository, the         *)
(* registered checkout and the Environment definition it is about          *)
(* (_project_repository, _registered_project_checkout and                  *)
(* _project_environment_identity in environment_rpc.py).                   *)
(*                                                                         *)
(* A directory is known by its path below the workspace.  What Control     *)
(* reads there is a site: the Git markers, the directories reached through *)
(* a symbolic link, the checkouts that the Environment's verifier accepts, *)
(* the main checkout of each, the projects whose manifest agrees with      *)
(* their name, the definition files and the toolchains projects declare.   *)
(***************************************************************************)
EXTENDS Sequences, SequencesExt

CONSTANTS Dirs,
          Path,     \* [Dirs -> the directories from its project down to it]
          Sites,    \* [names -> site]
          Contexts, \* definitions, with the workspace they are entered in
          Standard, \* those of the configured workspace
          None, Refused

ASSUME StandardAssumption == Standard \subseteq Contexts

(* The path of each directory on a path is the part that leads to it.      *)
ASSUME PathAssumption ==
    /\ Path \in [Dirs -> Seq(Dirs) \ {<<>>}]
    /\ \A d \in Dirs : Last(Path[d]) = d
    /\ \A d \in Dirs : \A n \in 1 .. Len(Path[d]) :
          Path[Path[d][n]] = SubSeq(Path[d], 1, n)

Immediate(d) == Len(Path[d]) = 1
Inside(d, root) == root \in ToSet(Path[d])

(* The directories with a Git marker from the project down to d.           *)
Marked(d, site) == {e \in ToSet(Path[d]) : site.marker[e] # "none"}
(* The first of them that is met on the way up.                            *)
Innermost(dirs) == CHOOSE e \in dirs : \A above \in dirs : Inside(e, above)

(* The project of a grant; for a grant of the whole workspace, that of the *)
(* checkout around the directory, which Git itself looks for.              *)
Identified(root, site) == IF Immediate(root) /\ root \in site.named THEN root ELSE Refused

ProjectRepository(grant, cwd, site) ==
    LET marked == Marked(cwd, site)
        main == site.main[Innermost(marked)]
    IN IF grant.scope = "project" THEN Identified(grant.root, site)
       ELSE IF marked = {} \/ ~Inside(Innermost(marked), main) THEN Refused
       ELSE Identified(main, site)

(* The innermost marked directory, which must be a registered checkout:    *)
(* there is no falling back to the one around it.                          *)
RegisteredCheckout(grant, cwd, site) ==
    LET root == ProjectRepository(grant, cwd, site)
        marked == Marked(cwd, site)
    IN IF root = Refused \/ cwd \in site.aliased \/ ~Inside(cwd, root) THEN Refused
       ELSE IF marked = {} THEN None
       ELSE IF \/ site.marker[Innermost(marked)] = "link"
               \/ Innermost(marked) \notin site.registered
       THEN Refused
       ELSE Innermost(marked)

(* A campaign may have a root of its own inside the granted checkout, in   *)
(* which that repository's checkout lies alone.                            *)
CampaignRootAuthorized(file, root, site) ==
    /\ file.kind = "campaign" /\ file.explicit /\ file.intent = {root}
    /\ Inside(file.place, root) /\ file.place # root
    /\ site.marker[file.place] = "none" /\ file.place \in site.alone

(* Beyond its own repository a definition reads toolchains its project     *)
(* declares, all of them protected.                                        *)
EntryScopeAuthorized(file, root, site) ==
    IF file.kind = "campaign" THEN CampaignRootAuthorized(file, root, site)
    ELSE \/ file.repositories = {root}
         \/ /\ file.kind = "workspace" /\ file.intent = {root}
            /\ root \in file.repositories
            /\ file.protected = file.repositories \ {root}
            /\ file.protected \subseteq site.toolchains[file.place]

(* The definition of the checkout or, without one, of the project: the     *)
(* project's own file goes before the common one.                          *)
DefinitionOf(grant, cwd, site) ==
    LET root == ProjectRepository(grant, cwd, site)
        checkout == RegisteredCheckout(grant, cwd, site)
        dir == IF checkout = None THEN root ELSE checkout
        file == IF site.own[dir] # None THEN site.own[dir] ELSE site.common[dir]
    IN IF Refused \in {root, checkout} THEN Refused
       ELSE IF file = None THEN None
       ELSE IF /\ file # Refused
               /\ IF grant.scope = "project" THEN EntryScopeAuthorized(file, root, site)
                                             ELSE file.repositories = {root}
       THEN file.id ELSE Refused

(* The context an entry came back with: of the configured workspace, or of *)
(* a campaign's root whose definition still reads the same.                *)
EntryContext(grant, context, site) ==
    LET file == site.source[context]
    IN IF context \in Standard THEN context
       ELSE IF /\ grant.scope = "project" /\ file \notin {None, Refused}
               /\ file.id = context /\ CampaignRootAuthorized(file, grant.root, site)
       THEN context ELSE None
=============================================================================
