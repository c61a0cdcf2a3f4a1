---------------------------- MODULE OpenedFiles ----------------------------
(***************************************************************************)
(* opened-files.md: the files the trainer opened in the IDE, with a link to *)
(* GitHub for each (daemon/files_md.py, github_client.py).  The add-on's    *)
(* thread records an opening: it reads the document, asks GitHub, and       *)
(* writes the document.  The relink command (relink_open_files.py) does the *)
(* same for all of it, in a process of its own and with a cache of its own. *)
(* GitHub may refuse to answer at any time.                                 *)
(***************************************************************************)
EXTENDS Integers, FiniteSets, Sequences, SequencesExt, FiniteSetsExt

CONSTANTS
  Repos, Public,      \* repositories, and those that everybody may see
  Branches, Default,  \* branches, and the default branch
  Paths, None,
  MaxOpens            \* bound on the openings

OpenedAssumption ==
  /\ Public \subseteq Repos /\ Default \in Branches /\ None \notin Branches
  /\ MaxOpens \in Nat \ {0}

VARIABLES
  pushed, ever,   \* what is on GitHub, and what has ever been
  doc,            \* opened-files.md: of every repository its branch and its entries
  legacy,         \* git_repos in session-state.json: openings to migrate
  seen, trees,    \* _REPO_CACHE and _TREE_CACHE of the daemon
  todo, opens,    \* openings that the add-on's thread works on; how many there were
  mine, cli,      \* the document as the recorder, and as the relink command, has read it
  kept, crossed,  \* history: the openings that were written; two writers overlapped
  rotten          \* history: links to nothing that a pass left though GitHub answered it

recorderVars == <<seen, trees, todo, opens, mine>>
vars == <<pushed, ever, doc, legacy, recorderVars, cli, kept, crossed, rotten>>

Openings == Repos \X Branches \X Paths
Entry == [path : Paths, branch : Branches, at : 0 .. MaxOpens,
          link : Branches \cup {None},
          reason : {"none", "not-pushed", "no-branch", "rate-limited", "unknown"}]

NoEntries == [branch |-> None, entries |-> {}]
EmptyDoc == [r \in Repos |-> NoEntries]

\* Documents without entries are never written: the file exists from the first entry on.
Exists == \E r \in Repos : doc[r].entries # {}

\* Doc.display_branch: the branch of most entries; ties go to the latest opening.
DisplayBranch(repo) ==
  LET Count(b) == Cardinality({e \in repo.entries : e.branch = b})
      tied == {b \in Branches : \A c \in Branches : Count(b) >= Count(c)}
  IN IF repo.entries = {} \/ repo.branch \in tied THEN repo.branch
     ELSE (CHOOSE e \in repo.entries : e.branch \in tied
             /\ \A f \in repo.entries : f.branch \in tied => e.at >= f.at).branch

----------------------------------------------------------------------------
(* GitHub: what it answers, and what of it is remembered                    *)

\* Per branch: the tree is listed, only the page of the file answers, or nothing does.
Answers == [Branches -> {"tree", "page", "none"}]

Push(r, b, p) ==
  /\ pushed' = pushed \cup {<<r, b, p>>} /\ ever' = ever \cup pushed' /\ pushed' # pushed
  /\ UNCHANGED <<doc, legacy, recorderVars, cli, kept, crossed, rotten>>

DeleteBranch(r, b) ==
  /\ b # Default /\ pushed' = {x \in pushed : x[1] # r \/ x[2] # b} /\ pushed' # pushed
  /\ UNCHANGED <<ever, doc, legacy, recorderVars, cli, kept, crossed, rotten>>

Listing(r, b) == {p \in Paths : <<r, b, p>> \in pushed}

NoTrees == [r \in Repos |-> [b \in Branches |-> None]]

\* get_repo_tree after one more answer: a listing is kept for the life of the process, also
\* that there is no such branch ({}).
Fetched(tree, r, asked, net) ==
  [tree EXCEPT ![r] = [b \in Branches |->
     IF tree[r][b] = None /\ b \in asked /\ net[b] = "tree" THEN <<Listing(r, b)>>
     ELSE tree[r][b]]]

\* Rejected variant of CheckRef: what was not refused is there.
CheckRefHopeful(tree, r, b, p, net) ==
  CASE tree[r][b] # None -> IF p \in tree[r][b][1] THEN "present" ELSE "absent"
    [] tree[r][b] = None /\ net[b] = "none" -> "present"
    [] OTHER -> IF p \in Listing(r, b) THEN "present" ELSE "absent"

\* _check_ref: present, absent, or no definitive answer.
CheckRef(tree, r, b, p, net) ==
  CASE tree[r][b] # None -> IF p \in tree[r][b][1] THEN "present" ELSE "absent"
    [] tree[r][b] = None /\ net[b] = "none" -> "unknown"
    [] OTHER -> IF p \in Listing(r, b) THEN "present" ELSE "absent"

\* resolve_entry: the dominant branch first, the entry's own, the default one; and whether
\* the branch exists, where an answer that does not come counts as no.
ResolveEntry(tree, r, b, dominant, p, net) ==
  LET refs == (IF dominant \in {None, b} THEN <<>> ELSE <<dominant>>) \o <<b>>
              \o (IF b = Default THEN <<>> ELSE <<Default>>)
      Check(i) == CheckRef(tree, r, refs[i], p, net)
      hits == {i \in 1 .. Len(refs) : Check(i) = "present"}
      asked == IF hits = {} THEN ToSet(refs) ELSE ToSet(SubSeq(refs, 1, Min(hits)))
      after == Fetched(tree, r, asked, net)
  IN [ link |-> IF hits = {} THEN None ELSE refs[Min(hits)],
       reason |-> IF hits # {} THEN "none"
                  ELSE IF \E i \in 1 .. Len(refs) : Check(i) = "unknown" THEN "unknown"
                  ELSE IF after[r][b] \in {None, <<{}>>} THEN "no-branch" ELSE "not-pushed",
       tree |-> after ]

----------------------------------------------------------------------------
(* record_file_opened, on the thread of the add-on's bridge                 *)

\* migrate_session_if_needed: the openings of an old session, unless the document is there.
ToMigrate == IF Exists THEN <<>> ELSE SetToSeq(legacy)

\* An event comes; what is to be migrated goes first.
Opened(o) ==
  /\ todo = <<>> /\ todo' = ToMigrate \o <<o>>
  /\ opens + Len(todo') <= MaxOpens
  /\ UNCHANGED <<pushed, ever, doc, legacy, seen, trees, opens, mine, cli, kept, crossed, rotten>>

\* The opening is dealt with; after the last of the migrated ones the key is stripped.
Done ==
  /\ todo' = Tail(todo) /\ mine' = None
  /\ legacy' = IF Len(todo) = 2 THEN {} ELSE legacy

\* get_repo_info says private, or nothing: the opening is dropped.  Only a clear no is kept.
Drop ==
  /\ todo # <<>> /\ mine = None
  /\ LET r == Head(todo)[1] IN
     /\ seen[r] # "public"
     /\ seen' \in {seen} \cup (IF r \in Public THEN {} ELSE {[seen EXCEPT ![r] = "hidden"]})
  /\ Done
  /\ UNCHANGED <<pushed, ever, doc, trees, opens, cli, kept, crossed, rotten>>

\* Rejected variant of Load: the rate limit is no reason to drop an opening.
LoadAnyway ==
  /\ todo # <<>> /\ mine = None
  /\ mine' = [limited |-> seen[Head(todo)[1]] = "unasked", doc |-> doc]
  /\ UNCHANGED <<pushed, ever, doc, seen, trees, opens, cli, kept, crossed, todo, legacy, rotten>>

\* The repository is public, or the rate limit hides whether it is: the document is read.
Load ==
  /\ todo # <<>> /\ mine = None
  /\ LET r == Head(todo)[1] IN
     \/ /\ seen[r] = "public" \/ (seen[r] = "unasked" /\ r \in Public)
        /\ seen' = [seen EXCEPT ![r] = "public"]
        /\ mine' = [limited |-> FALSE, doc |-> doc]
        /\ UNCHANGED <<todo, legacy>>
     \/ /\ seen[r] = "unasked" /\ UNCHANGED seen
        /\ IF doc[r].entries # {}
           THEN mine' = [limited |-> TRUE, doc |-> doc] /\ UNCHANGED <<todo, legacy>>
           ELSE Done                      \* unknown and maybe private: dropped
  /\ UNCHANGED <<pushed, ever, doc, trees, opens, cli, kept, crossed, rotten>>

\* Rejected variant of Save: the repository is written anew.
SaveAnew(net) ==
  /\ mine # None
  /\ LET r == Head(todo)[1]  b == Head(todo)[2]  p == Head(todo)[3]
         found == ResolveEntry(trees, r, b, None, p, net)
         entry == [path |-> p, branch |-> b, at |-> opens', link |-> found.link,
                   reason |-> found.reason]
     IN /\ opens' = opens + 1
        /\ doc' = [mine.doc EXCEPT ![r] = [branch |-> b, entries |-> {entry}]]
        /\ trees' = found.tree
        /\ kept' = kept \cup {<<r, p>>}
  /\ crossed' = (crossed \/ doc # mine.doc)
  /\ Done /\ UNCHANGED <<pushed, ever, seen, cli, rotten>>

\* GitHub is asked, and the document written: an answer that did not come keeps the link.
Save(net) ==
  /\ mine # None
  /\ LET r == Head(todo)[1]  b == Head(todo)[2]  p == Head(todo)[3]
         old == {e \in mine.doc[r].entries : e.path = p}
         found == ResolveEntry(trees, r, b, None, p, net)
         keeps == old # {} /\ (mine.limited \/ found.reason = "unknown")
         answer == IF keeps THEN CHOOSE e \in old : TRUE
                   ELSE IF mine.limited THEN [link |-> None, reason |-> "rate-limited"]
                   ELSE found
         entry == [path |-> p, branch |-> b, at |-> opens', link |-> answer.link,
                   reason |-> answer.reason]
     IN /\ opens' = opens + 1
        /\ doc' = [mine.doc EXCEPT ![r] =
             [branch |-> b, entries |-> (mine.doc[r].entries \ old) \cup {entry}]]
        /\ trees' = (IF mine.limited THEN trees ELSE found.tree)
        /\ kept' = kept \cup {<<r, p>>}
  /\ crossed' = (crossed \/ doc # mine.doc)
  /\ Done /\ UNCHANGED <<pushed, ever, seen, cli, rotten>>

\* A restart of the daemon forgets the caches and the opening under way.
Restart ==
  /\ todo' = <<>> /\ mine' = None /\ trees' = NoTrees
  /\ seen' = [r \in Repos |-> "unasked"]
  /\ UNCHANGED <<pushed, ever, doc, legacy, opens, cli, kept, crossed, rotten>>

----------------------------------------------------------------------------
(* relink_folder, in a process of its own                                   *)

Relink ==
  /\ Exists /\ cli = None /\ cli' = <<doc>>
  /\ UNCHANGED <<pushed, ever, doc, legacy, recorderVars, kept, crossed, rotten>>

\* Rejected variant of Relinked: only the entries without a link are resolved.
RelinkedMissing(repo, r, net) ==
  LET dominant == DisplayBranch(repo)
      Again(e) == LET found == ResolveEntry(NoTrees, r, e.branch, dominant, e.path, net) IN
                  IF found.reason = "unknown" \/ e.link # None THEN e
                  ELSE [e EXCEPT !.link = found.link, !.reason = found.reason]
  IN [repo EXCEPT !.entries = {Again(e) : e \in @}]

\* Every entry is resolved again, the dominant branch first; what adopts it says so.
Relinked(repo, r, net) ==
  LET dominant == DisplayBranch(repo)
      Again(e) == LET found == ResolveEntry(NoTrees, r, e.branch, dominant, e.path, net) IN
                  IF found.reason = "unknown" THEN e
                  ELSE [e EXCEPT !.link = found.link, !.reason = found.reason,
                          !.branch = IF found.link = dominant THEN dominant ELSE @]
  IN [repo EXCEPT !.entries = {Again(e) : e \in @}]

\* The links of a repository after the pass.
Links(r) == {<<r, e.link, e.path>> : e \in {e \in doc'[r].entries : e.link # None}}

\* The document is written when it has changed; repositories that do not answer stay.
RelinkSave(up, net) ==
  /\ cli # None /\ cli' = None
  /\ LET now == [r \in Repos |-> IF r \in up THEN Relinked(cli[1][r], r, net) ELSE cli[1][r]]
     IN IF now = cli[1] THEN UNCHANGED <<doc, crossed>>
        ELSE doc' = now /\ crossed' = (crossed \/ doc # cli[1])
  /\ rotten' = (IF doc # cli[1] \/ \E b \in Branches : net[b] = "none" THEN rotten
                ELSE {e \in UNION {Links(r) : r \in up} : e \notin pushed})
  /\ UNCHANGED <<pushed, ever, legacy, recorderVars, kept>>

Init ==
  /\ pushed = {} /\ ever = {} /\ doc = EmptyDoc
  /\ legacy \in {{<<r, Default, p>>} : r \in Public, p \in Paths} \cup {{}}
  /\ seen = [r \in Repos |-> "unasked"] /\ trees = NoTrees
  /\ todo = <<>> /\ opens = 0 /\ mine = None /\ cli = None /\ kept = {}
  /\ crossed = FALSE /\ rotten = {}

GitHub == \E r \in Public, b \in Branches :
            DeleteBranch(r, b) \/ \E p \in Paths : Push(r, b, p)

Recorder ==
  \/ \E o \in Openings : Opened(o)
  \/ Drop \/ Load \/ (\E net \in Answers : Save(net)) \/ Restart

Relinker == Relink \/ \E up \in SUBSET Public, net \in Answers : RelinkSave(up, net)

Next == GitHub \/ Recorder \/ Relinker

Spec == Init /\ [][Next]_vars

----------------------------------------------------------------------------
(* Properties                                                               *)

\* The variables have the types the code gives them.
TypeOK ==
  /\ ever \subseteq Openings /\ pushed \subseteq ever
  /\ \A r \in Repos : /\ doc[r].branch \in Branches \cup {None}
                      /\ doc[r].entries \subseteq Entry
                      /\ seen[r] \in {"unasked", "public", "hidden"}
  /\ legacy \subseteq Openings /\ todo \in Seq(Openings) /\ opens \in 0 .. MaxOpens
  /\ kept \subseteq Repos \X Paths /\ crossed \in BOOLEAN /\ rotten \subseteq Openings

\* files_md.py:476 "never list", :484: no private repository is in the document, whatever
\* GitHub answers; and every link leads to a file that was there.
NothingPrivate ==
  \A r \in Repos : \A e \in doc[r].entries :
    /\ r \in Public
    /\ e.link # None => <<r, e.link, e.path>> \in ever

\* :448: an opening that was written stays in the document, once per file, as long as the
\* recorder and the relink command do not overlap.
OpenedStays ==
  ~crossed => \A x \in kept : Cardinality({e \in doc[x[1]].entries : e.path = x[2]}) = 1

\* relink_open_files.py:5-7: after a pass to which GitHub answered no link is left that has
\* rotted, whoever deleted the branch.
RelinkHeals == rotten = {}

----------------------------------------------------------------------------
(* Promises the code does not keep; TLC shows how                           *)

\* The same when they overlap.
OpenedAlwaysStays == \A x \in kept : \E e \in doc[x[1]].entries : e.path = x[2]

\* files_md.py:413, "a transient GitHub failure must never be reported" as "no-branch".
ReasonsAreFacts ==
  [][\A r \in Repos : \A e \in doc'[r].entries \ doc[r].entries :
       e.reason = "no-branch" => Listing(r, e.branch) = {}]_vars

\* files_md.py:540: what an old session had opened is in the document when its key is
\* stripped.
MigrationIsComplete ==
  [][legacy' # legacy => \A o \in legacy : \E e \in doc'[o[1]].entries : e.path = o[3]]_vars

----------------------------------------------------------------------------
(* The inductive invariant behind the theorems of LimitsProofs              *)

Docs == [Repos -> [branch : Branches \cup {None}, entries : SUBSET Entry]]

\* A document as it may be written: of public repositories, with links that once led somewhere.
Honest(d) ==
  /\ d \in Docs
  /\ \A r \in Repos : IsFiniteSet(d[r].entries) /\ \A e \in d[r].entries :
       r \in Public /\ (e.link # None => <<r, e.link, e.path>> \in ever)

\* What is remembered of GitHub was so once.
Remembered(tree) ==
  /\ tree \in [Repos -> [Branches -> {None} \cup {<<s>> : s \in SUBSET Paths}]]
  /\ \A r \in Repos, b \in Branches :
       tree[r][b] # None => \A p \in tree[r][b][1] : <<r, b, p>> \in ever

\* The openings that are worked on are few enough; the one under way is of a public repository.
Waiting ==
  /\ todo \in Seq(Openings) /\ opens \in Nat /\ opens + Len(todo) <= MaxOpens
  /\ legacy \subseteq Openings /\ \A o, q \in legacy : o = q
  /\ mine # None => todo # <<>> /\ Head(todo)[1] \in Public

OpenedInv ==
  /\ pushed \subseteq ever /\ Waiting
  /\ seen \in [Repos -> {"unasked", "public", "hidden"}]
  /\ \A r \in Repos : seen[r] = "public" => r \in Public
  /\ Remembered(trees) /\ Honest(doc)
  /\ mine # None => Honest(mine.doc)
  /\ cli # None => Honest(cli[1])

\* An opening has one entry in its document, whoever rewrites it.
OncePerFile(d) == \A r \in Repos : \A e, f \in d[r].entries : e.path = f.path => e = f

\* What was written is there, until two writers overlap; and a pass leaves no rotten link.
KeptInv ==
  /\ OncePerFile(doc)
  /\ mine # None => OncePerFile(mine.doc)
  /\ cli # None => OncePerFile(cli[1])
  /\ kept \subseteq Repos \X Paths /\ crossed \in BOOLEAN
  /\ ~crossed => \A x \in kept : \E e \in doc[x[1]].entries : e.path = x[2]
  /\ RelinkHeals
=============================================================================
