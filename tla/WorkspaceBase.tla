---------------------------- MODULE WorkspaceBase ----------------------------
(***************************************************************************)
(* The copy of the user's workspace that every layer stack starts from.    *)
(* Creators on the host copy the workspace into a cache keyed by the hash  *)
(* of what was copied; the daemon, when it boots on a root without a       *)
(* binding, copies it into its own root and binds the root to it, and      *)
(* otherwise checks the binding it finds. The user keeps editing meanwhile *)
(* and processes die between any two steps.                                *)
(*                                                                         *)
(* A tree is a function from file names; the hash of a tree is the tree.   *)
(***************************************************************************)
EXTENDS Integers, FiniteSets

CONSTANTS Files,          \* names in the workspace
          Creators,       \* concurrent build_shared_workspace_base calls
          MaxDisturbed    \* bound on edits, dying processes and failing calls

Daemon == "daemon"
Copiers == Creators \cup {Daemon}
Content == {"v1", "v2"}
Kinds == Content \cup {"absent", "special"}
Trees == [Files -> Content \cup {"absent"}]
Nothing == [f \in Files |-> "nothing"]

ASSUME BaseAssumption ==
    /\ Daemon \notin Creators
    /\ MaxDisturbed \in Nat

VARIABLES
  tree,      \* the workspace as the user has it
  copier,    \* where each copier stands
  found,     \* the files its walk found and it has not copied
  entries,   \* what it recorded for each file: the input of the root hash
  staging,   \* the staging directory it fills
  refused,   \* files it met that it cannot copy, or that had gone
  listed,    \* ghost: the files its walk found
  untouched, \* ghost: no edit since its walk began
  cache,     \* the cache: pairs of the hash that names an entry and its content
  root,      \* the daemon's layer stack root on disk
  spent      \* edits, deaths and faults so far

baseVars == <<tree, copier, found, entries, staging, refused, listed, untouched, cache, root, spent>>

CopySteps == {"idle", "walk", "copy", "promote", "rename", "digest", "manifest", "bind",
              "detach", "serving", "done", "failed", "dead"}
EmptyTree == [f \in Files |-> "absent"]
FreshRoot == [layer |-> Nothing, staged |-> FALSE, digest |-> Nothing, manifest |-> 0,
              binding |-> Nothing]
SeededRoot(t) == [layer |-> t, staged |-> FALSE, digest |-> t, manifest |-> 1, binding |-> t]

BaseTypeOK ==
    /\ tree \in [Files -> Kinds]
    /\ copier \in [Copiers -> CopySteps]
    /\ found \in [Copiers -> SUBSET Files] /\ refused \in [Copiers -> SUBSET Files]
    /\ listed \in [Copiers -> SUBSET Files] /\ untouched \in [Copiers -> BOOLEAN]
    /\ entries \in [Copiers -> Trees] /\ staging \in [Copiers -> Trees \cup {Nothing}]
    /\ cache \subseteq Trees \X Trees
    /\ root \in [layer : Trees \cup {Nothing}, staged : BOOLEAN, digest : Trees \cup {Nothing},
                 manifest : {0, 1}, binding : Trees \cup {Nothing}]

\* A root is new, was seeded with an archive made from a cache entry, or was seeded
\* and the volume that holds its base is empty.
BaseInit ==
    /\ tree = [f \in Files |-> "v1"]
    /\ copier = [c \in Copiers |-> "idle"]
    /\ found = [c \in Copiers |-> {}] /\ refused = [c \in Copiers |-> {}]
    /\ listed = [c \in Copiers |-> {}] /\ untouched = [c \in Copiers |-> TRUE]
    /\ entries = [c \in Copiers |-> EmptyTree] /\ staging = [c \in Copiers |-> Nothing]
    /\ cache = {}
    /\ root \in {FreshRoot, SeededRoot(tree), [SeededRoot(tree) EXCEPT !.layer = Nothing]}
    /\ spent = 0

----------------------------------------------------------------------------
Disturb == spent < MaxDisturbed /\ spent' = spent + 1
To(c, step) == copier' = [copier EXCEPT ![c] = step]
copyVars == <<found, entries, refused, listed, untouched>>

\* The user writes, replaces or removes a file.
EditWorkspace(f) ==
    /\ Disturb
    /\ \E k \in Kinds \ {tree[f]} : tree' = [tree EXCEPT ![f] = k]
    /\ untouched' = [c \in Copiers |-> FALSE]
    /\ UNCHANGED <<copier, found, entries, staging, refused, listed, cache, root>>

----------------------------------------------------------------------------
(* Copying: build_base_layer_under, for both kinds of copier. *)

BeginCopy(c) ==
    /\ To(c, "walk")
    /\ staging' = [staging EXCEPT ![c] = EmptyTree]
    /\ entries' = [entries EXCEPT ![c] = EmptyTree]
    /\ refused' = [refused EXCEPT ![c] = {}] /\ found' = [found EXCEPT ![c] = {}]
    /\ untouched' = [untouched EXCEPT ![c] = TRUE]
    /\ listed' = [listed EXCEPT ![c] = {}]

\* A new temporary directory per call.
CreateShared(c) ==
    /\ c \in Creators /\ copier[c] = "idle"
    /\ BeginCopy(c)
    /\ UNCHANGED <<tree, cache, root, spent>>

\* collect_subtree: what is neither a file, a directory nor a link is refused.
CollectSubtree(c) ==
    /\ copier[c] = "walk"
    /\ To(c, "copy")
    /\ found' = [found EXCEPT ![c] = {f \in Files : tree[f] \in Content}]
    /\ listed' = [listed EXCEPT ![c] = found'[c]]
    /\ refused' = [refused EXCEPT ![c] = {f \in Files : tree[f] = "special"}]
    /\ UNCHANGED <<tree, entries, staging, untouched, cache, root, spent>>

\* copy_one_file: the bytes that are written are the bytes that are hashed. A file
\* that has gone is unstable, one that cannot be read special: either refuses the
\* whole base.
CopyOneFile(c, f) ==
    /\ copier[c] = "copy" /\ f \in found[c]
    /\ found' = [found EXCEPT ![c] = @ \ {f}]
    /\ IF tree[f] \in Content
       THEN /\ staging' = [staging EXCEPT ![c][f] = tree[f]]
            /\ entries' = [entries EXCEPT ![c][f] = tree[f]]
            /\ UNCHANGED refused
       ELSE refused' = [refused EXCEPT ![c] = @ \cup {f}] /\ UNCHANGED <<entries, staging>>
    /\ UNCHANGED <<tree, copier, listed, untouched, cache, root, spent>>

\* The staging directory is removed, and the error ends the call or the boot.
Abandon(c) ==
    /\ To(c, "failed") /\ staging' = [staging EXCEPT ![c] = Nothing]
    /\ root' = IF c = Daemon THEN [root EXCEPT !.staged = FALSE] ELSE root
    /\ UNCHANGED <<tree, copyVars, cache>>

CopyEnds(c) ==
    /\ copier[c] = "copy" /\ found[c] = {}
    /\ \/ refused[c] # {} /\ Abandon(c) /\ UNCHANGED spent
       \/ refused[c] = {} /\ To(c, "promote") /\ UNCHANGED <<tree, staging, copyVars, cache, root, spent>>

TargetFails(c) ==
    /\ copier[c] \in {"walk", "copy"}
    /\ Disturb /\ Abandon(c)

----------------------------------------------------------------------------
(* The host's cache *)

Cached(h) == \E t \in Trees : <<h, t>> \in cache

Leave(c, step) == To(c, step) /\ staging' = [staging EXCEPT ![c] = Nothing]

\* An entry that exists is reused.
LookUpShared(c) ==
    /\ c \in Creators /\ copier[c] = "promote"
    /\ \/ Cached(entries[c]) /\ Leave(c, "done")
       \/ ~Cached(entries[c]) /\ To(c, "rename") /\ UNCHANGED staging
    /\ UNCHANGED <<tree, copyVars, cache, root, spent>>

\* The finished directory takes its name in one rename. Who loses the race finds a
\* directory there that is not empty, and fails: ENOTEMPTY is not AlreadyExists.
PublishShared(c) ==
    /\ copier[c] = "rename"
    /\ \/ ~Cached(entries[c]) /\ Leave(c, "done") /\ UNCHANGED spent
          /\ cache' = cache \cup {<<entries[c], staging[c]>>}
       \/ Cached(entries[c]) /\ Leave(c, "failed") /\ UNCHANGED <<cache, spent>>
       \/ Disturb /\ Leave(c, "failed")   \* the rename, or the fsync after it
          /\ cache' \in {cache, IF Cached(entries[c]) THEN cache ELSE cache \cup {<<entries[c], staging[c]>>}}
    /\ UNCHANGED <<tree, copyVars, root>>

----------------------------------------------------------------------------
(* The daemon's boot *)

\* validate_manifest_for_root
BindingValid ==
    root.manifest = 1 /\ root.layer # Nothing /\ root.digest = root.binding

\* reject_existing_base_state
RootEmpty == root.manifest = 0 /\ root.layer = Nothing /\ ~root.staged

EnsureWorkspaceBase ==
    /\ copier[Daemon] = "idle"
    /\ \/ /\ root.binding # Nothing
          /\ To(Daemon, IF BindingValid THEN "detach" ELSE "failed")
          /\ UNCHANGED <<staging, copyVars, root>>
       \/ /\ root.binding = Nothing /\ ~RootEmpty
          /\ To(Daemon, "failed")
          /\ UNCHANGED <<staging, copyVars, root>>
       \/ /\ root.binding = Nothing /\ RootEmpty
          /\ BeginCopy(Daemon) /\ root' = [root EXCEPT !.staged = TRUE]
    /\ UNCHANGED <<tree, cache, spent>>

\* Each of these writes may fail; what was written before it stays.
BootWrite(step, next, written) ==
    /\ copier[Daemon] = step
    /\ \/ To(Daemon, next) /\ root' = written /\ UNCHANGED spent
       \/ To(Daemon, "failed") /\ UNCHANGED root /\ Disturb
    /\ UNCHANGED <<tree, copyVars, staging, cache>>

PromoteBase ==
    /\ copier[Daemon] = "promote"
    /\ \/ /\ To(Daemon, "digest") /\ UNCHANGED spent
          /\ root' = [root EXCEPT !.layer = staging[Daemon], !.staged = FALSE]
          /\ staging' = [staging EXCEPT ![Daemon] = Nothing]
          /\ UNCHANGED <<tree, copyVars, cache>>
       \/ Disturb /\ Abandon(Daemon)

\* Mutant: the binding is written before the manifest.
WriteDigest_BindFirst ==
    BootWrite("digest", "manifest", [root EXCEPT !.digest = entries[Daemon], !.binding = entries[Daemon]])

WriteDigest == BootWrite("digest", "manifest", [root EXCEPT !.digest = entries[Daemon]])

WriteManifest == BootWrite("manifest", "bind", [root EXCEPT !.manifest = 1])

WriteBinding == BootWrite("bind", "detach", [root EXCEPT !.binding = entries[Daemon]])

\* The bind mount of the workspace is taken off; a failure panics.
DetachWorkspace == BootWrite("detach", "serving", root)

----------------------------------------------------------------------------
\* A process dies where it stands; its temporary directory stays.
Dies(c) ==
    /\ copier[c] \notin {"idle", "done", "failed", "dead"}
    /\ Disturb
    /\ To(c, "dead")
    /\ UNCHANGED <<tree, staging, copyVars, cache, root>>

\* The daemon is started again on the same root.
Reboot ==
    /\ copier[Daemon] \in {"dead", "failed"}
    /\ To(Daemon, "idle") /\ staging' = [staging EXCEPT ![Daemon] = Nothing]
    /\ UNCHANGED <<tree, copyVars, cache, root, spent>>

BaseNext ==
    \/ \E f \in Files : EditWorkspace(f)
    \/ \E c \in Copiers : \/ CreateShared(c) \/ CollectSubtree(c) \/ CopyEnds(c) \/ TargetFails(c)
                          \/ LookUpShared(c) \/ PublishShared(c) \/ Dies(c)
                          \/ \E f \in Files : CopyOneFile(c, f)
    \/ EnsureWorkspaceBase \/ PromoteBase \/ WriteDigest \/ WriteManifest \/ WriteBinding
    \/ DetachWorkspace \/ Reboot

BaseSpec == BaseInit /\ [][BaseNext]_baseVars

----------------------------------------------------------------------------
(* Properties *)

Copied(c) == copier[c] \in {"promote", "rename", "digest", "manifest", "bind"}

\* "workspace base must be a full copy": a copy that goes on to be used has every
\* file its walk found, and equals the workspace if that was not edited meanwhile.
FullCopy ==
    \A c \in Copiers : Copied(c) =>
        /\ \A f \in listed[c] : entries[c][f] # "absent"
        /\ untouched[c] => entries[c] = tree

\* What an entry of the cache holds is what its name says, whoever else was
\* building it and whoever died.
CacheEntryWhole == \A e \in cache : e[1] = e[2]

\* A call that returned has left no temporary directory.
NothingLeft == \A c \in Creators : copier[c] \in {"done", "failed"} => staging[c] = Nothing

\* A root that has a binding has all the binding vouches for, at every instant and
\* after every death (the seeded root whose volume is empty aside): the binding is
\* the last thing that is written, so a half-built base is never served.
BoundMeansWhole ==
    /\ (root.binding # Nothing /\ root.layer # Nothing) =>
          /\ root.manifest = 1 /\ root.digest = root.binding /\ root.layer = root.binding
    /\ copier[Daemon] \in {"detach", "serving"} => root.layer = root.binding /\ root.layer # Nothing

\* A base is a full copy of the workspace wherever it is found: being built, in
\* the cache, or bound to a root.
BasesWhole == BaseTypeOK /\ FullCopy /\ CacheEntryWhole /\ NothingLeft /\ BoundMeansWhole
============================================================================
