------------------------------- MODULE Scope -------------------------------
(***************************************************************************)
(* What a scan may count and enter (internal/scope).  A path is the        *)
(* sequence of the names below the scan's root; names are integers in the  *)
(* order of their spelling, those that begin with a dot are negative.  No  *)
(* name begins another, so that the order of the joined strings is the     *)
(* order name by name.  A policy is a record; the paths of its rules are   *)
(* spelled without aliases, and a pattern without wildcards stands for     *)
(* every pattern.                                                          *)
(***************************************************************************)
EXTENDS Integers, SequencesExt

\* pathWithin: child is parent itself or below it.
Within(parent, child) == IsPrefix(parent, child)

\* The order of paths, name by name; above comes before below.
PathLess(p, q) ==
    \/ IsStrictPrefix(p, q)
    \/ \E i \in DOMAIN p \cap DOMAIN q :
          p[i] < q[i] /\ \A j \in 1..(i - 1) : p[j] = q[j]

IsHidden(name) == name < 0

\* The virtual paths are compared by their spelling alone.
IsVirtual(policy, path) == \E v \in policy.virtual : Within(v, path)

\* Exclusions are compared by spelling and once more with aliases resolved.
ExcludedPath(policy, path, physical) ==
    \E x \in policy.exclude : Within(x, path) \/ Within(x, physical)

\* The inclusions admit what is below them and the way to them.
IncludedPath(policy, path) ==
    policy.include # {} =>
        \E i \in policy.include : Within(i, path) \/ Within(path, i)

RejectsPath(policy, path, physical) ==
    IsVirtual(policy, path) \/ ExcludedPath(policy, path, physical)

AllowsPath(policy, path, physical) ==
    ~RejectsPath(policy, path, physical) /\ IncludedPath(policy, path)

AllowsFilesystem(policy, fstype) ==
    /\ fstype \notin policy.excludeFS
    /\ policy.includeFS # {} => fstype \in policy.includeFS

\* FSOf: the type of the longest mount point above the path.
FSOf(mounts, path) ==
    LET above == {m \in mounts : Within(m.at, path)}
        nearest == CHOOSE m \in above : \A o \in above : Len(o.at) <= Len(m.at)
    IN IF above = {} THEN "unknown" ELSE nearest.fstype

AllowsTarget(policy, path, physical, childDev, parentDev, childFS) ==
    /\ policy.crossDevice \/ childDev = parentDev
    /\ AllowsFilesystem(policy, childFS)
    /\ AllowsPath(policy, path, physical)

\* Entry: path is the visible one, relative to the root.
AllowsEntry(policy, path, physical) ==
    /\ policy.includeHidden \/ ~IsHidden(Last(path))
    /\ AllowsPath(policy, path, physical)
    /\ \A g \in policy.globs : g # <<Last(path)>> /\ g # path

AllowsFile(policy, size) ==
    /\ policy.minSize > 0 => size >= policy.minSize
    /\ policy.maxSize > 0 => size <= policy.maxSize

=============================================================================
