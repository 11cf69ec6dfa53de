----------------------------- MODULE FileSystem -----------------------------
(***************************************************************************)
(* File systems, and the paths that lead to their files.                   *)
(***************************************************************************)
EXTENDS Integers, FiniteSets, Sequences, SequencesExt, FiniteSetsExt

(***************************************************************************)
(* The static operations of File (storage/file/file.cpp) on the local file *)
(* system and on HDFS and AFS (hdfs_file.cpp, dfs_file.cpp), which keep a  *)
(* cache of their connections to clusters.  A path is a record of the      *)
(* prefix that chooses the file system, the cluster with its user, and the *)
(* name on it, which is "" when the path is too short to have one.  The    *)
(* stores stand for the disk and for the clusters: which names exist, and  *)
(* with which contents, a number; 0 is a directory.                        *)
(***************************************************************************)
CONSTANTS
  Clusters,
  Names,        \* the names that may exist
  PathSets,     \* sets of paths that a program uses; a path without a user has the user "none"
  Unreliable,   \* the stores that may refuse new connections
  MaxCreates    \* bound on the files that are created

VARIABLES
  system_paths,        \* those the program uses
  store,        \* of the disk and of each cluster of HDFS and AFS
  fs_map,       \* the connections: file system, cluster and user
  down,         \* the stores that do refuse them
  created,      \* the number of files that were created
  ok            \* what the last operation returned

fs_vars == <<system_paths, store, fs_map, down, created, ok>>

Local    == <<"local", "disk">>
Stores   == {Local} \cup ({"hdfs", "afs"} \X Clusters)
Absent   == -1
Dir      == 0

\* The registered file system of the prefix, or the local one.
GetFileSystemByPath(p) == IF p.prefix = "other" THEN "local" ELSE p.prefix

Key(p)   == <<p.prefix, p.cluster, p.user>>
Where(p) == IF p.prefix = "other" THEN Local ELSE <<p.prefix, p.cluster>>

\* GetHDFSFS, GetAFSFS: the connection of the path, made when there is none.  AFS
\* has none without a user.
CanConnect(p) == /\ p.prefix = "afs" => p.user # "none"
                 /\ Key(p) \in fs_map \/ Where(p) \notin down
Reached(p)    == p.prefix = "other" \/ CanConnect(p)
Connected(ps) == fs_map \cup {Key(p): p \in {q \in ps: q.prefix # "other" /\ CanConnect(q)}}

\* Shift: the path on the cluster.
HasName(p) == p.name # ""
Usable(p)  == Reached(p) /\ HasName(p)
At(p)      == IF HasName(p) THEN store[Where(p)][p.name] ELSE Absent

Put(p, contents) == store' = [store EXCEPT ![Where(p)][p.name] = contents]

\* Every operation connects first, whether or not it can go on.
Attempt(p, can, contents, returns) ==
  /\ fs_map' = Connected({p})
  /\ IF Usable(p) /\ can THEN Put(p, contents) ELSE UNCHANGED store
  /\ ok' = returns
  /\ UNCHANGED down

\* Writing to a new file; an existing one is truncated by the local file system and
\* HDFS, and is taken as it is by AFS.
Open(p) ==
  /\ created < MaxCreates /\ created' = created + 1
  /\ Attempt(p, At(p) # Dir,
             IF p.prefix = "afs" /\ At(p) # Absent THEN At(p) ELSE created + 1, Usable(p) /\ At(p) # Dir)

\* remove() takes a directory too, and so do the others.
Delete(p) == Attempt(p, TRUE, Absent, Usable(p) /\ At(p) # Absent) /\ UNCHANGED created

\* hdfsCreateDirectory and hdfsDelete return 0 when they succeed, which Mkdir and
\* Rmdir of HDFS return as it is.
Negated(p, done) == Usable(p) /\ (p.prefix = "hdfs" <=> ~done)

Mkdir(p) == /\ Attempt(p, At(p) = Absent, Dir, Negated(p, At(p) = Absent))
            /\ UNCHANGED created

RmdirCan(p) == IF p.prefix = "other" THEN At(p) = Dir ELSE At(p) # Absent
Rmdir(p) == /\ Attempt(p, RmdirCan(p), Absent, Negated(p, RmdirCan(p)))
            /\ UNCHANGED created

\* Faulty: the file systems of the two paths are not compared.
RenameCanAnywhere(from, to) ==
  /\ Usable(from) /\ HasName(to)
  /\ from.prefix = "afs" => Reached(to) /\ Key(from) = Key(to)

\* The rename goes to the file system of both paths; that of HDFS compares the
\* connection of the first path with itself.
RenameCan(from, to) ==
  /\ GetFileSystemByPath(from) = GetFileSystemByPath(to)
  /\ Usable(from) /\ HasName(to)
  /\ from.prefix = "afs" => Reached(to) /\ Key(from) = Key(to)

\* Where it happens: on the store of the first path.
There(from, to) == [from EXCEPT !.name = to.name]
Moves(from, to) == /\ RenameCan(from, to) /\ At(from) # Absent
                   /\ from.prefix = "other" \/ At(There(from, to)) = Absent
                   /\ from.prefix = "other" => (At(to) = Dir => At(from) = Dir) /\ (At(from) = Dir => At(to) \in {Dir, Absent})

Rename(from, to) ==
  /\ fs_map' = IF GetFileSystemByPath(from) # GetFileSystemByPath(to) THEN fs_map
               ELSE Connected(IF from.prefix = "hdfs" THEN {from} ELSE {from, to})
  /\ IF Moves(from, to)
       THEN store' = [store EXCEPT ![Where(from)] =
                        [n \in Names |-> IF n = to.name THEN At(from) ELSE IF n = from.name THEN Absent ELSE @[n]]]
       ELSE UNCHANGED store
  /\ ok' = Moves(from, to)
  /\ UNCHANGED <<down, created>>

\* What the operations answer that change nothing but the cache.
Exists(p)  == Usable(p) /\ At(p) # Absent
GetSize(p) == IF Exists(p) THEN At(p) ELSE -1

Ask(p) == /\ fs_map' = Connected({p}) /\ ok' = Exists(p)
          /\ UNCHANGED <<store, down, created>>

Fail(s) == /\ down' = (IF s \in down THEN down \ {s} ELSE down \cup {s})
           /\ UNCHANGED <<store, fs_map, created, ok>>

Init == /\ system_paths \in PathSets
        /\ store = [s \in Stores |-> [n \in Names |-> Absent]]
        /\ fs_map = {} /\ down = {} /\ created = 0 /\ ok = FALSE

Step == \/ \E p \in system_paths: Open(p) \/ Delete(p) \/ Mkdir(p) \/ Rmdir(p) \/ Ask(p)
        \/ \E from, to \in system_paths: Rename(from, to)
        \/ \E s \in Unreliable: Fail(s)

Next == Step /\ UNCHANGED system_paths
Spec == Init /\ [][Next]_fs_vars
-----------------------------------------------------------------------------
Elsewhere(ps) ==
  \A s \in Stores, n \in Names: (\A p \in ps: <<s, n>> # <<Where(p), p.name>>) => store'[s][n] = store[s][n]
Kept(ps, done) == (~ok' => store' = store) /\ Elsewhere(ps) /\ (ok' => done)

\* An operation that returns true has done what it says at its paths, and one that
\* returns false has changed nothing; neither touches another path, and a rename
\* takes the contents with it.  Left out are Mkdir and Rmdir of HDFS, which return
\* the opposite, and its Rename to another cluster, which moves the file on the
\* first one.
FilesAreKept ==
  [][/\ \A p \in system_paths:
         /\ Open(p) => Kept({p}, At(p)' > Dir)
         /\ Delete(p) \/ (Rmdir(p) /\ p.prefix # "hdfs") => Kept({p}, At(p) # Absent /\ At(p)' = Absent)
         /\ Mkdir(p) /\ p.prefix # "hdfs" => Kept({p}, At(p) = Absent /\ At(p)' = Dir)
         /\ Ask(p) => Kept({p}, At(p) # Absent)
     /\ \A from, to \in system_paths:
         Rename(from, to) /\ (from.prefix = "hdfs" => Where(from) = Where(to) \/ to.prefix # "hdfs") =>
           Kept({from, to}, /\ Where(from) = Where(to) /\ At(to)' = At(from)
                            /\ from.name # to.name => At(from)' = Absent)]_fs_vars

-----------------------------------------------------------------------------
(***************************************************************************)
(* The names of files (storage/path/path.cpp and the pure part of          *)
(* path_ext.cc).  A path is a sequence of characters.  The state is the    *)
(* current directory of the process and two paths, a base and a file, that *)
(* grow character by character.                                            *)
(***************************************************************************)
CONSTANTS
  Chars,        \* the characters, "/" and "." among them
  Cwds,         \* absolute paths: what getcwd may answer
  MaxBase,      \* bounds on the lengths of the two paths
  MaxFile

VARIABLES cwd, base, file

path_vars == <<cwd, base, file>>

\* The index of the last c in s, 0 when there is none.
Rfind(s, c) == Max({0} \cup {i \in DOMAIN s: s[i] = c})
Dots(n) == [i \in 1..n |-> "."]

IsAbsolute(p) == p # <<>> /\ p[1] = "/"

\* A single trailing slash is no part of the name.
Trimmed(p) == IF Len(p) > 1 /\ p[Len(p)] = "/" THEN SubSeq(p, 1, Len(p) - 1) ELSE p

GetBaseName(p) == SubSeq(Trimmed(p), Rfind(Trimmed(p), "/") + 1, Len(Trimmed(p)))

GetDirectory(p) ==
  LET last_slash == Rfind(Trimmed(p), "/")
  IN CASE last_slash = 0 -> <<".">>
       [] last_slash = 1 -> <<"/">>
       [] OTHER          -> SubSeq(p, 1, last_slash - 1)

GetExtension(p) == IF Rfind(p, ".") = 0 THEN <<>> ELSE SubSeq(p, Rfind(p, "."), Len(p))

\* SplitStringKeepEmpty and SplitString at "/".
SplitKeepEmpty(p) ==
  FoldLeft(LAMBDA comps, c: IF c = "/" THEN Append(comps, <<>>)
                            ELSE [comps EXCEPT ![Len(comps)] = Append(@, c)], <<<<>>>>, p)
Split(p) == SelectSeq(SplitKeepEmpty(p), LAMBDA comp: comp # <<>>)

\* JoinStrings with "/".
JoinStrings(comps) ==
  FoldLeft(LAMBDA out, i: out \o (IF i = 1 THEN <<>> ELSE <<"/">>) \o comps[i],
           <<>>, [i \in DOMAIN comps |-> i])

InitialSlashes(p) ==
  IF ~IsAbsolute(p) THEN 0
  ELSE IF IsPrefix(<<"/", "/">>, p) /\ ~IsPrefix(<<"/", "/", "/">>, p) THEN 2 ELSE 1

\* A bug: a ".." with nothing before it is dropped in a relative path too.
CollapseDropsDots(initial_slashes, new_comps, comp) ==
  IF comp \in {<<>>, Dots(1)} THEN new_comps
  ELSE IF comp # Dots(2) \/ (new_comps # <<>> /\ new_comps[Len(new_comps)] = Dots(2))
       THEN Append(new_comps, comp)
  ELSE SubSeq(new_comps, 1, Len(new_comps) - 1)

\* The body of Normalize's loop.
Collapse(initial_slashes, new_comps, comp) ==
  IF comp \in {<<>>, Dots(1)} THEN new_comps
  ELSE IF \/ comp # Dots(2)
          \/ initial_slashes = 0 /\ new_comps = <<>>
          \/ new_comps # <<>> /\ new_comps[Len(new_comps)] = Dots(2)
       THEN Append(new_comps, comp)
  ELSE SubSeq(new_comps, 1, Len(new_comps) - 1)

Normalize(p) ==
  LET new_path ==
        [i \in 1..InitialSlashes(p) |-> "/"] \o
        JoinStrings(FoldLeft(LAMBDA comps, comp: Collapse(InitialSlashes(p), comps, comp),
                             <<>>, SplitKeepEmpty(p)))
  IN IF new_path = <<>> THEN <<".">> ELSE new_path

\* DoJoin, of any number of paths.
Join(paths) ==
  FoldLeft(LAMBDA result, p:
             IF p = <<>> THEN result
             ELSE IF IsAbsolute(p) \/ result = <<>> THEN p
             ELSE IF result[Len(result)] = "/" THEN result \o p
             ELSE result \o <<"/">> \o p,
           paths[1], Tail(paths))

ToAbsolute(p) == IF IsAbsolute(p) THEN Normalize(p) ELSE Normalize(Join(<<cwd, p>>))

Agree(b, f) == Max({n \in 0..Min({Len(b), Len(f)}): \A i \in 1..n: b[i] = f[i]})

RelativeComps(b, f, agree) ==
  [i \in 1..Len(b) - agree |-> Dots(2)] \o SubSeq(f, agree + 1, Len(f))

ToRelative(base_directory, file_path) ==
  LET b == Split(ToAbsolute(base_directory))
      f == Split(ToAbsolute(file_path))
      comps == RelativeComps(b, f, Agree(b, f))
  IN IF comps = <<>> THEN <<>> ELSE Join(comps)

\* path_ext.cc.  A file_part that is not assigned keeps what the caller had in it.
SplitStringPath(p, file_part) ==
  IF Rfind(p, "/") = 0 THEN [dir |-> p, file |-> file_part]
  ELSE [dir |-> SubSeq(p, 1, Rfind(p, "/") - 1), file |-> SubSeq(p, Rfind(p, "/") + 1, Len(p))]

ConcatStringPath(sections) == JoinStrings(sections)

\* The part up to the first delimiter that is not the first character.
GetPathPrefix(p) ==
  LET found == {i \in 2..Len(p): p[i] = "/"}
  IN IF found = {} THEN <<>> ELSE SubSeq(p, 1, Min(found))

-----------------------------------------------------------------------------
PathInit == cwd \in Cwds /\ base = <<>> /\ file = <<>>

GrowBase == \E c \in Chars:
  /\ Len(base) < MaxBase /\ file = <<>>
  /\ base' = Append(base, c)
  /\ UNCHANGED <<cwd, file>>

GrowFile == \E c \in Chars:
  /\ Len(file) < MaxFile
  /\ file' = Append(file, c)
  /\ UNCHANGED <<cwd, base>>

PathNext == GrowBase \/ GrowFile
PathSpec == PathInit /\ [][PathNext]_path_vars
-----------------------------------------------------------------------------
(* Where a path leads, in a tree without symbolic links: a sequence of     *)
(* names from the root.  A ".." of the root is the root.                   *)
Walk(from, p) ==
  FoldLeft(LAMBDA at, comp: IF comp = Dots(1) THEN at
                            ELSE IF comp = Dots(2) THEN IF at = <<>> THEN at ELSE Front(at)
                            ELSE Append(at, comp),
           IF IsAbsolute(p) THEN <<>> ELSE from, Split(p))
Place(p) == Walk(Walk(<<>>, cwd), p)

\* Whatever the two paths are and wherever the process is: Normalize changes a
\* path into one that leads to the same place, that it leaves alone when applied
\* again and that is no longer (but for the empty one).  ToAbsolute is absolute and
\* leads there too.  From the base, the path that ToRelative makes leads to the file,
\* it is never absolute and climbs before it descends.  The directory and
\* the base name of a path, joined, lead to where the path leads, so do the parts
\* of SplitStringPath of a relative path with a slash, and the extension is at
\* the end of a path.  (Two initial slashes stay two: Normalize of "//a" and of "/a"
\* differ although Place does not.)
PathsLead ==
  /\ \A n \in {Normalize(file)}:
       /\ Place(n) = Place(file)
       /\ Normalize(n) = n
       /\ Len(n) <= Max({1, Len(file)})
       /\ InitialSlashes(n) = InitialSlashes(file)
  /\ IsAbsolute(ToAbsolute(file)) /\ Place(ToAbsolute(file)) = Place(file)
  /\ \A r \in {ToRelative(base, file)}:
       /\ ~IsAbsolute(r)
       /\ Walk(Place(base), r) = Place(file)
       /\ \A i, j \in DOMAIN Split(r): i < j /\ Split(r)[j] = Dots(2) => Split(r)[i] = Dots(2)
  /\ Place(Join(<<base, file>>)) = Walk(Place(base), file)
  /\ Place(Join(<<GetDirectory(file), GetBaseName(file)>>)) = Place(file)
  /\ \A s \in {SplitStringPath(file, <<"?">>)}:
       Rfind(file, "/") > 1 => Place(ConcatStringPath(<<s.dir, s.file>>)) = Place(file)
  /\ IsSuffix(GetExtension(file), file)
  /\ IsPrefix(GetPathPrefix(file), file)
=============================================================================
