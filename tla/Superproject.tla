---------------------------- MODULE Superproject ----------------------------
(***************************************************************************)
(* Which superproject and which subproject a command works on.  The        *)
(* commands take neither by name: the superproject is searched upwards     *)
(* from the current work directory, a subproject is given by a path        *)
(* relative to that directory or is the one the directory is in, and the   *)
(* list in .subpatch has paths relative to the superproject.               *)
(*                                                                         *)
(* An absolute path is the sequence of its names.  A relative path may     *)
(* also go Up.  The paths "" and "." are both the empty one.               *)
(***************************************************************************)
EXTENDS Naturals, FiniteSetsExt, SequencesExt

CONSTANTS
  Place,      \* directories that exist or may be made
  Mount,      \* those that are the top of another filesystem
  Arg,        \* paths on the command line
  Url,        \* relative urls on the command line
  Remote,     \* a url with a host
  NoPlace, NoFile,    \* nothing found; the file does not exist
  Empty,      \* a subproject that is initialised, without upstream
  Stray,      \* the same, in a directory that no superproject tracks
  Elsewhere   \* history: a relative url was given in another directory

VARIABLES
  repos,   \* places with a directory .git
  dirs,    \* places that exist
  conf,    \* .subpatch of each place: the paths listed in it
  meta,    \* .subproject of each place: the url in it
  from     \* history: where the subproject there was fetched from

vars == <<repos, dirs, conf, meta, from>>

Up == 0

ASSUME PlaceAssumption ==
  /\ Place \subseteq Seq(Nat \ {Up}) /\ \A d \in Place : Prefixes(d) \subseteq Place
  /\ Mount \subseteq Place /\ Arg \subseteq Seq(Nat) /\ Url \subseteq Seq(Nat) \ {<<>>}

\* The sentinels are not what they stand beside, and differ.
ASSUME SentinelAssumption ==
  /\ NoPlace \notin Seq(Nat) /\ NoFile \notin Seq(Seq(Nat))
  /\ Remote \notin Seq(Nat) \cup {Empty, Stray, NoFile, NoPlace, Elsewhere}
  /\ {Empty, Stray, NoFile} \cap Url = {}
  /\ Empty \notin {Stray, NoFile} /\ Stray # NoFile /\ NoPlace # Elsewhere

-----------------------------------------------------------------------------
(* Paths.                                                                  *)
\* Where a path leads from directory d; ".." of "/" is "/".
Resolve(d, path) ==
  LET at[i \in 0 .. Len(path)] ==
        IF i = 0 THEN d
        ELSE IF path[i] # Up THEN Append(at[i - 1], path[i])
        ELSE IF at[i - 1] = <<>> THEN <<>> ELSE Front(at[i - 1])
  IN at[Len(path)]

\* The number of names two paths start with in common.
Common(p, q) ==
  CHOOSE n \in 0 .. Len(p) :
    /\ n <= Len(q) /\ \A i \in 1 .. n : p[i] = q[i]
    /\ n < Len(p) /\ n < Len(q) => p[n + 1] # q[n + 1]

\* os.path.relpath
Rel(to, start) ==
  LET n == Common(to, start)
  IN [i \in 1 .. Len(start) - n |-> Up] \o SubSeq(to, n + 1, Len(to))

Below(d, p) == IsStrictPrefix(p, d)

-----------------------------------------------------------------------------
(* The search for the superproject, upwards from directory d.              *)
Longest(S) == CHOOSE p \in S : \A q \in S : Len(q) <= Len(p)

Filesystem(d) == Longest(Prefixes(d) \cap (Mount \cup {<<>>}))

\* The directories the search comes through: it stays in one filesystem.
Searched == [d \in Place |-> {p \in Prefixes(d) : Filesystem(p) = Filesystem(d)}]

Nearest(S, d) == LET near == S \cap Searched[d] IN IF near = {} THEN NoPlace ELSE Longest(near)

Repository(d) == Nearest(repos, d)
Configuration(d) == Nearest({p \in Place : conf[p] # NoFile}, d)

\* The git superproject of d: .subpatch must be missing or next to .git.
\* A superproject without git, and none at all, is NoPlace: the commands
\* below refuse them.
Toplevel(d) ==
  LET r == Repository(d) IN IF Configuration(d) \in {NoPlace, r} THEN r ELSE NoPlace

IsConfigured(d) == LET r == Toplevel(d) IN r # NoPlace /\ conf[r] # NoFile

SuperToCwd(d) == SubSeq(d, Len(Toplevel(d)) + 1, Len(d))

-----------------------------------------------------------------------------
(* The subproject that a path on the command line means in directory d.    *)
CwdToSub(d, arg) == Rel(Resolve(d, arg), d)

\* Mutation: the two parts are put together and ".." stays in the path.
SuperToSubJoined(d, arg) == SuperToCwd(d) \o CwdToSub(d, arg)

SuperToSub(d, arg) ==
  LET super_to_cwd == SuperToCwd(d)
  IN IF super_to_cwd = <<>> THEN CwdToSub(d, arg)
     ELSE Rel(Resolve(d, super_to_cwd \o CwdToSub(d, arg)), d)

\* os.path.normpath, by which "status" makes the same conversion.
Normal(path) ==
  LET to[i \in 0 .. Len(path)] ==
        IF i = 0 THEN <<>>
        ELSE IF path[i] = Up /\ to[i - 1] # <<>> /\ Last(to[i - 1]) # Up THEN Front(to[i - 1])
        ELSE Append(to[i - 1], path[i])
  IN to[Len(path)]

StatusPath(d, arg) == Normal(SuperToCwd(d) \o CwdToSub(d, arg))

-----------------------------------------------------------------------------
(* The subproject that directory d is in, for the commands without a path. *)
\* Mutation: only the first names are compared.
SameTop(entry, path) == path # <<>> /\ entry[1] = path[1]

\* As many names as both have are compared; "" has one name, the empty one.
SameNames(entry, path) ==
  path # <<>> /\ \A i \in DOMAIN entry \cap DOMAIN path : entry[i] = path[i]

Selected(d) ==
  LET list == conf[Toplevel(d)]
      at == SelectInSeq(list, LAMBDA entry : SameNames(entry, SuperToCwd(d)))
  IN IF at = 0 THEN NoPlace ELSE list[at]

\* The subproject a patch command works on: the directory must be its top.
WorksOn(d) ==
  IF IsConfigured(d) /\ Selected(d) # NoPlace /\ Len(Selected(d)) = Len(SuperToCwd(d))
  THEN Selected(d) ELSE NoPlace

-----------------------------------------------------------------------------
(* The list of subprojects, as config_set_key_value2 appends to it.        *)
Before(p, q) ==
  LET n == Common(p, q)
  IN n = Len(p) \/ (n < Len(q) /\ p[n + 1] < q[n + 1])

WithEntry(list, entry) ==
  IF list = <<>> THEN <<entry>>
  ELSE InsertAt(list, IF Before(list[1], entry) THEN 2 ELSE 1, entry)

-----------------------------------------------------------------------------
(* Urls.                                                                   *)
IsRelative(url) == url # Remote

\* git ls-remote runs in the work directory.
AskedAt(d, url) == IF IsRelative(url) THEN Resolve(d, url) ELSE url

\* Mutation: the cache directory itself is not counted.
FetchedAtShort(d, arg, url) ==
  LET sub == CwdToSub(d, arg)
  IN IF IsRelative(url) THEN Resolve(Resolve(d, Append(sub, 1)), [i \in 1 .. Len(sub) |-> Up] \o url)
                        ELSE url

\* git fetch runs in the directory cache of the subproject, with one "../" for
\* each name of the path to it.
FetchedAt(d, arg, url) ==
  LET cache == Append(CwdToSub(d, arg), 1)
  IN IF IsRelative(url) THEN Resolve(Resolve(d, cache), [i \in DOMAIN cache |-> Up] \o url)
                        ELSE url

-----------------------------------------------------------------------------
(* The commands, run in directory d.                                       *)
Init ==
  /\ repos \in SUBSET (Place \ {<<>>}) /\ dirs \in SUBSET Place
  /\ \A d \in dirs \cup repos : Prefixes(d) \subseteq dirs
  /\ conf \in [Place -> {NoFile, <<>>}] /\ \A d \in Place : conf[d] # NoFile => d \in dirs \ {<<>>}
  /\ meta = [d \in Place |-> NoFile] /\ from = [d \in Place |-> NoPlace]

\* Mutation: the file is made in the work directory.
ConfigureHere(d) ==
  /\ Toplevel(d) # NoPlace /\ ~IsConfigured(d)
  /\ conf' = [conf EXCEPT ![d] = <<>>]
  /\ UNCHANGED <<repos, dirs, meta, from>>

Configure(d) ==
  /\ Toplevel(d) # NoPlace /\ ~IsConfigured(d)
  /\ conf' = [conf EXCEPT ![Toplevel(d)] = <<>>]
  /\ UNCHANGED <<repos, dirs, meta, from>>

\* Bound: the target is in the modelled places, and no repository of its own
\* is between it and the superproject.
InReach(d, arg) ==
  LET target == Resolve(d, arg)
  IN /\ target \in Place /\ Toplevel(d) # NoPlace
     /\ \A r \in repos : IsPrefix(r, target) => ~Below(r, Toplevel(d))

\* The toplevel directory, and a directory or a .subproject that exists, are
\* refused.
MayInit(d, arg) ==
  LET listed == Toplevel(d) \o SuperToSub(d, arg)
  IN /\ SuperToSub(d, arg) # <<>> /\ Resolve(d, arg) \notin dirs
     /\ listed \in Place => meta[listed] = NoFile

IsInside(d, arg) == IsPrefix(Toplevel(d), Resolve(d, arg))

\* Mutation: the path is listed before git has accepted the new file.
DoInitListed(d, arg, list, url) ==
  LET target == Resolve(d, arg)
  IN /\ dirs' = dirs \cup Prefixes(target)
     /\ meta' = [meta EXCEPT ![target] = IF IsInside(d, arg) THEN url ELSE Stray]
     /\ conf' = [conf EXCEPT ![Toplevel(d)] = WithEntry(list, SuperToSub(d, arg))]

\* Outside of the superproject "git add" fails, before the path is listed: the
\* new file is in another repository, or relpath has made another, missing file
\* of the path.
DoInit(d, arg, list, url) ==
  LET target == Resolve(d, arg)
  IN /\ dirs' = dirs \cup Prefixes(target)
     /\ meta' = [meta EXCEPT ![target] = IF IsInside(d, arg) THEN url ELSE Stray]
     /\ conf' = [conf EXCEPT ![Toplevel(d)] =
                   IF IsInside(d, arg) THEN WithEntry(list, SuperToSub(d, arg)) ELSE list]

InitSub(d, arg) ==
  /\ IsConfigured(d) /\ MayInit(d, arg)
  /\ DoInit(d, arg, conf[Toplevel(d)], Empty)
  /\ UNCHANGED <<repos, from>>

MayAdd(d, url) ==
  /\ Toplevel(d) # NoPlace /\ (IsRelative(url) => SuperToCwd(d) = <<>>)

ListOrNew(d) == IF IsConfigured(d) THEN conf[Toplevel(d)] ELSE <<>>

\* "add" configures the superproject first and may then be refused.
AddRefused(d, arg, url) ==
  /\ ~IsConfigured(d) /\ MayAdd(d, url) /\ ~MayInit(d, arg)
  /\ conf' = [conf EXCEPT ![Toplevel(d)] = <<>>]
  /\ UNCHANGED <<repos, dirs, meta, from>>

\* The fetch fails: the subproject stays as "init" leaves it.
AddFails(d, arg, url) ==
  /\ MayAdd(d, url) /\ MayInit(d, arg)
  /\ DoInit(d, arg, ListOrNew(d), Empty)
  /\ UNCHANGED <<repos, from>>

\* Mutation: the url is resolved before it is stored.
AddResolved(d, arg, url) ==
  /\ MayAdd(d, url) /\ MayInit(d, arg) /\ IsInside(d, arg)
  /\ DoInit(d, arg, ListOrNew(d), AskedAt(d, url))
  /\ from' = [from EXCEPT ![Resolve(d, arg)] = FetchedAt(d, arg, url)]
  /\ UNCHANGED repos

Add(d, arg, url) ==
  /\ MayAdd(d, url) /\ MayInit(d, arg) /\ IsInside(d, arg)
  /\ DoInit(d, arg, ListOrNew(d), url)
  /\ from' = [from EXCEPT ![Resolve(d, arg)] = FetchedAt(d, arg, url)]
  /\ UNCHANGED repos

\* "git rm" of the tracked files below a subproject takes the subprojects
\* inside it, and directories with nothing else.  A .subproject that is not
\* tracked stays, with its directory.
TrackedBelow(p) == {q \in Place : Below(q, p) /\ meta[q] \notin {NoFile, Stray}}

EmptiedBelow(p) ==
  {e \in dirs : /\ Below(e, p)
                /\ \A s \in dirs : IsPrefix(e, s) =>
                     meta[s] # Stray /\ \E q \in TrackedBelow(p) : IsPrefix(s, q)}

IsListed(d, arg) == Contains(conf[Toplevel(d)], SuperToSub(d, arg))

\* Without --url the url is the one in .subproject; of a subproject that was
\* only initialised there is none ("assert isinstance(url, str)").
Update(d, arg, given) ==
  LET target == Resolve(d, arg)
      url == IF given = Empty THEN meta[target] ELSE given
  IN /\ IsConfigured(d) /\ IsInside(d, arg)   \* bound: inside
     /\ IsListed(d, arg) /\ meta[target] # NoFile /\ url \notin {Empty, Stray}
     /\ meta' = [q \in Place |-> IF q = target THEN url
                                 ELSE IF q \in TrackedBelow(target) THEN NoFile ELSE meta[q]]
     /\ dirs' = dirs \ EmptiedBelow(target)
     /\ from' = [q \in Place |->
          IF q # target THEN (IF q \in TrackedBelow(target) THEN NoPlace ELSE from[q])
          ELSE IF IsRelative(url) /\ SuperToCwd(d) # <<>> THEN Elsewhere
          ELSE FetchedAt(d, arg, url)]
     /\ UNCHANGED <<repos, conf>>

Next ==
  \E d \in dirs :
    \/ Configure(d)
    \/ \E arg \in Arg :
         /\ InReach(d, arg)
         /\ \/ InitSub(d, arg)
            \/ \E url \in Url \cup {Remote} : AddRefused(d, arg, url) \/ AddFails(d, arg, url) \/ Add(d, arg, url)
            \/ \E url \in Url \cup {Remote, Empty} : Update(d, arg, url)

Spec == Init /\ [][Next]_vars

-----------------------------------------------------------------------------
TypeOK ==
  /\ repos \subseteq Place /\ dirs \subseteq Place /\ repos \subseteq dirs
  /\ conf \in [Place -> Seq(Seq(Nat)) \cup {NoFile}]
  /\ meta \in [Place -> Url \cup {Remote, Empty, Stray, NoFile}]
  /\ from \in [Place -> Seq(Nat) \cup {Remote, Elsewhere, NoPlace}]

(* From whatever directory, with however many "..", a path into the        *)
(* superproject is taken for the place the shell means; "status" and the   *)
(* other commands agree on it.  (Of a path that leads out of the           *)
(* superproject, relpath may make one inside: see DoInit.)                 *)
PathsAgree ==
  \A d \in dirs : Toplevel(d) # NoPlace =>
  \A arg \in Arg : IsInside(d, arg) =>
    /\ SuperToSub(d, arg) = Rel(Resolve(d, arg), Toplevel(d))
    /\ StatusPath(d, arg) = SuperToSub(d, arg)

\* The subprojects of a superproject, none inside another one.
IsSuperproject(r) == conf[r] \notin {NoFile, <<>>}
Flat(r) == \A i, j \in DOMAIN conf[r] : ~Below(conf[r][i], conf[r][j])

(* After any calls, in any directories, a superproject lists no path       *)
(* twice, none outside of itself, and each path is a directory with a      *)
(* .subproject that git tracks.  (The update of a subproject removes the   *)
(* one inside it, and leaves it listed: such lists are left out.)          *)
EntriesAreSubprojects ==
  \A r \in Place : IsSuperproject(r) /\ Flat(r) =>
    /\ IsInjective(conf[r])
    /\ \A i \in DOMAIN conf[r] :
         LET p == r \o conf[r][i]
         IN p \in dirs /\ meta[p] \notin {NoFile, Stray}

(* A patch command works on a subproject in the subproject's own           *)
(* directory and nowhere else: not on a neighbour, not on the first one of *)
(* a common parent, not on one of a superproject further out.              *)
SelectedIsHere ==
  \A d \in dirs : IsConfigured(d) /\ Flat(Toplevel(d)) =>
    WorksOn(d) = IF Contains(conf[Toplevel(d)], SuperToCwd(d)) THEN SuperToCwd(d) ELSE NoPlace

(* What "init" or "add" lists in one directory, the patch commands find in *)
(* the directory of the new subproject, if it is in the same filesystem as *)
(* the superproject and no other .subpatch is between the two.             *)
ListedThenFound ==
  [][\A r \in Place : conf'[r] # conf[r] /\ conf'[r] # <<>> /\ Flat(r)' =>
       \E p \in dirs' \ dirs :
         /\ ToSet(conf'[r]) = {Rel(p, r)} \cup (IF conf[r] = NoFile THEN {} ELSE ToSet(conf[r]))
         /\ Filesystem(p) = Filesystem(r) /\ (\A q \in Prefixes(p) : Below(q, r) => conf[q] = NoFile) =>
              Toplevel(p)' = r /\ WorksOn(p)' = Rel(p, r)]_vars

(* No command, run anywhere, takes a directory out of its superproject, by *)
(* a .subpatch nearer to it or by one that is not next to .git.  (But the  *)
(* superproject around a nested repository that is not configured yet      *)
(* does, when it is configured: .git and .subpatch no longer agree there.) *)
SuperprojectStays ==
  [][\A d \in dirs \cap dirs' :
       LET r == Toplevel(d)
       IN r # NoPlace /\ (conf[r] # NoFile \/ repos \cap Searched[r] = {r}) => Toplevel(d)' = r]_vars

(* A release that was fetched by a relative url came from the place that   *)
(* url names in the toplevel directory, where "git ls-remote" asks and     *)
(* from where the next "update" there fetches.  (Not so after an "update"  *)
(* with a relative url in another directory, which nothing refuses.)       *)
UpdateStays ==
  \A r \in repos, d \in dirs : Below(d, r) /\ Toplevel(d) = r /\ from[d] \notin {NoPlace, Elsewhere} =>
    /\ from[d] = AskedAt(r, meta[d])
    /\ FetchedAt(r, Rel(d, r), meta[d]) = from[d]

-----------------------------------------------------------------------------
(* The inductive invariant, of which the properties above follow.          *)
\* Directories have their parents.  What a subproject is in has no .git of its
\* own, and only a tracked one has been fetched.
DirsInv ==
  /\ \A p \in dirs : Prefixes(p) \subseteq dirs
  /\ \A p \in Place : meta[p] # NoFile => p \in dirs /\ \A r \in repos : ~IsPrefix(p, r)
  /\ \A p \in Place : from[p] # NoPlace => meta[p] \in Url \cup {Remote}

\* What a superproject lists is in it, and in no repository inside it.
ListsInv ==
  \A r \in Place : conf[r] # NoFile => \A i \in DOMAIN conf[r] :
    /\ r \in repos /\ conf[r][i] # <<>> /\ r \o conf[r][i] \in Place
    /\ \A s \in repos : IsPrefix(s, r \o conf[r][i]) => ~Below(s, r)

\* Also when the superproject is not the one that is found from there any more.
FromInv ==
  \A d \in Place : from[d] \notin {NoPlace, Elsewhere} /\ Repository(d) # NoPlace =>
    from[d] = AskedAt(Repository(d), meta[d])

SuperInv == DirsInv /\ ListsInv /\ FromInv
=============================================================================
