---------------------------- MODULE FileTraverse ----------------------------
(* cf_traverse (examples/file_searching): a directory tree is walked         *)
(* recursively, its entries given to a callback, while other programs create *)
(* and delete files and the system refuses what it is asked for, with no     *)
(* right to read, no descriptor or no memory left. The recursion is a stack  *)
(* of frames. Both platforms, and builds with and without assertions.        *)
EXTENDS Integers, Sequences, SequencesExt, FiniteSets, Bags

CONSTANTS Names,          \* directory entries; "." stands for "." and ".." everywhere
          Root,           \* the directory searched
          Home,           \* [Names -> directory the entry is in]
          Trees,          \* sets of names that may be there at the start
          Target,         \* [Names -> what it leads to: a file, a directory, or elsewhere a link]
          Directories,    \* Root and those entries that are directories
          Hidden,         \* other names that begin with a dot
          LongExts,       \* names with an extension of CUTE_FILES_MAX_EXT or more
          MaxLinks,       \* links the system follows in one path
          MaxPaths,       \* lengths CUTE_FILES_MAX_PATH may have, counted in names
          MaxChanges      \* bound on creations, deletions and refusals meanwhile

VARIABLES platform, asserts, maxPath,
          present, steady,    \* entries there are; history: those that always were
          frames,             \* the calls of cf_traverse
          at,                 \* of the last one
          handles,            \* directories the system holds open
          passed,             \* the bag of paths given to the callback
          unseen, unlisted,   \* history: paths stat was refused for, directories
                              \* whose listing was, from the start or in its midst
          changes
build == <<platform, asserts, maxPath>>
world == <<present, steady, changes>>
refused == <<unseen, unlisted>>
vars  == <<build, world, frames, at, handles, passed, refused>>

None == "none"                \* NULL
Leads(n, d) == IF n = "." THEN d ELSE Target[n]
DirOf(path) == IF path = <<>> THEN Root ELSE Leads(Last(path), Root)
There(d, S) == d = Root \/ d \in S
(* What is found in S under a path, through any links.                       *)
LinksIn(path) == Cardinality({k \in DOMAIN path : path[k] # "." /\ Target[path[k]] # path[k]})
Reaches(path, S) ==
  /\ \A k \in DOMAIN path : path[k] # "." => path[k] \in S /\ There(Target[path[k]], S)
  /\ LinksIn(path) <= MaxLinks
Listing(d) == {n \in present : Home[n] = d} \cup (IF There(d, present) THEN {"."} ELSE {})

Top == Last(frames)
SetTop(f) == frames' = Append(Front(frames), f)
Frame(path) == [path |-> path, entry |-> None, has_next |-> FALSE, open |-> FALSE,
                must |-> {}, may |-> {}]
EntryPath == Append(Top.path, Top.entry)

Init == /\ platform \in {"posix", "windows"} /\ asserts \in BOOLEAN /\ maxPath \in MaxPaths
        /\ present \in Trees /\ steady = present
        /\ frames = <<Frame(<<>>)>> /\ at = "open" /\ handles = 0
        /\ passed = EmptyBag /\ changes = 0 /\ unseen = {} /\ unlisted = {}

(* What comes from outside in one behaviour: other programs and refusals.    *)
Disturbed == changes + Cardinality(unseen) + Cardinality(unlisted)

(* Other programs. What is created or deleted while a directory is listed    *)
(* may be listed or not, the rest is listed once.                            *)
Running == at \notin {"done", "stopped"}
Delete(n) == /\ Running /\ Disturbed < MaxChanges /\ n \in present
             /\ \A m \in present : Home[m] # n
             /\ present' = present \ {n} /\ steady' = steady \ {n} /\ changes' = changes + 1
             /\ frames' = [k \in DOMAIN frames |->
                  [frames[k] EXCEPT !.must = @ \ (IF DirOf(frames[k].path) = n THEN {n, "."} ELSE {n})]]
             /\ UNCHANGED <<build, at, handles, passed, refused>>
Create(n) == /\ Running /\ Disturbed < MaxChanges /\ n \in Names \ present
             /\ There(Home[n], present) /\ \A f \in ToSet(frames) : n \notin f.may
             /\ present' = present \cup {n} /\ changes' = changes + 1
             /\ frames' = [k \in DOMAIN frames |->
                  [frames[k] EXCEPT !.may = @ \cup (IF frames[k].open /\ DirOf(frames[k].path) = Home[n]
                                                    THEN {n} ELSE {})]]
             /\ UNCHANGED <<build, steady, at, handles, passed, refused>>

(* readdir, FindNextFile: another entry of frame f, or the end.              *)
Given(f) == {[f EXCEPT !.entry = n, !.must = @ \ {n}, !.may = @ \ {n}] : n \in f.may}
              \cup (IF f.must = {} THEN {[f EXCEPT !.entry = None]} ELSE {})
Stop == at' = "stopped" /\ UNCHANGED <<build, world, frames, handles, passed, refused>>

(* A call of the system fails as what it is to find is gone, or is refused.  *)
Fails(gone, files, directories) ==
  IF gone THEN UNCHANGED refused
  ELSE /\ Disturbed < MaxChanges
       /\ unseen' = unseen \cup files /\ unlisted' = unlisted \cup directories

(* cf_dir_open. An opened directory that lists nothing is left with has_next *)
(* set, as the second test is of the directory and not of the entry.         *)
Opened == LET d == DirOf(Top.path)
          IN [Top EXCEPT !.open = TRUE, !.must = Listing(d), !.may = Listing(d)]
CanOpen == Reaches(Top.path, present)
Open == /\ at = "open" /\ CanOpen /\ handles' = handles + 1
        /\ IF platform = "posix" THEN SetTop(Opened) /\ at' = "first"
           ELSE \E f \in Given(Opened) : /\ f.entry # None /\ SetTop([f EXCEPT !.has_next = TRUE])
                                         /\ at' = "read"
        /\ UNCHANGED <<build, world, passed, refused>>
OpenFails == /\ at = "open" /\ Fails(~CanOpen, {}, {Top.path})
             /\ at' = IF asserts THEN "stopped" ELSE "close"
             /\ UNCHANGED <<build, world, frames, handles, passed>>
FirstEntry == /\ at = "first"
              /\ \E f \in Given(Top) : SetTop([f EXCEPT !.has_next = TRUE])
              /\ at' = "read" /\ UNCHANGED <<build, world, handles, passed, refused>>

(* cf_read_file. Without an entry it asserts, or reads through NULL. A path  *)
(* too long, or an extension (after the stat), asserts, or is written behind *)
(* its array: in a build without assertions the model ends there.            *)
CanRead == at = "read" /\ Top.entry # None /\ Len(EntryPath) <= maxPath
Seen == platform = "posix" => Reaches(EntryPath, present)
CannotRead == /\ at = "read"
              /\ ~CanRead \/ (Seen /\ Top.entry \in LongExts)
              /\ Stop
StatFails == platform = "posix" /\ Fails(~Reaches(EntryPath, present), {EntryPath}, {})
IsRead == CanRead /\ Seen /\ Top.entry \notin LongExts
(* Mutants: an entry that cannot be read ends the directory, or is tried     *)
(* for ever.                                                                 *)
SkipEntryEnds == /\ CanRead /\ StatFails /\ at' = "close"
                 /\ UNCHANGED <<build, world, frames, handles, passed>>
SkipEntryRetries == /\ CanRead /\ StatFails /\ at' = "read"
                    /\ UNCHANGED <<build, world, frames, handles, passed>>
SkipEntry == /\ CanRead /\ StatFails /\ at' = "next"
             /\ UNCHANGED <<build, world, frames, handles, passed>>

(* cf_traverse enters a directory before it is given to the callback.        *)
IsDir == Leads(Top.entry, Root) \in Directories
Enters == IsDir /\ Top.entry \notin Hidden \cup {"."}
Enter == /\ IsRead /\ Enters
         /\ frames' = Append(frames, Frame(EntryPath)) /\ at' = "open"
         /\ UNCHANGED <<build, world, handles, passed, refused>>
StayOut == /\ IsRead /\ ~Enters /\ at' = "call"
           /\ UNCHANGED <<build, world, frames, handles, passed, refused>>
Call == /\ at = "call" /\ at' = "next"
        /\ passed' = passed (+) SetToBag({EntryPath})
        /\ UNCHANGED <<build, world, frames, handles, refused>>

(* cf_dir_next. A failure of readdir is taken for the end; FindNextFile      *)
(* fails in a directory that is being deleted, too.                          *)
NextEntry == /\ at = "next"
             /\ \E f \in Given(Top) : /\ SetTop([f EXCEPT !.has_next = f.entry # None])
                                      /\ at' = (IF f.entry = None THEN "close" ELSE "read")
             /\ UNCHANGED <<build, world, handles, passed, refused>>
NextFails == /\ at = "next"
             /\ Fails(platform = "windows" /\ ~There(DirOf(Top.path), present), {}, {Top.path})
             /\ SetTop([Top EXCEPT !.has_next = FALSE])
             /\ at' = IF platform = "windows" /\ asserts THEN "stopped" ELSE "close"
             /\ UNCHANGED <<build, world, handles, passed>>

(* cf_dir_close and the return to the caller, which has its entry still.     *)
Close == /\ at = "close" /\ frames' = Front(frames)
         /\ handles' = IF Top.open THEN handles - 1 ELSE handles
         /\ at' = IF Len(frames) = 1 THEN "done" ELSE "call"
         /\ UNCHANGED <<build, world, passed, refused>>

Walk == \/ Open \/ OpenFails \/ FirstEntry \/ CannotRead \/ SkipEntry \/ Enter \/ StayOut
        \/ Call \/ NextEntry \/ NextFails \/ Close
Next == Walk \/ \E n \in Names : Delete(n) \/ Create(n)
Spec == Init /\ [][Next]_vars /\ WF_vars(Walk)

-----------------------------------------------------------------------------
(* The paths that are there from beginning to end and are not refused, nor   *)
(* below what is: through directories that are not hidden. Through POSIX's   *)
(* stat a link that cannot be followed is not found; Windows lists it.       *)
Refused(path) == \E k \in DOMAIN path : SubSeq(path, 1, k) \in unseen
                                       \/ SubSeq(path, 1, k - 1) \in unlisted
Leading(path) == /\ \A k \in DOMAIN path : Home[path[k]] = DirOf(SubSeq(path, 1, k - 1))
                 /\ ToSet(Front(path)) \cap Hidden = {}
Found(path) == /\ Leading(path) /\ ~Refused(path)
               /\ IF platform = "posix" THEN Reaches(path, steady)
                  ELSE Last(path) \in steady /\ Reaches(Front(path), steady)
SteadyPaths == {path \in UNION {[1 .. k -> Names] : k \in 1 .. maxPath} : Found(path)}

(* No path of entries that were always there is given to the callback twice, *)
(* and only the calls in progress hold directories open. When cf_traverse    *)
(* returns, all such paths have been given but those the system refused,     *)
(* whatever else was created and deleted meanwhile, and no directory is      *)
(* still open.                                                               *)
WalkComplete ==
  /\ \A path \in BagToSet(passed) :
       passed[path] > 1 => ~(ToSet(path) \subseteq steady \cup {"."})
  /\ handles = Cardinality({k \in DOMAIN frames : frames[k].open})
  /\ at = "done" => SteadyPaths \subseteq BagToSet(passed)

(* What makes it inductive. The calls are the prefixes of one path, and all  *)
(* but the last have their directory open and an entry in hand.              *)
Entries == Names \cup {"."}
Frames == [path : Seq(Entries), entry : Entries \cup {None}, has_next : BOOLEAN,
           open : BOOLEAN, must : SUBSET Entries, may : SUBSET Entries]
Listed == {"first", "read", "call", "next"}
Nested(k) == LET f == frames[k] IN
  /\ Len(f.path) = k - 1 /\ \A j \in 1 .. k - 1 : f.path[j] = frames[j].entry
  /\ k < Len(frames) => f.open /\ f.entry # None
  /\ f.entry \in steady \cup {"."} => f.entry \notin f.may
CallsNested ==
  /\ frames \in Seq(Frames) /\ \A k \in DOMAIN frames : Nested(k)
  /\ at \in Listed \cup {"open", "close", "done", "stopped"}
  /\ at = "done" <=> frames = <<>>
  /\ at \in {"open", "first"} => Top.entry = None
  /\ at = "call" => Top.entry # None
  /\ at = "open" => ~Top.open
  /\ at \in Listed => Top.open
  /\ handles = IF frames = <<>> THEN 0 ELSE IF Top.open THEN Len(frames) ELSE Len(frames) - 1

(* Path q will be given by the call of frame k, given that the entries in    *)
(* listed will still be found: it is, or is below, an entry not listed yet,  *)
(* or not known as the directory is not open yet; or it is that of the       *)
(* entry in hand, or below that.                                             *)
Follows(q, k) == k <= Len(q) /\ \A j \in 1 .. k - 1 : q[j] = frames[j].entry
InHand(q, k) == /\ q[k] = frames[k].entry
                /\ \/ k = Len(frames) /\ at = "read"
                   \/ (k < Len(frames) \/ at = "call") /\ k = Len(q)
Comes(q, k, listed) ==
  /\ Follows(q, k)
  /\ \/ (k < Len(frames) \/ at \in Listed) /\ q[k] \in listed
     \/ k = Len(frames) /\ at = "open"
     \/ InHand(q, k)
GivenOnce == \A path \in DOMAIN passed :
  ToSet(path) \subseteq steady \cup {"."} =>
    passed[path] = 1 /\ \A k \in DOMAIN frames : ~Comes(path, k, frames[k].may)
SteadyGiven == at # "stopped" => \A path \in SteadyPaths :
  path \in DOMAIN passed \/ \E k \in DOMAIN frames : Comes(path, k, frames[k].must)
WorldOK == /\ platform \in {"posix", "windows"} /\ maxPath \in MaxPaths
           /\ steady \subseteq present /\ present \subseteq Names
           /\ passed \in [DOMAIN passed -> Nat \ {0}] /\ DOMAIN passed \subseteq Seq(Entries)
IInv == WorldOK /\ CallsNested /\ GivenOnce /\ SteadyGiven

(* The walk comes to an end although links lead back to directories above,   *)
(* by the limit on links in a path or the one on its length.                 *)
WalkEnds == <>~Running

(* cf_read_file's assertion (cute_files.h:389): there is an entry.           *)
EntryWhenRead == at = "read" => Top.entry # None
=============================================================================
