----------------------------- MODULE CodeCache -----------------------------
(***************************************************************************)
(* CacheBlob (src/src/napi/common/code_cache.{h,cc}): the bytecode cache   *)
(* that the runtimes of a process share, and the file that it is loaded    *)
(* from and published to, possibly by several processes.                   *)
(*                                                                         *)
(* What happens under mutex_ is one step.  output() is several: it takes   *)
(* publish_mutex_, takes a snapshot under mutex_, and writes and renames a *)
(* temporary file under publish_mutex_ alone.  A process may end between   *)
(* any two steps; its blob is lost and a new one is opened.                *)
(*                                                                         *)
(* A member of Data stands for the source a script was compiled from (its  *)
(* hash) and for the bytecode.  Names that are empty or longer than 2^16   *)
(* bytes, which are never written, are left out.                           *)
(***************************************************************************)
EXTENDS Naturals, FiniteSets

CONSTANTS
  Process, Thread,
  Homes,       \* the processes the threads may be in: functions from Thread to Process
  Name, Data,
  Size,        \* the length of each member of Data
  Capacity,    \* max_capacity_ of the blob of each process
  FirstFile,   \* what the cache file may hold at first
  NoThread,
  MaxUsed,     \* bound: how often an entry is found
  MaxOutput    \* bound: the snapshots that each process takes

ASSUME CodeCacheAssumption ==
  /\ Homes \subseteq [Thread -> Process] /\ NoThread \notin Thread
  /\ IsFiniteSet(Name)
  /\ Size \in [Data -> Nat \ {0}] /\ Capacity \in [Process -> Nat]
  /\ MaxUsed \in Nat \ {0} /\ MaxOutput \in [Process -> Nat]

VARIABLES
  home,          \* the process of each thread, which never changes
  entries,       \* entries_: name to data and used_times; history: was it read by input()
  current_size, dirty_,
  loaded_,       \* with load_result_: "never", "failed" or "done"
  publisher,     \* who holds publish_mutex_
  pc,            \* where each thread is in output()
  image,         \* the snapshot it has taken
  temp,          \* its temporary file
  file,          \* the cache file
  taken,         \* history: the number of snapshots each process has taken
  published,     \* history: the last of them that became the cache file
  known          \* history: the version of the file a blob last read or wrote

blob == <<entries, current_size, dirty_, loaded_>>
history == <<taken, published, known>>
vars == <<home, blob, publisher, pc, image, temp, file, history>>

Nothing == [n \in {} |-> n]
NoImage == [content |-> Nothing, version |-> <<>>]

Unknown == <<"unknown">>

\* A file is missing, or whole, or not what serialize() made.
Missing == [state |-> "missing", content |-> Nothing, version |-> <<>>]

Contents == UNION {[S -> Data] : S \in SUBSET Name}
Entries == UNION {[S -> [data : Data, used : 0..MaxUsed, read : BOOLEAN]] : S \in SUBSET Name}
Version == {<<>>} \cup UNION {{p} \X (1..MaxOutput[p]) : p \in Process}
File == [state : {"missing", "whole", "broken"}, content : Contents, version : Version]

ASSUME FirstFileAssumption == FirstFile \subseteq File

TypeOK ==
  /\ home \in Homes
  /\ entries \in [Process -> Entries]
  /\ current_size \in [Process -> Nat] /\ dirty_ \in [Process -> BOOLEAN]
  /\ loaded_ \in [Process -> {"never", "failed", "done"}]
  /\ publisher \in [Process -> Thread \cup {NoThread}]
  /\ pc \in [Thread -> {"idle", "lock", "snapshot", "write", "replace", "failed"}]
  /\ image \in [Thread -> [content : Contents, version : Version]]
  /\ temp \in [Thread -> File] /\ file \in File
  /\ taken \in [Process -> Nat] /\ published \in [Process -> Nat]
  /\ \A p \in Process : published[p] <= taken[p] /\ taken[p] <= MaxOutput[p]
  /\ known \in [Process -> Version \cup {Unknown}]

Init ==
  /\ home \in Homes
  /\ entries = [p \in Process |-> Nothing] /\ current_size = [p \in Process |-> 0]
  /\ dirty_ = [p \in Process |-> FALSE] /\ loaded_ = [p \in Process |-> "never"]
  /\ publisher = [p \in Process |-> NoThread]
  /\ pc = [t \in Thread |-> "idle"] /\ image = [t \in Thread |-> NoImage]
  /\ temp = [t \in Thread |-> Missing]
  /\ file \in FirstFile
  /\ taken = [p \in Process |-> 0] /\ published = [p \in Process |-> 0]
  /\ known = [p \in Process |-> Unknown]

-----------------------------------------------------------------------------
(* The entries.                                                            *)

\* The bytes of S of the entries e, and how many there are.
Bytes(e, S) == UNION {{n} \X (1..Size[e[n].data]) : n \in S}
SizeOf(e, S) == Cardinality(Bytes(e, S))

Without(e, V) == [n \in DOMAIN e \ V |-> e[n]]
With(e, n, d) ==
  [m \in DOMAIN e \cup {n} |->
     IF m = n THEN [data |-> d, used |-> 1, read |-> FALSE] ELSE e[m]]

\* The order in which make_room looks for a victim: the least used entry first, among
\* equals the largest.
GoesFirst(x, y) == x.used < y.used \/ (x.used = y.used /\ Size[x.data] > Size[y.data])

\* No entry that stays would have gone before one that is evicted.
InOrder(e, V) == \A n \in V, m \in DOMAIN e \ V : ~GoesFirst(e[m], e[n])

\* Mutant: nothing is evicted.
NoVictims(e, size, length, cap) == {{}}

\* make_room: what may be evicted, one entry after the other until the new one fits.
Victims(e, size, length, cap) ==
  LET fits(V) == size + length <= cap + SizeOf(e, V) IN
  {V \in SUBSET DOMAIN e :
     /\ InOrder(e, V)
     /\ fits(V) \/ V = DOMAIN e
     /\ V = {} \/ \E n \in V : InOrder(e, V \ {n}) /\ ~fits(V \ {n})}

\* Mutant: the entry that is replaced is subtracted twice.
CountedTwice(p, n) ==
  current_size[p] - 2 * SizeOf(entries[p], {n} \cap DOMAIN entries[p])

\* The size when the entry for n, if there is one, is erased.
SizeWithout(p, n) == current_size[p] - SizeOf(entries[p], {n} \cap DOMAIN entries[p])

\* The previous entry is erased even if the new one cannot fit.
insert(t, n, d) ==
  LET p == home[t]
      erased == Without(entries[p], {n})
      size == SizeWithout(p, n)
      length == Size[d] IN
  /\ pc[t] = "idle"
  /\ IF length > Capacity[p]
       THEN /\ entries' = [entries EXCEPT ![p] = erased]
            /\ current_size' = [current_size EXCEPT ![p] = size]
            /\ dirty_' = [dirty_ EXCEPT ![p] = dirty_[p] \/ n \in DOMAIN entries[p]]
       ELSE \E V \in Victims(erased, size, length, Capacity[p]) :
            /\ entries' = [entries EXCEPT ![p] = With(Without(erased, V), n, d)]
            /\ current_size' = [current_size EXCEPT ![p] = size - SizeOf(erased, V) + length]
            /\ dirty_' = [dirty_ EXCEPT ![p] = TRUE]
  /\ UNCHANGED <<loaded_, publisher, pc, image, temp, file, history>>

\* Compiled from another source, the entry is not found and nothing changes.
find(t, n) ==
  LET p == home[t] IN
  /\ pc[t] = "idle" /\ n \in DOMAIN entries[p]
  /\ entries[p][n].used < MaxUsed
  /\ entries' = [entries EXCEPT ![p][n].used = entries[p][n].used + 1]
  /\ UNCHANGED <<current_size, dirty_, loaded_, publisher, pc, image, temp, file, history>>

remove(t, n) ==
  LET p == home[t] IN
  /\ pc[t] = "idle" /\ n \in DOMAIN entries[p]
  /\ current_size' = [current_size EXCEPT ![p] = SizeWithout(p, n)]
  /\ entries' = [entries EXCEPT ![p] = Without(entries[p], {n})]
  /\ dirty_' = [dirty_ EXCEPT ![p] = TRUE]
  /\ UNCHANGED <<loaded_, publisher, pc, image, temp, file, history>>

-----------------------------------------------------------------------------
(* input().                                                                *)

\* What read_entries may keep of a file, depending on the order in it: it drops an entry
\* that does not fit any more.
Kept(c, cap) ==
  LET size(S) == SizeOf([n \in S |-> [data |-> c[n]]], S) IN
  {S \in SUBSET DOMAIN c :
     size(S) <= cap /\ \A n \in DOMAIN c \ S : size(S) + Size[c[n]] > cap}

\* The file is rejected if an entry of it is too large, and if anything else is wrong.
Readable(c, cap) == \A n \in DOMAIN c : Size[c[n]] <= cap

\* Entries inserted before the file was read are newer than the file.
Merged(p, S) ==
  [n \in S \cup DOMAIN entries[p] |->
     IF n \in DOMAIN entries[p] THEN entries[p][n]
     ELSE [data |-> file.content[n], used |-> 0, read |-> TRUE]]

input(t) ==
  LET p == home[t] IN
  /\ pc[t] = "idle" /\ loaded_[p] = "never"
  /\ \/ /\ file.state = "missing"
        /\ loaded_' = [loaded_ EXCEPT ![p] = "failed"]
        /\ UNCHANGED <<entries, current_size, dirty_, known>>
     \/ /\ \/ file.state = "broken"
           \/ file.state = "whole" /\ ~Readable(file.content, Capacity[p])
        /\ loaded_' = [loaded_ EXCEPT ![p] = "failed"]
        /\ dirty_' = [dirty_ EXCEPT ![p] = TRUE]
        /\ UNCHANGED <<entries, current_size, known>>
     \/ /\ file.state = "whole" /\ Readable(file.content, Capacity[p])
        /\ \E S \in Kept(file.content, Capacity[p]) :
             /\ entries' = [entries EXCEPT ![p] = Merged(p, S)]
             /\ current_size' =
                  [current_size EXCEPT ![p] = SizeOf(Merged(p, S), DOMAIN Merged(p, S))]
             /\ dirty_' = [dirty_ EXCEPT ![p] = dirty_[p] \/ S # DOMAIN file.content]
        /\ loaded_' = [loaded_ EXCEPT ![p] = "done"]
        /\ known' = [known EXCEPT ![p] = file.version]
  /\ UNCHANGED <<publisher, pc, image, temp, file, taken, published>>

-----------------------------------------------------------------------------
(* output().                                                               *)

CallOutput(t) ==
  /\ pc[t] = "idle"
  /\ pc' = [pc EXCEPT ![t] = "lock"]
  /\ UNCHANGED <<blob, publisher, image, temp, file, history>>

\* Mutant: publish_mutex_ is not there.
NoPublishLock(p) == TRUE

MayPublish(p) == publisher[p] = NoThread

LockPublish(t) ==
  /\ pc[t] = "lock" /\ MayPublish(home[t])
  /\ publisher' = [publisher EXCEPT ![home[t]] = t]
  /\ pc' = [pc EXCEPT ![t] = "snapshot"]
  /\ UNCHANGED <<blob, image, temp, file, history>>

Return(t) ==
  /\ pc' = [pc EXCEPT ![t] = "idle"]
  /\ publisher' = [publisher EXCEPT ![home[t]] = NoThread]
  /\ image' = [image EXCEPT ![t] = NoImage]
  /\ temp' = [temp EXCEPT ![t] = Missing]

Snapshot(t) ==
  LET p == home[t] IN
  /\ pc[t] = "snapshot"
  /\ \/ ~dirty_[p] /\ Return(t) /\ UNCHANGED <<dirty_, taken>>
     \/ /\ dirty_[p] /\ taken[p] < MaxOutput[p]
        /\ image' = [image EXCEPT ![t] =
             [content |-> [n \in DOMAIN entries[p] |-> entries[p][n].data],
              version |-> <<p, taken[p] + 1>>]]
        /\ taken' = [taken EXCEPT ![p] = taken[p] + 1]
        /\ dirty_' = [dirty_ EXCEPT ![p] = FALSE]
        /\ pc' = [pc EXCEPT ![t] = "write"]
        /\ UNCHANGED <<publisher, temp>>
  /\ UNCHANGED <<entries, current_size, loaded_, file, published, known>>

\* Mutant: what fwrite and fclose return is not looked at.
NextAfterAny(written) == "replace"

NextAfter(written) == IF written THEN "replace" ELSE "failed"

\* The temporary file, as fwrite and fclose leave it.
WriteTemp(t) ==
  /\ pc[t] = "write"
  /\ \E written \in BOOLEAN :
       /\ temp' = [temp EXCEPT ![t] =
            [state |-> IF written THEN "whole" ELSE "broken",
             content |-> image[t].content, version |-> image[t].version]]
       /\ pc' = [pc EXCEPT ![t] = NextAfter(written)]
  /\ UNCHANGED <<blob, publisher, image, file, history>>

\* rename() replaces the cache file, or fails and leaves it.
ReplaceFile(t) ==
  /\ pc[t] = "replace"
  /\ \/ /\ file' = temp[t]
        /\ published' = [published EXCEPT ![home[t]] = temp[t].version[2]]
        /\ known' = [known EXCEPT ![home[t]] = temp[t].version]
        /\ Return(t)
     \/ /\ pc' = [pc EXCEPT ![t] = "failed"]
        /\ UNCHANGED <<file, published, known, publisher, image, temp>>
  /\ UNCHANGED <<blob, taken>>

\* Mutant: the entries stay clean.
StaysClean(p) == dirty_

MarkDirty(p) == [dirty_ EXCEPT ![p] = TRUE]

PublishFailed(t) ==
  /\ pc[t] = "failed"
  /\ dirty_' = MarkDirty(home[t])
  /\ Return(t)
  /\ UNCHANGED <<entries, current_size, loaded_, file, history>>

\* The process ends, wherever its threads are, or its last runtime releases the blob.
Restart(p) ==
  LET mine == {t \in Thread : home[t] = p} IN
  /\ entries' = [entries EXCEPT ![p] = Nothing]
  /\ current_size' = [current_size EXCEPT ![p] = 0]
  /\ dirty_' = [dirty_ EXCEPT ![p] = FALSE]
  /\ loaded_' = [loaded_ EXCEPT ![p] = "never"]
  /\ publisher' = [publisher EXCEPT ![p] = NoThread]
  /\ pc' = [t \in Thread |-> IF t \in mine THEN "idle" ELSE pc[t]]
  /\ image' = [t \in Thread |-> IF t \in mine THEN NoImage ELSE image[t]]
  /\ temp' = [t \in Thread |-> IF t \in mine THEN Missing ELSE temp[t]]
  /\ known' = [known EXCEPT ![p] = Unknown]
  /\ UNCHANGED <<file, taken, published>>

-----------------------------------------------------------------------------
Step ==
  \/ \E t \in Thread :
       \/ \E n \in Name : find(t, n) \/ remove(t, n) \/ \E d \in Data : insert(t, n, d)
       \/ input(t)
       \/ CallOutput(t) \/ LockPublish(t) \/ Snapshot(t) \/ WriteTemp(t)
       \/ ReplaceFile(t) \/ PublishFailed(t)
  \/ \E p \in Process : Restart(p)

Next == Step /\ UNCHANGED home

Spec == Init /\ [][Next]_vars

-----------------------------------------------------------------------------
(* Properties.                                                             *)

\* current_size_ is what the entries take up, whatever was replaced, evicted, loaded.
SizeExact == \A p \in Process : current_size[p] = SizeOf(entries[p], DOMAIN entries[p])

\* The cache outgrows its capacity only by input(), when entries were inserted before.
GrowsWithinCapacity ==
  [][\A p \in Process : current_size'[p] > current_size[p] /\ loaded_'[p] = loaded_[p]
       => current_size'[p] <= Capacity[p]]_vars

\* While nobody publishes and the blob is not dirty, the file that it has last read or
\* written holds nothing that the blob does not, and all that was inserted into the blob:
\* no change is lost by being made during the write, and none by a write that fails.
\* (What input() reads during the write may be missing from the file, and another process
\* that shares the file replaces it by its own: the last one wins.)
CleanMeansPublished ==
  \A p \in Process :
    (/\ ~dirty_[p] /\ publisher[p] = NoThread /\ known[p] = file.version
     /\ \A q \in Process \ {p} : published[q] = 0) =>
      /\ \A n \in DOMAIN file.content :
           n \in DOMAIN entries[p] /\ entries[p][n].data = file.content[n]
      /\ \A n \in DOMAIN entries[p] \ DOMAIN file.content : entries[p][n].read

\* A process never replaces the file with an older snapshot than one it published.
PublishedInOrder ==
  [][\A p \in Process : published'[p] # published[p] => published'[p] > published[p]]_vars

\* A write that fails, or a process that ends in the middle of one, never leaves a torn
\* file behind.
NeverTorn == [][file'.state = "broken" => file.state = "broken"]_vars
=============================================================================
