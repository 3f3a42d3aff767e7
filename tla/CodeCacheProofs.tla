-------------------------- MODULE CodeCacheProofs --------------------------
(***************************************************************************)
(* The cache file is never torn and never goes back, a blob that is clean  *)
(* agrees with it, and the size of a blob is exact and what is inserted    *)
(* stays within its capacity, for any processes, threads, names and files. *)
(*                                                                         *)
(* Two invariants, one upon the other: CacheInv, about entries, snapshots  *)
(* and the file, and Sized, about sizes.                                   *)
(***************************************************************************)
EXTENDS CodeCache, Sequences, FiniteSetTheorems, TLAPS

\* TypeOK, but for the size and the set of homes.
Typed ==
  /\ home \in [Thread -> Process]
  /\ entries \in [Process -> Entries]
  /\ dirty_ \in [Process -> BOOLEAN]
  /\ loaded_ \in [Process -> {"never", "failed", "done"}]
  /\ publisher \in [Process -> Thread \cup {NoThread}]
  /\ pc \in [Thread -> {"idle", "lock", "snapshot", "write", "replace", "failed"}]
  /\ image \in [Thread -> [content : Contents, version : Version]]
  /\ temp \in [Thread -> File] /\ file \in File
  /\ taken \in [Process -> Nat] /\ published \in [Process -> Nat]
  /\ \A p \in Process : published[p] <= taken[p] /\ taken[p] <= MaxOutput[p]
  /\ known \in [Process -> Version \cup {Unknown}]

\* One thread of a process at a time is in output().
InOutput == {"snapshot", "write", "replace", "failed"}
OnePublisher ==
  /\ \A t \in Thread : pc[t] \in InOutput => publisher[home[t]] = t
  /\ \A p \in Process : publisher[p] # NoThread =>
       home[publisher[p]] = p /\ pc[publisher[p]] \in InOutput

\* A snapshot that was taken is newer than what was published, and is what is renamed.
Holds(t) == pc[t] \in {"write", "replace", "failed"}
Snapshots ==
  \A t \in Thread :
    /\ Holds(t) => /\ image[t].version = <<home[t], taken[home[t]]>>
                   /\ published[home[t]] < taken[home[t]]
    /\ pc[t] = "replace" =>
         temp[t] = [state |-> "whole", content |-> image[t].content, version |-> image[t].version]

\* c has nothing that the blob of p does not have, and all that was inserted into it.
Reflects(p, c) ==
  /\ \A n \in DOMAIN c : n \in DOMAIN entries[p] /\ entries[p][n].data = c[n]
  /\ \A n \in DOMAIN entries[p] \ DOMAIN c : entries[p][n].read

Alone(p) == \A q \in Process \ {p} : published[q] = 0
Settled(p) == ~dirty_[p] /\ \A t \in Thread : home[t] = p => ~Holds(t)

\* As long as the blob stays clean, it agrees with the snapshot that is being written.
SnapshotIsKept ==
  \A t \in Thread :
    pc[t] \in {"write", "replace"} /\ ~dirty_[home[t]] => Reflects(home[t], image[t].content)

\* A blob that is clean was never used, or agrees with the file that it read or wrote;
\* nobody else replaces that file as long as no other process publishes.
CleanIsKnown ==
  \A p \in Process :
    /\ Settled(p) /\ known[p] = Unknown => DOMAIN entries[p] = {}
    /\ Alone(p) /\ known[p] # Unknown => known[p] = file.version
    /\ Settled(p) /\ Alone(p) /\ known[p] # Unknown => Reflects(p, file.content)

CacheInv == Typed /\ OnePublisher /\ Snapshots /\ SnapshotIsKept /\ CleanIsKnown

-----------------------------------------------------------------------------
(* The entries.                                                            *)

\* What an entry is.
Entry == [data : Data, used : 0..MaxUsed, read : BOOLEAN]

\* Any function from names to entries may be the entries of a blob.
LEMMA EntriesAre ==
  ASSUME NEW S \in SUBSET Name, NEW e \in [S -> Entry]
  PROVE  e \in Entries
BY DEF Entries, Entry

\* The entries of a blob are a function from names to entries.
LEMMA EntriesHave ==
  ASSUME NEW e \in Entries
  PROVE  DOMAIN e \in SUBSET Name /\ e \in [DOMAIN e -> Entry]
BY DEF Entries, Entry

\* Any function from names to data may be the content of a file.
LEMMA ContentsAre ==
  ASSUME NEW S \in SUBSET Name, NEW c \in [S -> Data]
  PROVE  c \in Contents
BY DEF Contents

\* The content of a file is a function from names to data.
LEMMA ContentsHave ==
  ASSUME NEW c \in Contents
  PROVE  DOMAIN c \in SUBSET Name /\ c \in [DOMAIN c -> Data]
BY DEF Contents

\* A blob that has not been loaded and a file that is missing hold nothing.
LEMMA NothingHasNothing ==
  /\ DOMAIN Nothing = {} /\ Nothing \in Entries /\ Nothing \in Contents
  /\ NoImage \in [content : Contents, version : Version] /\ Missing \in File
<1>1. DOMAIN Nothing = {} BY DEF Nothing
<1>2. Nothing \in [{} -> Entry] /\ Nothing \in [{} -> Data] BY DEF Nothing
<1>3. Nothing \in Entries /\ Nothing \in Contents BY <1>2, EntriesAre, ContentsAre
<1> QED BY <1>1, <1>3 DEF NoImage, Missing, File, Version

\* Erasing entries leaves the others as they are.
LEMMA WithoutIsEntries ==
  ASSUME NEW e \in Entries, NEW V
  PROVE  Without(e, V) \in Entries
<1>1. DOMAIN e \in SUBSET Name /\ e \in [DOMAIN e -> Entry] BY EntriesHave
<1>2. Without(e, V) \in [DOMAIN e \ V -> Entry] BY <1>1 DEF Without
<1> QED BY <1>1, <1>2, EntriesAre

\* An entry that is inserted is the only one that is new.
LEMMA WithIsEntries ==
  ASSUME NEW e \in Entries, NEW n \in Name, NEW d \in Data
  PROVE  With(e, n, d) \in Entries
<1>1. DOMAIN e \in SUBSET Name /\ e \in [DOMAIN e -> Entry] BY EntriesHave
<1>2. [data |-> d, used |-> 1, read |-> FALSE] \in Entry
  BY CodeCacheAssumption DEF Entry
<1>3. With(e, n, d) \in [DOMAIN e \cup {n} -> Entry] BY <1>1, <1>2 DEF With
<1> QED BY <1>1, <1>3, EntriesAre

\* No version of a file is unknown.
LEMMA VersionIsKnown ==
  ASSUME NEW v \in Version
  PROVE  v # Unknown
<1>1. CASE v = <<>> BY <1>1 DEF Unknown
<1>2. CASE v # <<>>
  <2>1. PICK p \in Process : v \in {p} \X (1..MaxOutput[p]) BY <1>2 DEF Version
  <2>2. v = <<v[1], v[2]>> BY <2>1
  <2>3. Len(v) = 2 /\ Len(Unknown) = 1 BY <2>2 DEF Unknown
  <2> QED BY <2>3
<1> QED BY <1>1, <1>2

-----------------------------------------------------------------------------
(* The blob changes, and nobody publishes.                                 *)

\* e has the names and the data of the blob of p, and of what it has read nothing was lost.
SameContent(p, e) ==
  /\ DOMAIN e = DOMAIN entries[p]
  /\ \A n \in DOMAIN e : e[n].data = entries[p][n].data /\ e[n].read = entries[p][n].read

\* What find, insert, remove and an input that fails have in common: the blob of one
\* process gets other entries, and is dirty unless they have the same content.
LEMMA BlobChanges ==
  ASSUME CacheInv, UNCHANGED home, NEW p \in Process, NEW e \in Entries,
         entries' = [entries EXCEPT ![p] = e],
         dirty_' \in [Process -> BOOLEAN],
         loaded_' \in [Process -> {"never", "failed", "done"}],
         \A q \in Process \ {p} : dirty_'[q] = dirty_[q],
         dirty_'[p] \/ (~dirty_[p] /\ SameContent(p, e)),
         UNCHANGED <<publisher, pc, image, temp, file, history>>
  PROVE  CacheInv'
<1>1. Typed' BY DEF CacheInv, Typed, history
<1>2. OnePublisher' BY DEF CacheInv, OnePublisher
<1>3. Snapshots' BY DEF CacheInv, Snapshots, Holds, history
<1>4. entries'[p] = e /\ \A q \in Process \ {p} : entries'[q] = entries[q]
  BY DEF CacheInv, Typed
<1>5. ASSUME NEW q \in Process, ~dirty_'[q], NEW c, Reflects(q, c)
      PROVE  Reflects(q, c)'
  <2>1. CASE q = p
    <3>1. SameContent(p, e) BY <1>5, <2>1
    <3> QED BY <1>4, <1>5, <2>1, <3>1 DEF Reflects, SameContent
  <2>2. CASE q # p BY <1>4, <1>5, <2>2 DEF Reflects
  <2> QED BY <2>1, <2>2
<1>6. ASSUME NEW q \in Process, ~dirty_'[q] PROVE ~dirty_[q] BY <1>6
<1>7. SnapshotIsKept'
  <2> SUFFICES ASSUME NEW t \in Thread, pc[t] \in {"write", "replace"}, ~dirty_'[home[t]]
               PROVE  Reflects(home[t], image[t].content)'
    BY DEF SnapshotIsKept
  <2>1. home[t] \in Process BY DEF CacheInv, Typed
  <2>2. Reflects(home[t], image[t].content)
    BY <1>6, <2>1 DEF CacheInv, SnapshotIsKept
  <2>3. PICK c : c = image[t].content OBVIOUS
  <2>4. Reflects(home[t], c)' BY <1>5, <2>1, <2>2, <2>3
  <2> QED BY <2>3, <2>4 DEF Reflects
<1>8. CleanIsKnown'
  <2> SUFFICES ASSUME NEW q \in Process
               PROVE  /\ Settled(q)' /\ known[q] = Unknown => DOMAIN entries'[q] = {}
                      /\ Alone(q)' /\ known[q] # Unknown => known[q] = file.version
                      /\ Settled(q)' /\ Alone(q)' /\ known[q] # Unknown =>
                           Reflects(q, file.content)'
    BY DEF CleanIsKnown, history
  <2>1. Settled(q)' => Settled(q) BY <1>6 DEF Settled, Holds
  <2>2. Alone(q)' <=> Alone(q) BY DEF Alone, history
  <2>3. Settled(q)' /\ known[q] = Unknown => DOMAIN entries'[q] = {}
    BY <1>4, <2>1 DEF CacheInv, CleanIsKnown, SameContent, Settled
  <2>4. Settled(q)' /\ Alone(q)' /\ known[q] # Unknown => Reflects(q, file.content)'
    <3> SUFFICES ASSUME Settled(q)', Alone(q)', known[q] # Unknown
                 PROVE  Reflects(q, file.content)'
      OBVIOUS
    <3>1. Reflects(q, file.content) BY <2>1, <2>2 DEF CacheInv, CleanIsKnown
    <3>2. \A c : Reflects(q, c) => Reflects(q, c)' BY <1>5 DEF Settled, Reflects
    <3> QED BY <3>1, <3>2 DEF Reflects
  <2> QED BY <2>2, <2>3, <2>4 DEF CacheInv, CleanIsKnown
<1> QED BY <1>1, <1>2, <1>3, <1>7, <1>8 DEF CacheInv

\* An entry that is found has been used once more.
LEMMA FindKeeps ==
  ASSUME CacheInv, UNCHANGED home, NEW t \in Thread, NEW n \in Name, find(t, n)
  PROVE  CacheInv'
<1> DEFINE p == home[t]
           found == [entries[p] EXCEPT ![n].used = entries[p][n].used + 1]
<1>1. p \in Process /\ entries[p] \in Entries BY DEF CacheInv, Typed
<1>2. DOMAIN entries[p] \in SUBSET Name /\ entries[p] \in [DOMAIN entries[p] -> Entry]
  BY <1>1, EntriesHave
<1>3. n \in DOMAIN entries[p] /\ entries[p][n].used + 1 \in 0..MaxUsed
  BY <1>2, CodeCacheAssumption DEF find, Entry
<1>4. found \in [DOMAIN entries[p] -> Entry] BY <1>2, <1>3 DEF Entry
<1>5. found \in Entries BY <1>2, <1>4, EntriesAre
<1>6. SameContent(p, found) BY <1>2, <1>3 DEF SameContent, Entry
<1>7. entries' = [entries EXCEPT ![p] = found] BY <1>1 DEF find, CacheInv, Typed
<1>8. /\ dirty_' \in [Process -> BOOLEAN] /\ dirty_' = dirty_
      /\ UNCHANGED <<loaded_, publisher, pc, image, temp, file, history>>
      /\ loaded_' \in [Process -> {"never", "failed", "done"}]
  BY DEF find, CacheInv, Typed
<1> HIDE DEF p, found
<1> QED BY <1>1, <1>5, <1>6, <1>7, <1>8, BlobChanges

\* An entry that is removed makes the blob dirty.
LEMMA RemoveKeeps ==
  ASSUME CacheInv, UNCHANGED home, NEW t \in Thread, NEW n \in Name, remove(t, n)
  PROVE  CacheInv'
<1> DEFINE p == home[t]
           e == Without(entries[p], {n})
<1>1. p \in Process /\ entries[p] \in Entries BY DEF CacheInv, Typed
<1>2. e \in Entries BY <1>1, WithoutIsEntries
<1>3. entries' = [entries EXCEPT ![p] = e] BY DEF remove
<1>4. /\ dirty_' \in [Process -> BOOLEAN] /\ dirty_'[p]
      /\ \A q \in Process \ {p} : dirty_'[q] = dirty_[q]
  BY <1>1 DEF remove, CacheInv, Typed
<1>5. /\ loaded_' \in [Process -> {"never", "failed", "done"}]
      /\ UNCHANGED <<publisher, pc, image, temp, file, history>>
  BY DEF remove, CacheInv, Typed
<1> HIDE DEF p, e
<1> QED BY <1>1, <1>2, <1>3, <1>4, <1>5, BlobChanges

\* An entry that is inserted, or only replaces one, makes the blob dirty.
LEMMA InsertKeeps ==
  ASSUME CacheInv, UNCHANGED home, NEW t \in Thread, NEW n \in Name, NEW d \in Data,
         insert(t, n, d)
  PROVE  CacheInv'
<1> DEFINE p == home[t]
           erased == Without(entries[p], {n})
<1>1. p \in Process /\ entries[p] \in Entries /\ dirty_ \in [Process -> BOOLEAN]
  BY DEF CacheInv, Typed
<1>2. erased \in Entries BY <1>1, WithoutIsEntries
<1>3. /\ loaded_' \in [Process -> {"never", "failed", "done"}]
      /\ UNCHANGED <<publisher, pc, image, temp, file, history>>
  BY DEF insert, CacheInv, Typed
<1>4. CASE Size[d] > Capacity[p]
  <2>1. /\ entries' = [entries EXCEPT ![p] = erased]
        /\ dirty_' = [dirty_ EXCEPT ![p] = dirty_[p] \/ n \in DOMAIN entries[p]]
    BY <1>4 DEF insert
  <2>2. /\ dirty_' \in [Process -> BOOLEAN]
        /\ \A q \in Process \ {p} : dirty_'[q] = dirty_[q]
        /\ dirty_'[p] = (dirty_[p] \/ n \in DOMAIN entries[p])
    BY <1>1, <2>1
  <2>3. n \notin DOMAIN entries[p] => SameContent(p, erased)
    BY DEF SameContent, Without
  <2>4. dirty_'[p] \/ (~dirty_[p] /\ SameContent(p, erased)) BY <2>2, <2>3
  <2> HIDE DEF p, erased
  <2> QED BY <1>1, <1>2, <1>3, <2>1, <2>2, <2>4, BlobChanges
<1>5. CASE ~(Size[d] > Capacity[p])
  <2>1. PICK V : /\ entries' = [entries EXCEPT ![p] = With(Without(erased, V), n, d)]
                 /\ dirty_' = [dirty_ EXCEPT ![p] = TRUE]
    BY <1>5 DEF insert
  <2>2. /\ dirty_' \in [Process -> BOOLEAN] /\ dirty_'[p]
        /\ \A q \in Process \ {p} : dirty_'[q] = dirty_[q]
    BY <1>1, <2>1
  <2>3. With(Without(erased, V), n, d) \in Entries
    BY <1>2, WithoutIsEntries, WithIsEntries
  <2> HIDE DEF p, erased
  <2> QED BY <1>1, <1>3, <2>1, <2>2, <2>3, BlobChanges
<1> QED BY <1>4, <1>5

\* What is read is marked so, and never replaces what was inserted.
LEMMA MergedIs ==
  ASSUME CacheInv, NEW p \in Process, NEW S \in SUBSET DOMAIN file.content
  PROVE  /\ Merged(p, S) \in Entries
         /\ DOMAIN Merged(p, S) = S \cup DOMAIN entries[p]
         /\ \A n \in DOMAIN entries[p] : Merged(p, S)[n] = entries[p][n]
         /\ \A n \in S \ DOMAIN entries[p] :
              Merged(p, S)[n].data = file.content[n] /\ Merged(p, S)[n].read
<1>1. file.content \in Contents BY DEF CacheInv, Typed, File
<1>2. DOMAIN file.content \in SUBSET Name /\ file.content \in [DOMAIN file.content -> Data]
  BY <1>1, ContentsHave
<1>3. DOMAIN entries[p] \in SUBSET Name /\ entries[p] \in [DOMAIN entries[p] -> Entry]
  BY EntriesHave DEF CacheInv, Typed
<1>4. ASSUME NEW n \in S
      PROVE  [data |-> file.content[n], used |-> 0, read |-> TRUE] \in Entry
  BY <1>2, CodeCacheAssumption DEF Entry
<1>5. Merged(p, S) \in [S \cup DOMAIN entries[p] -> Entry] BY <1>3, <1>4 DEF Merged
<1>6. Merged(p, S) \in Entries BY <1>2, <1>3, <1>5, EntriesAre
<1> QED BY <1>6 DEF Merged

\* A file that is read leaves a clean blob with what the file holds, and with what was
\* read or inserted before.
LEMMA ReadKeeps ==
  ASSUME CacheInv, UNCHANGED home, NEW p \in Process, NEW S \in SUBSET DOMAIN file.content,
         entries' = [entries EXCEPT ![p] = Merged(p, S)],
         dirty_' = [dirty_ EXCEPT ![p] = dirty_[p] \/ S # DOMAIN file.content],
         loaded_' = [loaded_ EXCEPT ![p] = "done"],
         known' = [known EXCEPT ![p] = file.version],
         UNCHANGED <<publisher, pc, image, temp, file, taken, published>>
  PROVE  CacheInv'
<1> DEFINE e == Merged(p, S)
<1>1. /\ e \in Entries
      /\ DOMAIN e = S \cup DOMAIN entries[p]
      /\ \A n \in DOMAIN entries[p] : e[n] = entries[p][n]
      /\ \A n \in S \ DOMAIN entries[p] : e[n].data = file.content[n] /\ e[n].read
  BY MergedIs
<1> HIDE DEF e
<1>2. entries' = [entries EXCEPT ![p] = e] BY DEF e
<1>3. file.version \in Version BY DEF CacheInv, Typed, File
<1>4. dirty_' \in [Process -> BOOLEAN] BY DEF CacheInv, Typed
<1>5. Typed' BY <1>1, <1>2, <1>3, <1>4 DEF CacheInv, Typed
<1>6. OnePublisher' BY DEF CacheInv, OnePublisher
<1>7. Snapshots' BY DEF CacheInv, Snapshots, Holds
<1>8. /\ entries'[p] = e /\ known'[p] = file.version
      /\ dirty_'[p] = (dirty_[p] \/ S # DOMAIN file.content)
      /\ \A q \in Process \ {p} :
           entries'[q] = entries[q] /\ known'[q] = known[q] /\ dirty_'[q] = dirty_[q]
  BY <1>2 DEF CacheInv, Typed
<1>9. ASSUME NEW q \in Process, NEW c, Reflects(q, c)
      PROVE  Reflects(q, c)'
  <2>1. CASE q = p
    <3>1. \A n \in DOMAIN c : n \in DOMAIN entries[p] /\ entries[p][n].data = c[n]
      BY <1>9, <2>1 DEF Reflects
    <3>2. \A n \in DOMAIN e \ DOMAIN c : e[n].read
      BY <1>1, <1>9, <2>1 DEF Reflects
    <3> QED BY <1>1, <1>8, <2>1, <3>1, <3>2 DEF Reflects
  <2>2. CASE q # p BY <1>8, <1>9, <2>2 DEF Reflects
  <2> QED BY <2>1, <2>2
<1>10. ASSUME NEW q \in Process, ~dirty_'[q] PROVE ~dirty_[q] BY <1>8, <1>10
<1>11. SnapshotIsKept'
  <2> SUFFICES ASSUME NEW t \in Thread, pc[t] \in {"write", "replace"}, ~dirty_'[home[t]]
               PROVE  Reflects(home[t], image[t].content)'
    BY DEF SnapshotIsKept
  <2>1. home[t] \in Process BY DEF CacheInv, Typed
  <2>2. Reflects(home[t], image[t].content)
    BY <1>10, <2>1 DEF CacheInv, SnapshotIsKept
  <2>3. PICK c : c = image[t].content OBVIOUS
  <2>4. Reflects(home[t], c)' BY <1>9, <2>1, <2>2, <2>3
  <2> QED BY <2>3, <2>4 DEF Reflects
<1>12. ASSUME NEW q \in Process
       PROVE  /\ Settled(q)' /\ known'[q] = Unknown => DOMAIN entries'[q] = {}
              /\ Alone(q)' /\ known'[q] # Unknown => known'[q] = file.version
              /\ Settled(q)' /\ Alone(q)' /\ known'[q] # Unknown =>
                   Reflects(q, file.content)'
  <2>1. Settled(q)' => Settled(q) BY <1>10 DEF Settled, Holds
  <2>2. Alone(q)' <=> Alone(q) BY DEF Alone
  <2>3. CASE q = p
    <3>1. known'[q] # Unknown BY <1>3, <1>8, <2>3, VersionIsKnown
    <3>2. ASSUME Settled(q)', Alone(q)' PROVE Reflects(q, file.content)'
      <4>1. S = DOMAIN file.content BY <1>8, <2>3, <3>2 DEF Settled
      <4>2. CASE known[q] = Unknown
        <5>1. DOMAIN entries[q] = {} BY <2>1, <3>2, <4>2 DEF CacheInv, CleanIsKnown
        <5> QED BY <1>1, <1>8, <2>3, <4>1, <5>1 DEF Reflects
      <4>3. CASE known[q] # Unknown
        <5>1. Reflects(q, file.content)
          BY <2>1, <2>2, <3>2, <4>3 DEF CacheInv, CleanIsKnown
        <5>2. \A c : Reflects(q, c) => Reflects(q, c)' BY <1>9 DEF Reflects
        <5> QED BY <5>1, <5>2 DEF Reflects
      <4> QED BY <4>2, <4>3
    <3> QED BY <1>8, <2>3, <3>1, <3>2
  <2>4. CASE q # p
    <3>1. entries'[q] = entries[q] /\ known'[q] = known[q] BY <1>8, <2>4
    <3>2. \A c : Reflects(q, c) => Reflects(q, c)' BY <1>9 DEF Reflects
    <3>3. Reflects(q, file.content) => Reflects(q, file.content)' BY <3>2 DEF Reflects
    <3> QED BY <2>1, <2>2, <3>1, <3>3 DEF CacheInv, CleanIsKnown
  <2> QED BY <2>3, <2>4
<1>13. CleanIsKnown' BY <1>12 DEF CleanIsKnown
<1> QED BY <1>5, <1>6, <1>7, <1>11, <1>13 DEF CacheInv

\* A file that is missing or rejected leaves the blob as it was; a whole one is merged.
LEMMA InputKeeps ==
  ASSUME CacheInv, UNCHANGED home, NEW t \in Thread, input(t)
  PROVE  CacheInv'
<1> DEFINE p == home[t]
<1>1. p \in Process /\ entries[p] \in Entries BY DEF CacheInv, Typed
<1>2. UNCHANGED <<publisher, pc, image, temp, file, taken, published>> BY DEF input
<1>3. CASE UNCHANGED <<entries, known>> /\ loaded_' = [loaded_ EXCEPT ![p] = "failed"]
           /\ dirty_' \in {dirty_, [dirty_ EXCEPT ![p] = TRUE]}
  <2>1. entries' = [entries EXCEPT ![p] = entries[p]] BY <1>1, <1>3 DEF CacheInv, Typed
  <2>2. /\ dirty_' \in [Process -> BOOLEAN]
        /\ loaded_' \in [Process -> {"never", "failed", "done"}]
        /\ \A q \in Process \ {p} : dirty_'[q] = dirty_[q]
        /\ dirty_'[p] \/ ~dirty_[p]
    BY <1>1, <1>3 DEF CacheInv, Typed
  <2>3. SameContent(p, entries[p]) BY DEF SameContent
  <2>4. UNCHANGED <<publisher, pc, image, temp, file, history>> BY <1>2, <1>3 DEF history
  <2> HIDE DEF p
  <2> QED BY <1>1, <2>1, <2>2, <2>3, <2>4, BlobChanges
<1>4. CASE ~UNCHANGED <<entries, known>> \/ loaded_' # [loaded_ EXCEPT ![p] = "failed"]
           \/ dirty_' \notin {dirty_, [dirty_ EXCEPT ![p] = TRUE]}
  <2>1. PICK S \in Kept(file.content, Capacity[p]) :
          /\ entries' = [entries EXCEPT ![p] = Merged(p, S)]
          /\ dirty_' = [dirty_ EXCEPT ![p] = dirty_[p] \/ S # DOMAIN file.content]
          /\ loaded_' = [loaded_ EXCEPT ![p] = "done"]
          /\ known' = [known EXCEPT ![p] = file.version]
    BY <1>4 DEF input
  <2>2. S \in SUBSET DOMAIN file.content BY DEF Kept
  <2> HIDE DEF p
  <2> QED BY <1>1, <1>2, <2>1, <2>2, ReadKeeps
<1> QED BY <1>3, <1>4

-----------------------------------------------------------------------------
(* output().                                                               *)

\* Who holds publish_mutex_ is alone in output().
LEMMA OthersAreOut ==
  ASSUME CacheInv, NEW t \in Thread, pc[t] \in InOutput
  PROVE  \A u \in Thread \ {t} : home[u] = home[t] => pc[u] \notin InOutput
BY DEF CacheInv, OnePublisher

\* Who returns from output() gives publish_mutex_ back, and nobody else is concerned.
LEMMA ReturnLeaves ==
  ASSUME CacheInv, UNCHANGED home, NEW t \in Thread, pc[t] \in InOutput, Return(t)
  PROVE  /\ publisher' \in [Process -> Thread \cup {NoThread}]
         /\ pc' \in [Thread -> {"idle", "lock", "snapshot", "write", "replace", "failed"}]
         /\ image' \in [Thread -> [content : Contents, version : Version]]
         /\ temp' \in [Thread -> File]
         /\ OnePublisher'
         /\ pc'[t] = "idle"
         /\ \A u \in Thread \ {t} :
              pc'[u] = pc[u] /\ image'[u] = image[u] /\ temp'[u] = temp[u]
<1>1. /\ home \in [Thread -> Process]
      /\ publisher \in [Process -> Thread \cup {NoThread}]
      /\ pc \in [Thread -> {"idle", "lock", "snapshot", "write", "replace", "failed"}]
      /\ image \in [Thread -> [content : Contents, version : Version]]
      /\ temp \in [Thread -> File]
  BY DEF CacheInv, Typed
<1>2. /\ publisher' \in [Process -> Thread \cup {NoThread}]
      /\ pc' \in [Thread -> {"idle", "lock", "snapshot", "write", "replace", "failed"}]
  BY <1>1 DEF Return
<1>3. /\ image' \in [Thread -> [content : Contents, version : Version]]
      /\ temp' \in [Thread -> File]
  BY <1>1, NothingHasNothing DEF Return
<1>4. /\ pc'[t] = "idle" /\ publisher'[home[t]] = NoThread
      /\ \A u \in Thread \ {t} :
           pc'[u] = pc[u] /\ image'[u] = image[u] /\ temp'[u] = temp[u]
      /\ \A q \in Process \ {home[t]} : publisher'[q] = publisher[q]
  BY <1>1 DEF Return
<1>5. OnePublisher'
  <2>1. ASSUME NEW u \in Thread, pc'[u] \in InOutput PROVE publisher'[home[u]] = u
    <3>1. u # t /\ pc[u] \in InOutput BY <1>4, <2>1 DEF InOutput
    <3>2. home[u] # home[t] BY <3>1, OthersAreOut
    <3> QED BY <1>1, <1>4, <3>1, <3>2 DEF CacheInv, OnePublisher
  <2>2. ASSUME NEW q \in Process, publisher'[q] # NoThread
        PROVE  home[publisher'[q]] = q /\ pc'[publisher'[q]] \in InOutput
    <3>1. q # home[t] /\ publisher'[q] = publisher[q] BY <1>4, <2>2
    <3>2. home[publisher[q]] = q /\ pc[publisher[q]] \in InOutput
      BY <2>2, <3>1 DEF CacheInv, OnePublisher
    <3>3. publisher[q] \in Thread \ {t} BY <1>1, <2>2, <3>1, <3>2
    <3> QED BY <1>4, <3>1, <3>2, <3>3
  <2> QED BY <2>1, <2>2 DEF OnePublisher
<1> QED BY <1>2, <1>3, <1>4, <1>5

\* Waiting for publish_mutex_ and taking it changes nothing that is published.
LEMMA LockKeeps ==
  ASSUME CacheInv, UNCHANGED home, NEW t \in Thread, CallOutput(t) \/ LockPublish(t)
  PROVE  CacheInv'
<1>1. /\ home \in [Thread -> Process]
      /\ publisher \in [Process -> Thread \cup {NoThread}]
      /\ pc \in [Thread -> {"idle", "lock", "snapshot", "write", "replace", "failed"}]
  BY DEF CacheInv, Typed
<1>2. UNCHANGED <<blob, image, temp, file, history>> BY DEF CallOutput, LockPublish
<1>3. \A u \in Thread : /\ Holds(u)' <=> Holds(u)
                        /\ pc'[u] = "replace" <=> pc[u] = "replace"
                        /\ pc'[u] = "write" <=> pc[u] = "write"
  BY <1>1 DEF CallOutput, LockPublish, Holds
<1>4. /\ publisher' \in [Process -> Thread \cup {NoThread}]
      /\ pc' \in [Thread -> {"idle", "lock", "snapshot", "write", "replace", "failed"}]
  BY <1>1 DEF CallOutput, LockPublish
<1>5. Typed' BY <1>2, <1>4 DEF CacheInv, Typed, blob, history
<1>6. OnePublisher'
  <2>1. CASE CallOutput(t)
    <3>1. publisher' = publisher /\ pc' = [pc EXCEPT ![t] = "lock"] /\ pc[t] = "idle"
      BY <2>1 DEF CallOutput
    <3>2. \A u \in Thread : pc'[u] \in InOutput <=> pc[u] \in InOutput
      BY <1>1, <3>1 DEF InOutput
    <3> QED BY <1>1, <3>1, <3>2 DEF CacheInv, OnePublisher
  <2>2. CASE LockPublish(t)
    <3>1. /\ publisher[home[t]] = NoThread
          /\ publisher' = [publisher EXCEPT ![home[t]] = t]
          /\ pc' = [pc EXCEPT ![t] = "snapshot"] /\ pc[t] = "lock"
      BY <2>2 DEF LockPublish, MayPublish
    <3>2. \A u \in Thread : home[u] = home[t] => pc[u] \notin InOutput
      BY <3>1, CodeCacheAssumption DEF CacheInv, OnePublisher
    <3>3. ASSUME NEW u \in Thread, pc'[u] \in InOutput PROVE publisher'[home[u]] = u
      <4>1. CASE u = t BY <1>1, <3>1, <4>1
      <4>2. CASE u # t
        <5>1. pc[u] \in InOutput BY <1>1, <3>1, <3>3, <4>2
        <5> QED BY <1>1, <3>1, <3>2, <5>1 DEF CacheInv, OnePublisher
      <4> QED BY <4>1, <4>2
    <3>4. ASSUME NEW q \in Process, publisher'[q] # NoThread
          PROVE  home[publisher'[q]] = q /\ pc'[publisher'[q]] \in InOutput
      <4>1. CASE q = home[t] BY <1>1, <3>1, <4>1 DEF InOutput
      <4>2. CASE q # home[t]
        <5>1. publisher'[q] = publisher[q] BY <1>1, <3>1, <4>2
        <5>2. home[publisher[q]] = q /\ pc[publisher[q]] \in InOutput
          BY <3>4, <5>1 DEF CacheInv, OnePublisher
        <5>3. publisher[q] \in Thread \ {t} BY <1>1, <3>4, <4>2, <5>1, <5>2
        <5> QED BY <1>1, <3>1, <5>1, <5>2, <5>3
      <4> QED BY <4>1, <4>2
    <3> QED BY <3>3, <3>4 DEF OnePublisher
  <2> QED BY <2>1, <2>2
<1>7. Snapshots' BY <1>2, <1>3 DEF CacheInv, Snapshots, history
<1>8. SnapshotIsKept'
  BY <1>2, <1>3 DEF CacheInv, SnapshotIsKept, Reflects, blob
<1>9. CleanIsKnown'
  <2>1. \A q \in Process : (Settled(q)' <=> Settled(q)) /\ (Alone(q)' <=> Alone(q))
    BY <1>2, <1>3 DEF Settled, Alone, blob, history
  <2> QED BY <1>2, <2>1 DEF CacheInv, CleanIsKnown, Reflects, blob, history
<1> QED BY <1>5, <1>6, <1>7, <1>8, <1>9 DEF CacheInv

\* Nothing to publish: output() returns.
LEMMA CleanSnapshotKeeps ==
  ASSUME CacheInv, UNCHANGED home, NEW t \in Thread,
         pc[t] = "snapshot", Return(t),
         UNCHANGED <<entries, dirty_, loaded_, file, history>>
  PROVE  CacheInv'
<1>1. pc[t] \in InOutput BY DEF InOutput
<1>2. /\ publisher' \in [Process -> Thread \cup {NoThread}]
      /\ pc' \in [Thread -> {"idle", "lock", "snapshot", "write", "replace", "failed"}]
      /\ image' \in [Thread -> [content : Contents, version : Version]]
      /\ temp' \in [Thread -> File]
      /\ OnePublisher'
      /\ pc'[t] = "idle"
      /\ \A u \in Thread \ {t} :
           pc'[u] = pc[u] /\ image'[u] = image[u] /\ temp'[u] = temp[u]
  BY <1>1, ReturnLeaves
<1>3. Typed' BY <1>2 DEF CacheInv, Typed, history
<1>4. /\ \A u \in Thread : Holds(u)' <=> Holds(u)
      /\ \A u \in Thread : pc'[u] \in {"write", "replace"} => u # t
      /\ ~Holds(t)'
  BY <1>2 DEF Holds
<1>5. Snapshots'
  <2> SUFFICES ASSUME NEW u \in Thread
               PROVE  /\ Holds(u)' => /\ image'[u].version = <<home[u], taken[home[u]]>>
                                      /\ published[home[u]] < taken[home[u]]
                      /\ pc'[u] = "replace" => temp'[u] =
                           [state |-> "whole", content |-> image'[u].content,
                            version |-> image'[u].version]
    BY DEF Snapshots, history
  <2> QED BY <1>2, <1>4 DEF CacheInv, Snapshots
<1>6. SnapshotIsKept' BY <1>2, <1>4 DEF CacheInv, SnapshotIsKept, Reflects
<1>7. CleanIsKnown'
  <2>1. \A q \in Process : (Settled(q)' <=> Settled(q)) /\ (Alone(q)' <=> Alone(q))
    BY <1>4 DEF Settled, Alone, history
  <2> QED BY <2>1 DEF CacheInv, CleanIsKnown, Reflects, history
<1> QED BY <1>2, <1>3, <1>5, <1>6, <1>7 DEF CacheInv

\* A snapshot is newer than any that was taken, and leaves the blob clean.
LEMMA DirtySnapshotKeeps ==
  ASSUME CacheInv, UNCHANGED home, NEW t \in Thread, pc[t] = "snapshot",
         taken[home[t]] < MaxOutput[home[t]],
         image' = [image EXCEPT ![t] =
           [content |-> [n \in DOMAIN entries[home[t]] |-> entries[home[t]][n].data],
            version |-> <<home[t], taken[home[t]] + 1>>]],
         taken' = [taken EXCEPT ![home[t]] = taken[home[t]] + 1],
         dirty_' = [dirty_ EXCEPT ![home[t]] = FALSE],
         pc' = [pc EXCEPT ![t] = "write"],
         UNCHANGED <<entries, loaded_, publisher, temp, file, published, known>>
  PROVE  CacheInv'
<1> DEFINE p == home[t]
           now == [n \in DOMAIN entries[p] |-> entries[p][n].data]
<1>1. /\ home \in [Thread -> Process] /\ p \in Process
      /\ dirty_ \in [Process -> BOOLEAN]
      /\ pc \in [Thread -> {"idle", "lock", "snapshot", "write", "replace", "failed"}]
      /\ image \in [Thread -> [content : Contents, version : Version]]
      /\ taken \in [Process -> Nat] /\ published \in [Process -> Nat]
      /\ \A q \in Process : published[q] <= taken[q] /\ taken[q] <= MaxOutput[q]
  BY DEF CacheInv, Typed
<1>2. pc[t] \in InOutput /\ ~Holds(t) BY DEF InOutput, Holds
<1>3. \A u \in Thread \ {t} : home[u] = p => pc[u] \notin InOutput BY <1>2, OthersAreOut
<1>4. now \in Contents
  <2>1. DOMAIN entries[p] \in SUBSET Name /\ entries[p] \in [DOMAIN entries[p] -> Entry]
    BY <1>1, EntriesHave DEF CacheInv, Typed
  <2>2. now \in [DOMAIN entries[p] -> Data] BY <2>1 DEF Entry
  <2> QED BY <2>1, <2>2, ContentsAre
<1>5. <<p, taken[p] + 1>> \in Version
  <2>1. taken[p] + 1 \in 1..MaxOutput[p] BY <1>1, CodeCacheAssumption
  <2> QED BY <1>1, <2>1 DEF Version
<1>6. /\ image' = [image EXCEPT ![t] = [content |-> now, version |-> <<p, taken[p] + 1>>]]
      /\ taken' = [taken EXCEPT ![p] = taken[p] + 1]
      /\ dirty_' = [dirty_ EXCEPT ![p] = FALSE]
  OBVIOUS
<1>7. \A n \in DOMAIN entries[p] : n \in DOMAIN now /\ now[n] = entries[p][n].data
  OBVIOUS
<1>8. DOMAIN now = DOMAIN entries[p] OBVIOUS
<1> HIDE DEF p, now
<1>9. /\ image'[t] = [content |-> now, version |-> <<p, taken[p] + 1>>]
      /\ taken'[p] = taken[p] + 1 /\ ~dirty_'[p] /\ pc'[t] = "write"
      /\ \A u \in Thread \ {t} : image'[u] = image[u] /\ pc'[u] = pc[u]
      /\ \A q \in Process \ {p} : taken'[q] = taken[q] /\ dirty_'[q] = dirty_[q]
  <2>1. /\ image'[t] = [content |-> now, version |-> <<p, taken[p] + 1>>]
        /\ \A u \in Thread \ {t} : image'[u] = image[u]
    BY <1>1, <1>6
  <2>2. pc'[t] = "write" /\ \A u \in Thread \ {t} : pc'[u] = pc[u]
    BY <1>1
  <2>3. /\ taken'[p] = taken[p] + 1
        /\ \A q \in Process \ {p} : taken'[q] = taken[q]
    BY <1>1, <1>6
  <2>4. ~dirty_'[p] /\ \A q \in Process \ {p} : dirty_'[q] = dirty_[q]
    BY <1>1, <1>6
  <2> QED BY <2>1, <2>2, <2>3, <2>4
<1>10. Typed'
  <2>1. image' \in [Thread -> [content : Contents, version : Version]]
    <3>1. [content |-> now, version |-> <<p, taken[p] + 1>>] \in
            [content : Contents, version : Version]
      BY <1>4, <1>5
    <3> QED BY <1>1, <1>6, <3>1
  <2>2. /\ taken' \in [Process -> Nat] /\ dirty_' \in [Process -> BOOLEAN]
        /\ pc' \in [Thread -> {"idle", "lock", "snapshot", "write", "replace", "failed"}]
    BY <1>1, <1>6
  <2>3. \A q \in Process : published[q] <= taken'[q] /\ taken'[q] <= MaxOutput[q]
    <3> SUFFICES ASSUME NEW q \in Process
                 PROVE  published[q] <= taken'[q] /\ taken'[q] <= MaxOutput[q]
      OBVIOUS
    <3>1. CASE q = p BY <1>1, <1>9, <3>1, CodeCacheAssumption DEF p
    <3>2. CASE q # p BY <1>1, <1>9, <3>2
    <3> QED BY <3>1, <3>2
  <2> QED BY <2>1, <2>2, <2>3 DEF CacheInv, Typed
<1>11. OnePublisher'
  <2>1. \A u \in Thread : pc'[u] \in InOutput <=> pc[u] \in InOutput
    BY <1>2, <1>9 DEF InOutput
  <2>2. \A q \in Process : publisher[q] # NoThread => publisher[q] \in Thread
    BY DEF CacheInv, Typed
  <2> QED BY <2>1, <2>2 DEF CacheInv, OnePublisher
<1>12. \A u \in Thread \ {t} : Holds(u)' => Holds(u) /\ home[u] # p
  BY <1>3, <1>9 DEF Holds, InOutput
<1>13. Snapshots'
  <2> SUFFICES ASSUME NEW u \in Thread
               PROVE  /\ Holds(u)' => /\ image'[u].version = <<home[u], taken'[home[u]]>>
                                      /\ published[home[u]] < taken'[home[u]]
                      /\ pc'[u] = "replace" => temp[u] =
                           [state |-> "whole", content |-> image'[u].content,
                            version |-> image'[u].version]
    BY DEF Snapshots
  <2>1. CASE u = t
    <3>1. image'[t].version = <<p, taken'[p]>> BY <1>9
    <3>2. published[p] < taken'[p] BY <1>1, <1>9
    <3> QED BY <1>9, <2>1, <3>1, <3>2 DEF p
  <2>2. CASE u # t
    <3>1. home[u] \in Process BY <1>1
    <3>2. /\ Holds(u) => /\ image[u].version = <<home[u], taken[home[u]]>>
                         /\ published[home[u]] < taken[home[u]]
          /\ pc[u] = "replace" => temp[u] =
               [state |-> "whole", content |-> image[u].content, version |-> image[u].version]
      BY DEF CacheInv, Snapshots
    <3>3. pc'[u] = pc[u] /\ image'[u] = image[u] BY <1>9, <2>2
    <3>4. Holds(u)' => Holds(u) /\ taken'[home[u]] = taken[home[u]]
      <4>1. Holds(u)' => Holds(u) /\ home[u] # p BY <1>12, <2>2
      <4>2. home[u] # p => taken'[home[u]] = taken[home[u]] BY <1>9, <3>1
      <4> QED BY <4>1, <4>2
    <3> QED BY <3>2, <3>3, <3>4
  <2> QED BY <2>1, <2>2
<1>14. SnapshotIsKept'
  <2> SUFFICES ASSUME NEW u \in Thread, pc'[u] \in {"write", "replace"}, ~dirty_'[home[u]]
               PROVE  Reflects(home[u], image[u].content)'
    BY DEF SnapshotIsKept, Reflects
  <2>1. CASE u = t
    <3>1. image'[u].content = now BY <1>9, <2>1
    <3> QED BY <1>7, <1>8, <2>1, <3>1 DEF Reflects, p
  <2>2. CASE u # t
    <3>1. Holds(u)' BY DEF Holds
    <3>2. home[u] \in Process \ {p} BY <1>1, <1>12, <2>2, <3>1
    <3>3. Reflects(home[u], image[u].content)
      BY <1>9, <2>2, <3>2 DEF CacheInv, SnapshotIsKept
    <3> QED BY <1>9, <2>2, <3>3 DEF Reflects
  <2> QED BY <2>1, <2>2
<1>15. CleanIsKnown'
  <2>1. ASSUME NEW q \in Process, Settled(q)' PROVE Settled(q)
    <3>1. q # p BY <1>9, <2>1 DEF Settled, Holds, p
    <3>2. \A u \in Thread : home[u] = q => u # t BY <3>1 DEF p
    <3> QED BY <1>9, <2>1, <3>1, <3>2 DEF Settled, Holds
  <2>2. \A q \in Process : Alone(q)' <=> Alone(q) BY DEF Alone
  <2>3. \A q \in Process : Reflects(q, file.content)' <=> Reflects(q, file.content)
    BY DEF Reflects
  <2> QED BY <2>1, <2>2, <2>3 DEF CacheInv, CleanIsKnown
<1> QED BY <1>10, <1>11, <1>13, <1>14, <1>15 DEF CacheInv

\* Either way, what output() takes from the blob keeps the invariant.
LEMMA SnapshotKeeps ==
  ASSUME CacheInv, UNCHANGED home, NEW t \in Thread, Snapshot(t)
  PROVE  CacheInv'
<1>1. CASE ~dirty_[home[t]] /\ Return(t) /\ UNCHANGED <<dirty_, taken>>
  <2>1. pc[t] = "snapshot" /\ UNCHANGED <<entries, dirty_, loaded_, file, history>>
    BY <1>1 DEF Snapshot, history
  <2> QED BY <1>1, <2>1, CleanSnapshotKeeps
<1>2. CASE ~(~dirty_[home[t]] /\ Return(t) /\ UNCHANGED <<dirty_, taken>>)
  <2>1. /\ pc[t] = "snapshot" /\ taken[home[t]] < MaxOutput[home[t]]
        /\ image' = [image EXCEPT ![t] =
             [content |-> [n \in DOMAIN entries[home[t]] |-> entries[home[t]][n].data],
              version |-> <<home[t], taken[home[t]] + 1>>]]
        /\ taken' = [taken EXCEPT ![home[t]] = taken[home[t]] + 1]
        /\ dirty_' = [dirty_ EXCEPT ![home[t]] = FALSE]
        /\ pc' = [pc EXCEPT ![t] = "write"]
        /\ UNCHANGED <<entries, loaded_, publisher, temp, file, published, known>>
    BY <1>2 DEF Snapshot
  <2> QED BY <2>1, DirtySnapshotKeeps
<1> QED BY <1>1, <1>2

\* Only a whole temporary file is going to be renamed.
LEMMA WriteKeeps ==
  ASSUME CacheInv, UNCHANGED home, NEW t \in Thread, WriteTemp(t)
  PROVE  CacheInv'
<1>1. PICK written \in BOOLEAN :
        /\ temp' = [temp EXCEPT ![t] =
             [state |-> IF written THEN "whole" ELSE "broken",
              content |-> image[t].content, version |-> image[t].version]]
        /\ pc' = [pc EXCEPT ![t] = NextAfter(written)]
  BY DEF WriteTemp
<1>2. pc[t] = "write" /\ UNCHANGED <<blob, publisher, image, file, history>>
  BY DEF WriteTemp
<1>3. /\ home \in [Thread -> Process]
      /\ pc \in [Thread -> {"idle", "lock", "snapshot", "write", "replace", "failed"}]
      /\ image \in [Thread -> [content : Contents, version : Version]]
      /\ temp \in [Thread -> File]
  BY DEF CacheInv, Typed
<1>4. /\ pc'[t] = (IF written THEN "replace" ELSE "failed")
      /\ temp'[t] = [state |-> IF written THEN "whole" ELSE "broken",
                     content |-> image[t].content, version |-> image[t].version]
      /\ \A u \in Thread \ {t} : pc'[u] = pc[u] /\ temp'[u] = temp[u]
  BY <1>1, <1>3 DEF NextAfter
<1>5. Typed'
  <2>1. pc' \in [Thread -> {"idle", "lock", "snapshot", "write", "replace", "failed"}]
    BY <1>1, <1>3 DEF NextAfter
  <2>2. temp'[t] \in File BY <1>3, <1>4 DEF File
  <2>3. temp' \in [Thread -> File] BY <1>1, <1>3, <1>4, <2>2
  <2> QED BY <1>2, <2>1, <2>3 DEF CacheInv, Typed, blob, history
<1>6. \A u \in Thread : /\ pc'[u] \in InOutput <=> pc[u] \in InOutput
                        /\ Holds(u)' <=> Holds(u)
  BY <1>2, <1>4 DEF InOutput, Holds
<1>7. OnePublisher'
  <2>1. \A q \in Process : publisher[q] # NoThread => publisher[q] \in Thread
    BY DEF CacheInv, Typed
  <2> QED BY <1>2, <1>6, <2>1 DEF CacheInv, OnePublisher
<1>8. Snapshots'
  <2> SUFFICES ASSUME NEW u \in Thread
               PROVE  /\ Holds(u)' => /\ image[u].version = <<home[u], taken[home[u]]>>
                                      /\ published[home[u]] < taken[home[u]]
                      /\ pc'[u] = "replace" => temp'[u] =
                           [state |-> "whole", content |-> image[u].content,
                            version |-> image[u].version]
    BY <1>2 DEF Snapshots, history
  <2>1. CASE u = t BY <1>4, <1>6, <2>1 DEF CacheInv, Snapshots
  <2>2. CASE u # t BY <1>4, <1>6, <2>2 DEF CacheInv, Snapshots
  <2> QED BY <2>1, <2>2
<1>9. SnapshotIsKept'
  <2>1. \A u \in Thread : pc'[u] \in {"write", "replace"} => pc[u] \in {"write", "replace"}
    BY <1>2, <1>4
  <2> QED BY <1>2, <2>1 DEF CacheInv, SnapshotIsKept, Reflects, blob
<1>10. CleanIsKnown'
  <2>1. \A q \in Process : (Settled(q)' <=> Settled(q)) /\ (Alone(q)' <=> Alone(q))
    BY <1>2, <1>6 DEF Settled, Alone, blob, history
  <2> QED BY <1>2, <2>1 DEF CacheInv, CleanIsKnown, Reflects, blob, history
<1> QED BY <1>5, <1>7, <1>8, <1>9, <1>10 DEF CacheInv

\* The snapshot that is renamed is the last one, and newer than what it replaces.
LEMMA RenamedIsNewer ==
  ASSUME CacheInv, NEW t \in Thread, pc[t] = "replace"
  PROVE  /\ temp[t] = [state |-> "whole", content |-> image[t].content,
                       version |-> <<home[t], taken[home[t]]>>]
         /\ published[home[t]] < taken[home[t]]
BY DEF CacheInv, Snapshots, Holds

\* The file that was renamed is what the blob knows; nobody is alone any more but p.
LEMMA ReplacedKeeps ==
  ASSUME CacheInv, UNCHANGED home, NEW t \in Thread, pc[t] = "replace",
         file' = temp[t],
         published' = [published EXCEPT ![home[t]] = temp[t].version[2]],
         known' = [known EXCEPT ![home[t]] = temp[t].version],
         Return(t),
         UNCHANGED <<blob, taken>>
  PROVE  CacheInv'
<1> DEFINE p == home[t]
<1>1. pc[t] \in InOutput BY DEF InOutput
<1>2. /\ publisher' \in [Process -> Thread \cup {NoThread}]
      /\ pc' \in [Thread -> {"idle", "lock", "snapshot", "write", "replace", "failed"}]
      /\ image' \in [Thread -> [content : Contents, version : Version]]
      /\ temp' \in [Thread -> File]
      /\ OnePublisher'
      /\ pc'[t] = "idle"
      /\ \A u \in Thread \ {t} :
           pc'[u] = pc[u] /\ image'[u] = image[u] /\ temp'[u] = temp[u]
  BY <1>1, ReturnLeaves
<1>3. /\ home \in [Thread -> Process] /\ p \in Process
      /\ temp \in [Thread -> File] /\ temp[t] \in File
      /\ taken \in [Process -> Nat] /\ published \in [Process -> Nat]
      /\ known \in [Process -> Version \cup {Unknown}]
      /\ \A q \in Process : published[q] <= taken[q] /\ taken[q] <= MaxOutput[q]
  BY DEF CacheInv, Typed
<1>4. /\ temp[t] = [state |-> "whole", content |-> image[t].content,
                    version |-> <<p, taken[p]>>]
      /\ published[p] < taken[p]
  BY RenamedIsNewer
<1>5. temp[t].version = <<p, taken[p]>> /\ temp[t].version[2] = taken[p]
      /\ temp[t].content = image[t].content
  BY <1>4
<1>6. temp[t].version \in Version BY <1>3 DEF File
<1>7. \A u \in Thread \ {t} : home[u] = p => pc[u] \notin InOutput BY <1>1, OthersAreOut
<1>8. /\ published' = [published EXCEPT ![p] = taken[p]]
      /\ known' = [known EXCEPT ![p] = file'.version]
      /\ file'.version \in Version /\ file'.content = image[t].content
  BY <1>5, <1>6
<1> HIDE DEF p
<1>9. /\ published'[p] = taken[p] /\ known'[p] = file'.version
      /\ \A q \in Process \ {p} : published'[q] = published[q] /\ known'[q] = known[q]
  BY <1>3, <1>8
<1>10. Typed'
  <2>1. /\ published' \in [Process -> Nat] /\ file' \in File
        /\ known' \in [Process -> Version \cup {Unknown}]
    BY <1>3, <1>8
  <2>2. \A q \in Process : published'[q] <= taken[q] /\ taken[q] <= MaxOutput[q]
    <3> SUFFICES ASSUME NEW q \in Process
                 PROVE  published'[q] <= taken[q] /\ taken[q] <= MaxOutput[q]
      OBVIOUS
    <3>1. CASE q = p BY <1>3, <1>9, <3>1
    <3>2. CASE q # p BY <1>3, <1>9, <3>2
    <3> QED BY <3>1, <3>2
  <2> QED BY <1>2, <2>1, <2>2 DEF CacheInv, Typed, blob
<1>11. ~Holds(t)' /\ \A u \in Thread \ {t} : Holds(u)' => Holds(u) /\ home[u] # p
  BY <1>2, <1>7 DEF Holds, InOutput
<1>12. Snapshots'
  <2> SUFFICES ASSUME NEW u \in Thread
               PROVE  /\ Holds(u)' => /\ image'[u].version = <<home[u], taken[home[u]]>>
                                      /\ published'[home[u]] < taken[home[u]]
                      /\ pc'[u] = "replace" => temp'[u] =
                           [state |-> "whole", content |-> image'[u].content,
                            version |-> image'[u].version]
    BY DEF Snapshots
  <2>1. CASE u = t BY <1>2, <1>11, <2>1
  <2>2. CASE u # t
    <3>1. home[u] \in Process BY <1>3
    <3>2. /\ Holds(u) => /\ image[u].version = <<home[u], taken[home[u]]>>
                         /\ published[home[u]] < taken[home[u]]
          /\ pc[u] = "replace" => temp[u] =
               [state |-> "whole", content |-> image[u].content, version |-> image[u].version]
      BY DEF CacheInv, Snapshots
    <3>3. pc'[u] = pc[u] /\ image'[u] = image[u] /\ temp'[u] = temp[u] BY <1>2, <2>2
    <3>4. Holds(u)' => Holds(u) /\ published'[home[u]] = published[home[u]]
      BY <1>9, <1>11, <2>2, <3>1
    <3> QED BY <3>2, <3>3, <3>4
  <2> QED BY <2>1, <2>2
<1>13. SnapshotIsKept'
  <2> SUFFICES ASSUME NEW u \in Thread, pc'[u] \in {"write", "replace"}, ~dirty_[home[u]]
               PROVE  Reflects(home[u], image[u].content)'
    BY DEF SnapshotIsKept, blob
  <2>1. u # t BY <1>2
  <2> QED BY <1>2, <2>1 DEF CacheInv, SnapshotIsKept, Reflects, blob
<1>14. CleanIsKnown'
  <2> SUFFICES ASSUME NEW q \in Process
               PROVE  /\ Settled(q)' /\ known'[q] = Unknown => DOMAIN entries'[q] = {}
                      /\ Alone(q)' /\ known'[q] # Unknown => known'[q] = file'.version
                      /\ Settled(q)' /\ Alone(q)' /\ known'[q] # Unknown =>
                           Reflects(q, file.content)'
    BY DEF CleanIsKnown
  <2>1. CASE q = p
    <3>1. known'[q] # Unknown BY <1>8, <1>9, <2>1, VersionIsKnown
    <3>2. ASSUME Settled(q)' PROVE Reflects(q, file.content)'
      <4>1. ~dirty_[q] BY <3>2 DEF Settled, blob
      <4>2. Reflects(q, image[t].content)
        BY <2>1, <4>1 DEF CacheInv, SnapshotIsKept, p
      <4> QED BY <1>8, <4>2 DEF Reflects, blob
    <3> QED BY <1>9, <2>1, <3>1, <3>2
  <2>2. CASE q # p
    <3>1. published'[p] # 0 BY <1>3, <1>4, <1>9
    <3>2. ~Alone(q)' BY <1>3, <2>2, <3>1 DEF Alone
    <3>3. \A u \in Thread : home[u] = q => u # t BY <2>2 DEF p
    <3>4. Settled(q)' => Settled(q) BY <1>2, <3>3 DEF Settled, Holds, blob
    <3> QED BY <1>9, <2>2, <3>2, <3>4 DEF CacheInv, CleanIsKnown, blob
  <2> QED BY <2>1, <2>2
<1> QED BY <1>2, <1>10, <1>12, <1>13, <1>14 DEF CacheInv

\* A rename that fails leaves everything, and the snapshot is still to be given up.
LEMMA ReplaceKeeps ==
  ASSUME CacheInv, UNCHANGED home, NEW t \in Thread, ReplaceFile(t)
  PROVE  CacheInv'
<1>1. pc[t] = "replace" /\ UNCHANGED <<blob, taken>> BY DEF ReplaceFile
<1>2. CASE /\ file' = temp[t]
           /\ published' = [published EXCEPT ![home[t]] = temp[t].version[2]]
           /\ known' = [known EXCEPT ![home[t]] = temp[t].version]
           /\ Return(t)
  BY <1>1, <1>2, ReplacedKeeps
<1>3. CASE /\ pc' = [pc EXCEPT ![t] = "failed"]
           /\ UNCHANGED <<file, published, known, publisher, image, temp>>
  <2>1. pc \in [Thread -> {"idle", "lock", "snapshot", "write", "replace", "failed"}]
    BY DEF CacheInv, Typed
  <2>2. pc'[t] = "failed" /\ \A u \in Thread \ {t} : pc'[u] = pc[u] BY <1>3, <2>1
  <2>3. Typed' BY <1>1, <1>3, <2>1 DEF CacheInv, Typed, blob
  <2>4. \A u \in Thread : /\ pc'[u] \in InOutput <=> pc[u] \in InOutput
                          /\ Holds(u)' <=> Holds(u)
                          /\ pc'[u] = "replace" => pc[u] = "replace"
                          /\ pc'[u] = "write" => pc[u] = "write"
    BY <1>1, <2>2 DEF InOutput, Holds
  <2>5. OnePublisher'
    <3>1. \A q \in Process : publisher[q] # NoThread => publisher[q] \in Thread
      BY DEF CacheInv, Typed
    <3> QED BY <1>3, <2>4, <3>1 DEF CacheInv, OnePublisher
  <2>6. Snapshots' BY <1>1, <1>3, <2>4 DEF CacheInv, Snapshots
  <2>7. SnapshotIsKept'
    BY <1>1, <1>3, <2>4 DEF CacheInv, SnapshotIsKept, Reflects, blob
  <2>8. CleanIsKnown'
    <3>1. \A q \in Process : (Settled(q)' <=> Settled(q)) /\ (Alone(q)' <=> Alone(q))
      BY <1>1, <1>3, <2>4 DEF Settled, Alone, blob
    <3> QED BY <1>1, <1>3, <3>1 DEF CacheInv, CleanIsKnown, Reflects, blob
  <2> QED BY <2>3, <2>5, <2>6, <2>7, <2>8 DEF CacheInv
<1> QED BY <1>2, <1>3 DEF ReplaceFile

\* Who gives a snapshot up makes the blob dirty again.
LEMMA FailureKeeps ==
  ASSUME CacheInv, UNCHANGED home, NEW t \in Thread, PublishFailed(t)
  PROVE  CacheInv'
<1> DEFINE p == home[t]
<1>1. /\ pc[t] = "failed" /\ pc[t] \in InOutput /\ Return(t)
      /\ dirty_' = [dirty_ EXCEPT ![p] = TRUE]
      /\ UNCHANGED <<entries, current_size, loaded_, file, history>>
  BY DEF PublishFailed, InOutput, MarkDirty
<1>2. /\ publisher' \in [Process -> Thread \cup {NoThread}]
      /\ pc' \in [Thread -> {"idle", "lock", "snapshot", "write", "replace", "failed"}]
      /\ image' \in [Thread -> [content : Contents, version : Version]]
      /\ temp' \in [Thread -> File]
      /\ OnePublisher'
      /\ pc'[t] = "idle"
      /\ \A u \in Thread \ {t} :
           pc'[u] = pc[u] /\ image'[u] = image[u] /\ temp'[u] = temp[u]
  BY <1>1, ReturnLeaves
<1>3. home \in [Thread -> Process] /\ p \in Process /\ dirty_ \in [Process -> BOOLEAN]
  BY DEF CacheInv, Typed
<1> HIDE DEF p
<1>4. /\ dirty_'[p] /\ dirty_' \in [Process -> BOOLEAN]
      /\ \A q \in Process \ {p} : dirty_'[q] = dirty_[q]
  BY <1>1, <1>3
<1>5. Typed' BY <1>1, <1>2, <1>4 DEF CacheInv, Typed, history
<1>6. \A u \in Thread : (Holds(u)' => Holds(u)) /\ (pc'[u] \in {"write", "replace"} => u # t)
  BY <1>1, <1>2 DEF Holds
<1>7. ~Holds(t)' BY <1>2 DEF Holds
<1>8. Snapshots'
  <2> SUFFICES ASSUME NEW u \in Thread
               PROVE  /\ Holds(u)' => /\ image'[u].version = <<home[u], taken[home[u]]>>
                                      /\ published[home[u]] < taken[home[u]]
                      /\ pc'[u] = "replace" => temp'[u] =
                           [state |-> "whole", content |-> image'[u].content,
                            version |-> image'[u].version]
    BY <1>1 DEF Snapshots, history
  <2>1. CASE u = t BY <1>2, <1>7, <2>1
  <2>2. CASE u # t BY <1>2, <1>6, <2>2 DEF CacheInv, Snapshots
  <2> QED BY <2>1, <2>2
<1>9. SnapshotIsKept'
  <2> SUFFICES ASSUME NEW u \in Thread, pc'[u] \in {"write", "replace"}, ~dirty_'[home[u]]
               PROVE  Reflects(home[u], image[u].content)'
    BY DEF SnapshotIsKept
  <2>1. u # t /\ home[u] \in Process /\ home[u] # p BY <1>3, <1>4, <1>6
  <2>2. Reflects(home[u], image[u].content)
    BY <1>2, <1>4, <2>1 DEF CacheInv, SnapshotIsKept
  <2> QED BY <1>1, <1>2, <2>1, <2>2 DEF Reflects
<1>10. CleanIsKnown'
  <2>1. ASSUME NEW q \in Process, Settled(q)' PROVE Settled(q)
    <3>1. q # p BY <1>4, <2>1 DEF Settled
    <3>2. \A u \in Thread : home[u] = q => u # t BY <3>1 DEF p
    <3> QED BY <1>2, <1>4, <2>1, <3>1, <3>2 DEF Settled, Holds
  <2>2. \A q \in Process : Alone(q)' <=> Alone(q) BY <1>1 DEF Alone, history
  <2> QED BY <1>1, <2>1, <2>2 DEF CacheInv, CleanIsKnown, Reflects, history
<1> QED BY <1>2, <1>5, <1>8, <1>9, <1>10 DEF CacheInv

\* A process that ends loses its blob and its temporary files, and the file stays.
LEMMA RestartKeeps ==
  ASSUME CacheInv, UNCHANGED home, NEW p \in Process, Restart(p)
  PROVE  CacheInv'
<1> DEFINE mine == {t \in Thread : home[t] = p}
<1>1. /\ home \in [Thread -> Process]
      /\ publisher \in [Process -> Thread \cup {NoThread}]
      /\ pc \in [Thread -> {"idle", "lock", "snapshot", "write", "replace", "failed"}]
      /\ image \in [Thread -> [content : Contents, version : Version]]
      /\ temp \in [Thread -> File]
      /\ entries \in [Process -> Entries] /\ dirty_ \in [Process -> BOOLEAN]
      /\ loaded_ \in [Process -> {"never", "failed", "done"}]
      /\ known \in [Process -> Version \cup {Unknown}]
  BY DEF CacheInv, Typed
<1>2. /\ entries' = [entries EXCEPT ![p] = Nothing]
      /\ dirty_' = [dirty_ EXCEPT ![p] = FALSE]
      /\ loaded_' = [loaded_ EXCEPT ![p] = "never"]
      /\ publisher' = [publisher EXCEPT ![p] = NoThread]
      /\ pc' = [t \in Thread |-> IF t \in mine THEN "idle" ELSE pc[t]]
      /\ image' = [t \in Thread |-> IF t \in mine THEN NoImage ELSE image[t]]
      /\ temp' = [t \in Thread |-> IF t \in mine THEN Missing ELSE temp[t]]
      /\ known' = [known EXCEPT ![p] = Unknown]
      /\ UNCHANGED <<file, taken, published>>
  BY DEF Restart
<1>3. \A t \in Thread : home[t] = p => pc'[t] = "idle" BY <1>2
<1>4. \A t \in Thread : home[t] # p =>
        pc'[t] = pc[t] /\ image'[t] = image[t] /\ temp'[t] = temp[t]
  BY <1>2
<1>5. /\ publisher'[p] = NoThread /\ entries'[p] = Nothing /\ known'[p] = Unknown
      /\ \A q \in Process \ {p} :
           /\ publisher'[q] = publisher[q] /\ entries'[q] = entries[q]
           /\ known'[q] = known[q] /\ dirty_'[q] = dirty_[q]
  BY <1>1, <1>2
<1>6. Typed'
  <2>1. /\ entries' \in [Process -> Entries] /\ dirty_' \in [Process -> BOOLEAN]
        /\ loaded_' \in [Process -> {"never", "failed", "done"}]
        /\ known' \in [Process -> Version \cup {Unknown}]
        /\ publisher' \in [Process -> Thread \cup {NoThread}]
    BY <1>1, <1>2, NothingHasNothing
  <2>2. pc' \in [Thread -> {"idle", "lock", "snapshot", "write", "replace", "failed"}]
    BY <1>1, <1>2
  <2>3. /\ image' \in [Thread -> [content : Contents, version : Version]]
        /\ temp' \in [Thread -> File]
    BY <1>1, <1>2, NothingHasNothing
  <2> QED BY <1>2, <2>1, <2>2, <2>3 DEF CacheInv, Typed
<1> HIDE DEF mine
<1>7. OnePublisher'
  <2>1. ASSUME NEW t \in Thread, pc'[t] \in InOutput PROVE publisher'[home[t]] = t
    <3>1. home[t] # p BY <1>3, <2>1 DEF InOutput
    <3> QED BY <1>1, <1>4, <1>5, <2>1, <3>1 DEF CacheInv, OnePublisher
  <2>2. ASSUME NEW q \in Process, publisher'[q] # NoThread
        PROVE  home[publisher'[q]] = q /\ pc'[publisher'[q]] \in InOutput
    <3>1. q # p /\ publisher'[q] = publisher[q] /\ publisher[q] \in Thread
      BY <1>1, <1>5, <2>2
    <3>2. home[publisher[q]] = q /\ pc[publisher[q]] \in InOutput
      BY <2>2, <3>1 DEF CacheInv, OnePublisher
    <3> QED BY <1>4, <3>1, <3>2
  <2> QED BY <2>1, <2>2 DEF OnePublisher
<1>8. \A t \in Thread : Holds(t)' => Holds(t) /\ home[t] # p
  BY <1>3, <1>4 DEF Holds
<1>9. Snapshots'
  <2> SUFFICES ASSUME NEW t \in Thread
               PROVE  /\ Holds(t)' => /\ image'[t].version = <<home[t], taken[home[t]]>>
                                      /\ published[home[t]] < taken[home[t]]
                      /\ pc'[t] = "replace" => temp'[t] =
                           [state |-> "whole", content |-> image'[t].content,
                            version |-> image'[t].version]
    BY <1>2 DEF Snapshots
  <2>1. CASE home[t] = p BY <1>3, <1>8, <2>1
  <2>2. CASE home[t] # p BY <1>4, <1>8, <2>2 DEF CacheInv, Snapshots
  <2> QED BY <2>1, <2>2
<1>10. SnapshotIsKept'
  <2> SUFFICES ASSUME NEW t \in Thread, pc'[t] \in {"write", "replace"}, ~dirty_'[home[t]]
               PROVE  Reflects(home[t], image[t].content)'
    BY DEF SnapshotIsKept
  <2>1. home[t] \in Process \ {p} BY <1>1, <1>3
  <2>2. Reflects(home[t], image[t].content)
    BY <1>4, <1>5, <2>1 DEF CacheInv, SnapshotIsKept
  <2> QED BY <1>4, <1>5, <2>1, <2>2 DEF Reflects
<1>11. CleanIsKnown'
  <2> SUFFICES ASSUME NEW q \in Process
               PROVE  /\ Settled(q)' /\ known'[q] = Unknown => DOMAIN entries'[q] = {}
                      /\ Alone(q)' /\ known'[q] # Unknown => known'[q] = file.version
                      /\ Settled(q)' /\ Alone(q)' /\ known'[q] # Unknown =>
                           Reflects(q, file.content)'
    BY <1>2 DEF CleanIsKnown
  <2>1. CASE q = p BY <1>5, <2>1, NothingHasNothing
  <2>2. CASE q # p
    <3>1. Settled(q)' => Settled(q) BY <1>4, <1>5, <2>2 DEF Settled, Holds
    <3>2. Alone(q)' <=> Alone(q) BY <1>2 DEF Alone
    <3> QED BY <1>2, <1>5, <2>2, <3>1, <3>2 DEF CacheInv, CleanIsKnown, Reflects
  <2> QED BY <2>1, <2>2
<1> QED BY <1>6, <1>7, <1>9, <1>10, <1>11 DEF CacheInv

-----------------------------------------------------------------------------
(* The invariant, and what follows from it.                                *)

\* A blob that was just opened is clean, empty, and was never used.
LEMMA CacheInitial == Init => CacheInv
<1> SUFFICES ASSUME Init PROVE CacheInv OBVIOUS
<1>1. \A t \in Thread : pc[t] = "idle" BY DEF Init
<1>2. Typed
  <2>1. home \in [Thread -> Process] /\ file \in File
    BY CodeCacheAssumption, FirstFileAssumption DEF Init
  <2>2. entries \in [Process -> Entries] /\ dirty_ \in [Process -> BOOLEAN]
    BY NothingHasNothing DEF Init
  <2>3. /\ loaded_ \in [Process -> {"never", "failed", "done"}]
        /\ publisher \in [Process -> Thread \cup {NoThread}]
        /\ pc \in [Thread -> {"idle", "lock", "snapshot", "write", "replace", "failed"}]
        /\ known \in [Process -> Version \cup {Unknown}]
    BY DEF Init
  <2>4. /\ image \in [Thread -> [content : Contents, version : Version]]
        /\ temp \in [Thread -> File]
    BY NothingHasNothing DEF Init
  <2>5. /\ taken \in [Process -> Nat] /\ published \in [Process -> Nat]
        /\ \A p \in Process : published[p] <= taken[p] /\ taken[p] <= MaxOutput[p]
    BY CodeCacheAssumption DEF Init
  <2> QED BY <2>1, <2>2, <2>3, <2>4, <2>5 DEF Typed
<1>3. OnePublisher BY <1>1 DEF Init, OnePublisher, InOutput
<1>4. Snapshots /\ SnapshotIsKept BY <1>1 DEF Snapshots, SnapshotIsKept, Holds
<1>5. CleanIsKnown
  BY NothingHasNothing DEF Init, CleanIsKnown
<1> QED BY <1>2, <1>3, <1>4, <1>5 DEF CacheInv

\* Every step keeps the invariant.
LEMMA CacheStep == CacheInv /\ [Next]_vars => CacheInv'
<1> SUFFICES ASSUME CacheInv, [Next]_vars PROVE CacheInv' OBVIOUS
<1>1. CASE Next
  <2>1. UNCHANGED home BY <1>1 DEF Next
  <2>2. ASSUME NEW t \in Thread, NEW n \in Name, find(t, n) PROVE CacheInv'
    BY <2>1, <2>2, FindKeeps
  <2>3. ASSUME NEW t \in Thread, NEW n \in Name, remove(t, n) PROVE CacheInv'
    BY <2>1, <2>3, RemoveKeeps
  <2>4. ASSUME NEW t \in Thread, NEW n \in Name, NEW d \in Data, insert(t, n, d)
        PROVE  CacheInv'
    BY <2>1, <2>4, InsertKeeps
  <2>5. ASSUME NEW t \in Thread, input(t) PROVE CacheInv' BY <2>1, <2>5, InputKeeps
  <2>6. ASSUME NEW t \in Thread, CallOutput(t) \/ LockPublish(t) PROVE CacheInv'
    BY <2>1, <2>6, LockKeeps
  <2>7. ASSUME NEW t \in Thread, Snapshot(t) PROVE CacheInv' BY <2>1, <2>7, SnapshotKeeps
  <2>8. ASSUME NEW t \in Thread, WriteTemp(t) PROVE CacheInv' BY <2>1, <2>8, WriteKeeps
  <2>9. ASSUME NEW t \in Thread, ReplaceFile(t) PROVE CacheInv'
    BY <2>1, <2>9, ReplaceKeeps
  <2>10. ASSUME NEW t \in Thread, PublishFailed(t) PROVE CacheInv'
    BY <2>1, <2>10, FailureKeeps
  <2>11. ASSUME NEW p \in Process, Restart(p) PROVE CacheInv'
    BY <2>1, <2>11, RestartKeeps
  <2> QED BY <1>1, <2>2, <2>3, <2>4, <2>5, <2>6, <2>7, <2>8, <2>9, <2>10, <2>11
        DEF Next, Step
<1>2. CASE UNCHANGED vars
  <2>1. Typed' BY <1>2 DEF CacheInv, Typed, vars, blob, history
  <2>2. OnePublisher' BY <1>2 DEF CacheInv, OnePublisher, vars
  <2>3. \A t \in Thread : Holds(t)' <=> Holds(t) BY <1>2 DEF Holds, vars
  <2>4. Snapshots' BY <1>2, <2>3 DEF CacheInv, Snapshots, vars, history
  <2>5. SnapshotIsKept' BY <1>2 DEF CacheInv, SnapshotIsKept, Reflects, vars, blob
  <2>6. \A p \in Process : (Settled(p)' <=> Settled(p)) /\ (Alone(p)' <=> Alone(p))
    BY <1>2, <2>3 DEF Settled, Alone, vars, blob, history
  <2>7. CleanIsKnown'
    BY <1>2, <2>6 DEF CacheInv, CleanIsKnown, Reflects, vars, blob, history
  <2> QED BY <2>1, <2>2, <2>4, <2>5, <2>7 DEF CacheInv
<1> QED BY <1>1, <1>2

\* The invariant holds in every state.
LEMMA CacheAlways == Spec => []CacheInv
BY CacheInitial, CacheStep, PTL DEF Spec

\* No change of a blob is lost by being made while output() writes, or because a write or
\* a rename fails: a clean blob agrees with the file it last read or wrote.
THEOREM NoChangeIsLost == Spec => []CleanMeansPublished
<1>1. CacheInv => CleanMeansPublished
  <2> SUFFICES ASSUME CacheInv, NEW p \in Process,
                      ~dirty_[p], publisher[p] = NoThread, known[p] = file.version,
                      \A q \in Process \ {p} : published[q] = 0
               PROVE  Reflects(p, file.content)
    BY DEF CleanMeansPublished, Reflects
  <2>1. \A t \in Thread : home[t] = p => ~Holds(t)
    BY CodeCacheAssumption DEF CacheInv, OnePublisher, Holds, InOutput
  <2>2. known[p] # Unknown
    <3>1. file.version \in Version BY DEF CacheInv, Typed, File
    <3> QED BY <3>1, VersionIsKnown
  <2> QED BY <2>1, <2>2 DEF CacheInv, CleanIsKnown, Settled, Alone
<1> QED BY <1>1, CacheAlways, PTL

\* Only ReplaceFile changes the file and what was published.
LEMMA OnlyReplacePublishes ==
  ASSUME Next
  PROVE  UNCHANGED <<file, published>> \/ \E t \in Thread : ReplaceFile(t)
<1>1. ASSUME NEW t \in Thread, NEW n \in Name,
             find(t, n) \/ remove(t, n) \/ \E d \in Data : insert(t, n, d)
      PROVE  UNCHANGED <<file, published>>
  BY <1>1 DEF find, remove, insert, history
<1>2. ASSUME NEW t \in Thread, input(t) \/ CallOutput(t) \/ LockPublish(t) \/ Snapshot(t)
      PROVE  UNCHANGED <<file, published>>
  BY <1>2 DEF input, CallOutput, LockPublish, Snapshot, history
<1>3. ASSUME NEW t \in Thread, WriteTemp(t) \/ PublishFailed(t)
      PROVE  UNCHANGED <<file, published>>
  BY <1>3 DEF WriteTemp, PublishFailed, history
<1>4. ASSUME NEW p \in Process, Restart(p) PROVE UNCHANGED <<file, published>>
  BY <1>4 DEF Restart
<1> QED BY <1>1, <1>2, <1>3, <1>4 DEF Next, Step

\* What a process publishes is newer than all it published before, whichever of its
\* threads publishes and however often it was restarted.
THEOREM NeverGoesBack == Spec => PublishedInOrder
<1>1. CacheInv /\ [Next]_vars =>
        [\A p \in Process : published'[p] # published[p] => published'[p] > published[p]]_vars
  <2> SUFFICES ASSUME CacheInv, Next, NEW p \in Process, published'[p] # published[p]
               PROVE  published'[p] > published[p]
    OBVIOUS
  <2>1. PICK t \in Thread : ReplaceFile(t) BY OnlyReplacePublishes
  <2>2. /\ home[t] \in Process /\ taken \in [Process -> Nat]
        /\ published \in [Process -> Nat]
    BY DEF CacheInv, Typed
  <2>3. /\ pc[t] = "replace"
        /\ published' = [published EXCEPT ![home[t]] = temp[t].version[2]]
    BY <2>1 DEF ReplaceFile
  <2>4. temp[t].version[2] = taken[home[t]] /\ published[home[t]] < taken[home[t]]
    <3>1. /\ temp[t] = [state |-> "whole", content |-> image[t].content,
                        version |-> <<home[t], taken[home[t]]>>]
          /\ published[home[t]] < taken[home[t]]
      BY <2>3, RenamedIsNewer
    <3> QED BY <3>1
  <2>5. p = home[t] /\ published'[p] = taken[p] BY <2>2, <2>3, <2>4
  <2> QED BY <2>2, <2>4, <2>5
<1> QED BY <1>1, CacheAlways, PTL DEF Spec, PublishedInOrder

\* The file that replaces another is whole, whatever failed and wherever a process ended.
THEOREM ReplacedByWhole == Spec => NeverTorn
<1>1. CacheInv /\ [Next]_vars => [file'.state = "broken" => file.state = "broken"]_vars
  <2> SUFFICES ASSUME CacheInv, Next, file' # file
               PROVE  file'.state # "broken"
    OBVIOUS
  <2>1. PICK t \in Thread : ReplaceFile(t) BY OnlyReplacePublishes
  <2>2. pc[t] = "replace" /\ file' = temp[t] BY <2>1 DEF ReplaceFile
  <2>3. temp[t] = [state |-> "whole", content |-> image[t].content,
                   version |-> <<home[t], taken[home[t]]>>]
    BY <2>2, RenamedIsNewer
  <2> QED BY <2>2, <2>3
<1> QED BY <1>1, CacheAlways, PTL DEF Spec, NeverTorn


-----------------------------------------------------------------------------
(* The sizes.                                                              *)

Sized == home \in Homes /\ current_size \in [Process -> Nat] /\ SizeExact


\* Entries are finitely many bytes.
LEMMA BytesAreFinite ==
  ASSUME NEW e \in Entries, NEW S \in SUBSET DOMAIN e
  PROVE  IsFiniteSet(Bytes(e, S)) /\ SizeOf(e, S) \in Nat
<1> DEFINE B(n) == {n} \X (1..Size[e[n].data])
           f == [n \in S |-> B(n)]
           T == {B(n) : n \in S}
<1>1. DOMAIN e \in SUBSET Name /\ e \in [DOMAIN e -> Entry] BY EntriesHave
<1>2. IsFiniteSet(S) BY <1>1, CodeCacheAssumption, FS_Subset
<1>3. f \in Surjection(S, T) BY DEF Surjection
<1>4. IsFiniteSet(T)
  <2> HIDE DEF f, T
  <2> QED BY <1>2, <1>3, FS_Surjection
<1>5. ASSUME NEW n \in S PROVE IsFiniteSet(B(n))
  <2>1. Size[e[n].data] \in Nat BY <1>1, CodeCacheAssumption DEF Entry
  <2>2. IsFiniteSet(1..Size[e[n].data]) BY <2>1, FS_Interval
  <2>3. IsFiniteSet({n}) BY FS_Singleton
  <2> QED BY <2>2, <2>3, FS_Product
<1>6. \A U \in T : IsFiniteSet(U) BY <1>5
<1>7. Bytes(e, S) = UNION T BY DEF Bytes
<1>8. IsFiniteSet(UNION T)
  <2> HIDE DEF T
  <2> QED BY <1>4, <1>6, FS_UNION
<1> HIDE DEF T
<1>9. IsFiniteSet(Bytes(e, S)) BY <1>7, <1>8
<1> QED BY <1>9, FS_CardinalityType DEF SizeOf

\* Two sets of entries take up what each of them does.
LEMMA SizesAdd ==
  ASSUME NEW e \in Entries, NEW S \in SUBSET DOMAIN e, NEW T \in SUBSET DOMAIN e,
         S \cap T = {}
  PROVE  SizeOf(e, S \cup T) = SizeOf(e, S) + SizeOf(e, T)
<1>1. IsFiniteSet(Bytes(e, S)) /\ IsFiniteSet(Bytes(e, T)) BY BytesAreFinite
<1>2. Bytes(e, S \cup T) = Bytes(e, S) \cup Bytes(e, T) BY DEF Bytes
<1>3. Bytes(e, S) \cap Bytes(e, T) = {}
  <2>1. \A b \in Bytes(e, S) : b[1] \in S BY DEF Bytes
  <2>2. \A b \in Bytes(e, T) : b[1] \in T BY DEF Bytes
  <2> QED BY <2>1, <2>2
<1>4. SizeOf(e, S) \in Nat /\ SizeOf(e, T) \in Nat BY BytesAreFinite
<1>5. Cardinality(Bytes(e, S) \cup Bytes(e, T))
        = SizeOf(e, S) + SizeOf(e, T) - Cardinality({})
  BY <1>1, <1>3, FS_Union DEF SizeOf
<1>6. SizeOf(e, S \cup T) = SizeOf(e, S) + SizeOf(e, T) - Cardinality({})
  BY <1>2, <1>5 DEF SizeOf
<1>7. Cardinality({}) = 0 BY FS_EmptySet
<1> QED BY <1>4, <1>6, <1>7

\* One entry takes up its length.
LEMMA SizeOfOne ==
  ASSUME NEW e \in Entries, NEW n \in DOMAIN e
  PROVE  SizeOf(e, {n}) = Size[e[n].data]
<1> DEFINE k == Size[e[n].data]
<1>1. k \in Nat BY EntriesHave, CodeCacheAssumption DEF Entry
<1>2. Bytes(e, {n}) = {n} \X (1..k) BY DEF Bytes
<1> HIDE DEF k
<1>3. IsFiniteSet(1..k) /\ Cardinality(1..k) = k BY <1>1, FS_Interval
<1>4. IsFiniteSet({n}) /\ Cardinality({n}) = 1 BY FS_Singleton
<1>5. Cardinality({n} \X (1..k)) = 1 * k
  <2>1. Cardinality({n} \X (1..k)) = Cardinality({n}) * Cardinality(1..k)
    BY <1>3, <1>4, FS_Product
  <2> QED BY <1>3, <1>4, <2>1
<1>6. 1 * k = k BY <1>1
<1> QED BY <1>2, <1>5, <1>6 DEF SizeOf, k

\* What takes up the same bytes is of the same size.
LEMMA SameSize ==
  ASSUME NEW e, NEW f, NEW S, \A n \in S : e[n].data = f[n].data
  PROVE  SizeOf(e, S) = SizeOf(f, S)
<1>1. Bytes(e, S) = Bytes(f, S) BY DEF Bytes
<1> QED BY <1>1 DEF SizeOf

\* No entry, no size.
LEMMA EmptySize == ASSUME NEW e PROVE SizeOf(e, {}) = 0
<1>1. Bytes(e, {}) = {} BY DEF Bytes
<1> QED BY <1>1, FS_EmptySet DEF SizeOf

\* What is erased is subtracted.
LEMMA SizeWithoutSome ==
  ASSUME NEW e \in Entries, NEW V
  PROVE  /\ SizeOf(Without(e, V), DOMAIN Without(e, V))
              = SizeOf(e, DOMAIN e) - SizeOf(e, V \cap DOMAIN e)
         /\ SizeOf(e, V \cap DOMAIN e) <= SizeOf(e, DOMAIN e)
         /\ SizeOf(e, DOMAIN e) \in Nat /\ SizeOf(e, V \cap DOMAIN e) \in Nat
<1> DEFINE gone == V \cap DOMAIN e
           left == DOMAIN e \ V
<1>1. /\ gone \in SUBSET DOMAIN e /\ left \in SUBSET DOMAIN e
      /\ gone \cap left = {} /\ gone \cup left = DOMAIN e
  OBVIOUS
<1>2. DOMAIN Without(e, V) = left /\ \A n \in left : Without(e, V)[n].data = e[n].data
  BY DEF Without
<1> HIDE DEF gone, left
<1>3. SizeOf(e, DOMAIN e) = SizeOf(e, gone) + SizeOf(e, left) BY <1>1, SizesAdd
<1>4. SizeOf(e, gone) \in Nat /\ SizeOf(e, left) \in Nat BY <1>1, BytesAreFinite
<1>5. SizeOf(Without(e, V), left) = SizeOf(e, left) BY <1>2, SameSize
<1> QED BY <1>2, <1>3, <1>4, <1>5 DEF gone

\* What is inserted under a new name is added.
LEMMA SizeWithOne ==
  ASSUME NEW e \in Entries, NEW n \in Name \ DOMAIN e, NEW d \in Data
  PROVE  SizeOf(With(e, n, d), DOMAIN With(e, n, d)) = SizeOf(e, DOMAIN e) + Size[d]
<1> DEFINE f == With(e, n, d)
<1>1. f \in Entries BY WithIsEntries
<1>2. /\ DOMAIN f = DOMAIN e \cup {n} /\ f[n].data = d
      /\ \A m \in DOMAIN e : f[m].data = e[m].data
  BY DEF With
<1> HIDE DEF f
<1>3. SizeOf(f, DOMAIN e \cup {n}) = SizeOf(f, DOMAIN e) + SizeOf(f, {n})
  BY <1>1, <1>2, SizesAdd
<1>4. SizeOf(f, {n}) = Size[d] BY <1>1, <1>2, SizeOfOne
<1>5. SizeOf(f, DOMAIN e) = SizeOf(e, DOMAIN e) BY <1>2, SameSize
<1> QED BY <1>2, <1>3, <1>4, <1>5 DEF f


\* One blob changes, and its size is what its entries take up.
LEMMA SizedAgain ==
  ASSUME CacheInv, Sized, UNCHANGED home, NEW p \in Process, NEW e \in Entries,
         NEW size \in Nat, size = SizeOf(e, DOMAIN e),
         entries' = [entries EXCEPT ![p] = e],
         current_size' = [current_size EXCEPT ![p] = size]
  PROVE  Sized'
<1>1. entries \in [Process -> Entries] /\ current_size \in [Process -> Nat]
  BY DEF CacheInv, Typed, Sized
<1>2. current_size' \in [Process -> Nat] BY <1>1
<1>3. ASSUME NEW q \in Process
      PROVE  current_size'[q] = SizeOf(entries'[q], DOMAIN entries'[q])
  <2>1. CASE q = p BY <1>1, <2>1
  <2>2. CASE q # p
    <3>1. entries'[q] = entries[q] /\ current_size'[q] = current_size[q] BY <1>1, <2>2
    <3>2. current_size[q] = SizeOf(entries[q], DOMAIN entries[q]) BY DEF Sized, SizeExact
    <3> QED BY <3>1, <3>2
  <2> QED BY <2>1, <2>2
<1>4. SizeExact' BY <1>3 DEF SizeExact, SizeOf, Bytes
<1> QED BY <1>2, <1>4 DEF Sized

\* Nothing that the size depends on changes.
LEMMA SizedStays ==
  ASSUME Sized, UNCHANGED <<home, entries, current_size>>
  PROVE  Sized'
BY DEF Sized, SizeExact, SizeOf, Bytes

\* The size without the entry of a name is that of the entries without it.
LEMMA SizeWithoutIs ==
  ASSUME CacheInv, Sized, NEW p \in Process, NEW n
  PROVE  /\ Without(entries[p], {n}) \in Entries
         /\ SizeWithout(p, n) = SizeOf(Without(entries[p], {n}), DOMAIN Without(entries[p], {n}))
         /\ SizeWithout(p, n) \in Nat /\ SizeWithout(p, n) <= current_size[p]
<1>1. entries[p] \in Entries BY DEF CacheInv, Typed
<1>2. current_size[p] = SizeOf(entries[p], DOMAIN entries[p]) BY DEF Sized, SizeExact
<1>3. Without(entries[p], {n}) \in Entries BY <1>1, WithoutIsEntries
<1>4. /\ SizeOf(Without(entries[p], {n}), DOMAIN Without(entries[p], {n}))
           = SizeOf(entries[p], DOMAIN entries[p]) - SizeOf(entries[p], {n} \cap DOMAIN entries[p])
      /\ SizeOf(entries[p], {n} \cap DOMAIN entries[p]) <= SizeOf(entries[p], DOMAIN entries[p])
      /\ SizeOf(entries[p], DOMAIN entries[p]) \in Nat
      /\ SizeOf(entries[p], {n} \cap DOMAIN entries[p]) \in Nat
  BY <1>1, SizeWithoutSome
<1> QED BY <1>2, <1>3, <1>4 DEF SizeWithout

\* A blob grows, if it does without being loaded, within its capacity.
GrowsWithin ==
  \A p \in Process : current_size'[p] > current_size[p] /\ loaded_'[p] = loaded_[p]
    => current_size'[p] <= Capacity[p]

\* Only one blob is given another size.
LEMMA OneGrows ==
  ASSUME Sized, NEW p \in Process, NEW size \in Nat,
         current_size' = [current_size EXCEPT ![p] = size],
         size > current_size[p] => loaded_'[p] # loaded_[p] \/ size <= Capacity[p]
  PROVE  GrowsWithin
<1>1. current_size \in [Process -> Nat] BY DEF Sized
<1> QED BY <1>1 DEF GrowsWithin

\* An entry that is removed is subtracted.
LEMMA RemoveSized ==
  ASSUME CacheInv, Sized, UNCHANGED home, NEW t \in Thread, NEW n \in Name, remove(t, n)
  PROVE  Sized' /\ GrowsWithin
<1> DEFINE p == home[t]
           e == Without(entries[p], {n})
           size == SizeWithout(p, n)
<1>1. p \in Process /\ current_size[p] \in Nat BY DEF CacheInv, Typed, Sized
<1>2. e \in Entries /\ size = SizeOf(e, DOMAIN e) /\ size \in Nat /\ size <= current_size[p]
  BY <1>1, SizeWithoutIs
<1>3. /\ entries' = [entries EXCEPT ![p] = e]
      /\ current_size' = [current_size EXCEPT ![p] = size]
  BY DEF remove
<1> HIDE DEF p, e, size
<1>4. ~(size > current_size[p]) BY <1>1, <1>2
<1> QED BY <1>1, <1>2, <1>3, <1>4, SizedAgain, OneGrows

\* An entry that is found keeps its size.
LEMMA FindSized ==
  ASSUME CacheInv, Sized, UNCHANGED home, NEW t \in Thread, NEW n \in Name, find(t, n)
  PROVE  Sized' /\ GrowsWithin
<1> DEFINE p == home[t]
           e == [entries[p] EXCEPT ![n].used = entries[p][n].used + 1]
           size == current_size[p]
<1>1. p \in Process /\ entries[p] \in Entries /\ size \in Nat
      /\ entries \in [Process -> Entries] /\ current_size \in [Process -> Nat]
  BY DEF CacheInv, Typed, Sized
<1>2. DOMAIN entries[p] \in SUBSET Name /\ entries[p] \in [DOMAIN entries[p] -> Entry]
  BY <1>1, EntriesHave
<1>3. n \in DOMAIN entries[p] /\ entries[p][n].used + 1 \in 0..MaxUsed
  BY <1>2, CodeCacheAssumption DEF find, Entry
<1>4. e \in [DOMAIN entries[p] -> Entry] BY <1>2, <1>3 DEF Entry
<1>5. e \in Entries BY <1>2, <1>4, EntriesAre
<1>6. DOMAIN e = DOMAIN entries[p] /\ \A m \in DOMAIN e : e[m].data = entries[p][m].data
  BY <1>2, <1>3 DEF Entry
<1>7. entries' = [entries EXCEPT ![p] = e] BY <1>1 DEF find
<1>8. current_size' = [current_size EXCEPT ![p] = size] BY <1>1 DEF find
<1>9. size = SizeOf(entries[p], DOMAIN entries[p]) BY <1>1 DEF Sized, SizeExact
<1> HIDE DEF p, e, size
<1>10. size = SizeOf(e, DOMAIN e) BY <1>6, <1>9, SameSize
<1>11. ~(size > current_size[p]) BY <1>1 DEF size
<1> QED BY <1>1, <1>5, <1>7, <1>8, <1>10, <1>11, SizedAgain, OneGrows


\* The victims make room for what is inserted, as far as there are entries.
LEMMA InsertSized ==
  ASSUME CacheInv, Sized, UNCHANGED home, NEW t \in Thread, NEW n \in Name, NEW d \in Data,
         insert(t, n, d)
  PROVE  Sized' /\ GrowsWithin
<1> DEFINE p == home[t]
           erased == Without(entries[p], {n})
           size == SizeWithout(p, n)
<1>1. /\ p \in Process /\ current_size[p] \in Nat /\ entries[p] \in Entries
      /\ Capacity[p] \in Nat /\ Size[d] \in Nat
  BY CodeCacheAssumption DEF CacheInv, Typed, Sized
<1>2. /\ erased \in Entries /\ size = SizeOf(erased, DOMAIN erased) /\ size \in Nat
      /\ size <= current_size[p] /\ n \notin DOMAIN erased
  <2>1. n \notin DOMAIN erased BY DEF Without
  <2> HIDE DEF p
  <2> QED BY <1>1, <2>1, SizeWithoutIs
<1>3. CASE Size[d] > Capacity[p]
  <2>1. /\ entries' = [entries EXCEPT ![p] = erased]
        /\ current_size' = [current_size EXCEPT ![p] = size]
    BY <1>3 DEF insert
  <2> HIDE DEF p, erased, size
  <2>2. ~(size > current_size[p]) BY <1>1, <1>2
  <2> QED BY <1>1, <1>2, <2>1, <2>2, SizedAgain, OneGrows
<1>4. CASE ~(Size[d] > Capacity[p])
  <2>1. PICK V \in Victims(erased, size, Size[d], Capacity[p]) :
          /\ entries' = [entries EXCEPT ![p] = With(Without(erased, V), n, d)]
          /\ current_size' = [current_size EXCEPT ![p] = size - SizeOf(erased, V) + Size[d]]
    BY <1>4 DEF insert
  <2>2. /\ V \in SUBSET DOMAIN erased
        /\ size + Size[d] <= Capacity[p] + SizeOf(erased, V) \/ V = DOMAIN erased
    BY <2>1 DEF Victims
  <2> DEFINE e == With(Without(erased, V), n, d)
             new == size - SizeOf(erased, V) + Size[d]
  <2> HIDE DEF p, erased, size
  <2>3. /\ Without(erased, V) \in Entries
        /\ n \notin DOMAIN Without(erased, V)
    BY <1>2, WithoutIsEntries DEF Without
  <2>4. e \in Entries BY <2>3, WithIsEntries
  <2>5. V \cap DOMAIN erased = V BY <2>2
  <2>6. /\ SizeOf(Without(erased, V), DOMAIN Without(erased, V))
             = SizeOf(erased, DOMAIN erased) - SizeOf(erased, V)
        /\ SizeOf(erased, V) <= SizeOf(erased, DOMAIN erased)
        /\ SizeOf(erased, V) \in Nat
    BY <1>2, <2>5, SizeWithoutSome
  <2>7. SizeOf(e, DOMAIN e)
          = SizeOf(Without(erased, V), DOMAIN Without(erased, V)) + Size[d]
    BY <2>3, SizeWithOne
  <2>8. new = SizeOf(e, DOMAIN e) /\ new \in Nat BY <1>1, <1>2, <2>6, <2>7
  <2>9. new <= Capacity[p]
    <3>1. CASE size + Size[d] <= Capacity[p] + SizeOf(erased, V)
      BY <1>1, <1>2, <2>6, <3>1
    <3>2. CASE V = DOMAIN erased
      <4>1. SizeOf(erased, V) = size BY <1>2, <3>2
      <4> QED BY <1>1, <1>2, <1>4, <4>1
    <3> QED BY <2>2, <3>1, <3>2
  <2>10. /\ entries' = [entries EXCEPT ![p] = e]
         /\ current_size' = [current_size EXCEPT ![p] = new]
    BY <2>1
  <2> HIDE DEF e, new
  <2> QED BY <1>1, <2>4, <2>8, <2>9, <2>10, SizedAgain, OneGrows
<1> QED BY <1>3, <1>4

\* The size of what was read and what was there is counted anew.
LEMMA InputSized ==
  ASSUME CacheInv, Sized, UNCHANGED home, NEW t \in Thread, input(t)
  PROVE  Sized' /\ GrowsWithin
<1> DEFINE p == home[t]
<1>1. /\ p \in Process /\ current_size \in [Process -> Nat] /\ loaded_[p] = "never"
      /\ loaded_ \in [Process -> {"never", "failed", "done"}]
  BY DEF input, CacheInv, Typed, Sized
<1>2. CASE UNCHANGED <<entries, current_size>>
  <2>1. Sized' BY <1>2, SizedStays
  <2>2. GrowsWithin BY <1>1, <1>2 DEF GrowsWithin
  <2> QED BY <2>1, <2>2
<1>3. CASE ~UNCHANGED <<entries, current_size>>
  <2>1. PICK S \in Kept(file.content, Capacity[p]) :
          /\ entries' = [entries EXCEPT ![p] = Merged(p, S)]
          /\ current_size' =
               [current_size EXCEPT ![p] = SizeOf(Merged(p, S), DOMAIN Merged(p, S))]
    BY <1>3 DEF input
  <2>2. loaded_' = [loaded_ EXCEPT ![p] = "done"] BY <1>3 DEF input
  <2>3. loaded_'[p] # loaded_[p] BY <1>1, <2>2
  <2>4. S \in SUBSET DOMAIN file.content BY <2>1 DEF Kept
  <2> DEFINE e == Merged(p, S)
             size == SizeOf(e, DOMAIN e)
  <2> HIDE DEF p
  <2>5. e \in Entries BY <1>1, <2>4, MergedIs
  <2>6. size \in Nat BY <2>5, BytesAreFinite
  <2>7. /\ entries' = [entries EXCEPT ![p] = e]
        /\ current_size' = [current_size EXCEPT ![p] = size]
    BY <2>1
  <2>8. size = SizeOf(e, DOMAIN e) OBVIOUS
  <2> HIDE DEF e, size
  <2> QED BY <1>1, <2>3, <2>5, <2>6, <2>7, <2>8, SizedAgain, OneGrows
<1> QED BY <1>2, <1>3

\* A process that ends has no entries and no size.
LEMMA RestartSized ==
  ASSUME CacheInv, Sized, UNCHANGED home, NEW p \in Process, Restart(p)
  PROVE  Sized' /\ GrowsWithin
<1>1. /\ entries' = [entries EXCEPT ![p] = Nothing]
      /\ current_size' = [current_size EXCEPT ![p] = 0]
  BY DEF Restart
<1>2. DOMAIN Nothing = {} /\ Nothing \in Entries BY NothingHasNothing
<1>3. SizeOf(Nothing, {}) = 0 BY EmptySize
<1>4. 0 = SizeOf(Nothing, DOMAIN Nothing) BY <1>2, <1>3
<1>5. current_size[p] \in Nat BY DEF Sized
<1>6. ~(0 > current_size[p]) /\ 0 \in Nat BY <1>5
<1> QED BY <1>1, <1>2, <1>4, <1>6, SizedAgain, OneGrows

\* A blob that was just opened has no size.
LEMMA SizedInitial == Init => Sized
<1> SUFFICES ASSUME Init PROVE Sized OBVIOUS
<1>1. /\ home \in Homes /\ entries = [p \in Process |-> Nothing]
      /\ current_size = [p \in Process |-> 0]
  BY DEF Init
<1>2. DOMAIN Nothing = {} BY NothingHasNothing
<1>3. SizeOf(Nothing, {}) = 0 BY EmptySize
<1>4. SizeExact BY <1>1, <1>2, <1>3 DEF SizeExact
<1> QED BY <1>1, <1>4 DEF Sized

\* Every step keeps the sizes exact, and grows nothing beyond its capacity.
LEMMA SizedStep ==
  ASSUME CacheInv, Sized, Next
  PROVE  Sized' /\ GrowsWithin
<1>1. UNCHANGED home BY DEF Next
<1>2. ASSUME NEW t \in Thread, NEW n \in Name, find(t, n) PROVE Sized' /\ GrowsWithin
  BY <1>1, <1>2, FindSized
<1>3. ASSUME NEW t \in Thread, NEW n \in Name, remove(t, n) PROVE Sized' /\ GrowsWithin
  BY <1>1, <1>3, RemoveSized
<1>4. ASSUME NEW t \in Thread, NEW n \in Name, NEW d \in Data, insert(t, n, d)
      PROVE  Sized' /\ GrowsWithin
  BY <1>1, <1>4, InsertSized
<1>5. ASSUME NEW t \in Thread, input(t) PROVE Sized' /\ GrowsWithin
  BY <1>1, <1>5, InputSized
<1>6. ASSUME NEW t \in Thread,
             \/ CallOutput(t) \/ LockPublish(t) \/ Snapshot(t) \/ WriteTemp(t)
             \/ ReplaceFile(t) \/ PublishFailed(t)
      PROVE  Sized' /\ GrowsWithin
  <2>1. UNCHANGED <<entries, current_size>>
    BY <1>6 DEF CallOutput, LockPublish, Snapshot, WriteTemp, ReplaceFile, PublishFailed, blob
  <2>2. Sized' BY <1>1, <2>1, SizedStays
  <2>3. current_size \in [Process -> Nat] BY DEF Sized
  <2>4. GrowsWithin BY <2>1, <2>3 DEF GrowsWithin
  <2> QED BY <2>2, <2>4
<1>7. ASSUME NEW p \in Process, Restart(p) PROVE Sized' /\ GrowsWithin
  BY <1>1, <1>7, RestartSized
<1> QED BY <1>2, <1>3, <1>4, <1>5, <1>6, <1>7 DEF Next, Step

\* The sizes are exact in every state.
LEMMA SizedAlways == Spec => []Sized
<1>1. CacheInv /\ Sized /\ [Next]_vars => Sized'
  <2>1. CASE UNCHANGED vars
    BY <2>1, SizedStays DEF vars, blob
  <2> QED BY <2>1, SizedStep
<1> QED BY <1>1, SizedInitial, CacheAlways, PTL DEF Spec

\* current_size_ counts every entry once and is never negative, whatever insert replaces and
\* evicts, input loads beside what is there, remove erases.
THEOREM SizeIsExact == Spec => []SizeExact
<1>1. Sized => SizeExact BY DEF Sized
<1> QED BY <1>1, SizedAlways, PTL

\* Every variable of the cache keeps its type.
THEOREM CacheTyped == Spec => []TypeOK
<1>1. CacheInv /\ Sized => TypeOK BY DEF CacheInv, Typed, Sized, TypeOK
<1> QED BY <1>1, CacheAlways, SizedAlways, PTL

\* What insert puts into a blob stays within max_capacity_, once make_room has evicted
\* enough, even if input() took the blob beyond it.
THEOREM StaysWithinCapacity == Spec => GrowsWithinCapacity
<1>1. CacheInv /\ Sized /\ [Next]_vars =>
        [\A p \in Process : current_size'[p] > current_size[p] /\ loaded_'[p] = loaded_[p]
           => current_size'[p] <= Capacity[p]]_vars
  BY SizedStep DEF GrowsWithin
<1> QED BY <1>1, CacheAlways, SizedAlways, PTL DEF Spec, GrowsWithinCapacity
=============================================================================
