---------------------------- MODULE ArtLibrary ----------------------------
(***************************************************************************)
(* The art library of a Reika Node (server/src/modules/art/artStore.ts and *)
(* the /art routes of server/src/main.ts): profiles with categories of     *)
(* assets, of which some have an image file.  Uploads, generations and     *)
(* deletions hold a category object across an await; a category that was   *)
(* removed from the library meanwhile is seen by that request only, so it  *)
(* is left out here.  JsonStore has the steps of a save.                   *)
(*                                                                         *)
(* A copy of a profile prefixes the ids of its categories and assets with  *)
(* its own id, and its assets share the files of the originals.  Of what   *)
(* else an agent or a category has (references for a generation, prompts,  *)
(* names) nothing is kept here.                                            *)
(***************************************************************************)
EXTENDS Integers, Sequences, FiniteSets, SequencesExt, Functions

CONSTANTS
  MaxProfiles,      \* bound: profiles, the default one among them
  MaxAdded,         \* bound: categories that are added
  MaxAssets,        \* bound: assets that are linked, uploaded or generated
  Requests,         \* requests that await something
  MaxCrashes,       \* bound: crashes of the node
  None

Default == 1                        \* the profile 'reika', with one category
Profile == 1..MaxProfiles

VARIABLES
  profiles,         \* the profiles of the library
  library,          \* its categories, by their ids
  requests,         \* the requests that await something
  disk,             \* the image files
  saved,            \* the library in the JSON file
  unsaved,          \* whether a save is queued
  taken,            \* how many profiles, categories and assets were given ids
  lost,             \* files unlinked when a crash lost the record of it
  crashes

vars == <<profiles, library, requests, disk, saved, unsaved, taken, lost, crashes>>

Kind == {"seed", "link", "upload", "generated"}

\* An id is a number, prefixed by a profile for every copy.
Id == Seq(Nat)
File == 1..MaxAssets
Asset == [id : Id, kind : Kind, file : File \cup {None}]

\* A category of the profile; assets are newest first.
Category == [profile : Profile, assets : Seq(Asset), selected : Id \cup {None}]

Ids(assets) == {assets[i].id : i \in DOMAIN assets}

FirstId(assets) == IF assets = <<>> THEN None ELSE assets[1].id

\* The seeds of a new profile or of the default one.
Seeds(prefix) == <<[id |-> prefix \o <<0>>, kind |-> "seed", file |-> None]>>
NewCategory(p, assets) ==
  [profile |-> p, assets |-> assets, selected |-> FirstId(assets)]

Init ==
  /\ profiles = {Default}
  /\ library = [c \in {<<0>>} |-> NewCategory(Default, Seeds(<<>>))]
  /\ saved = [profiles |-> profiles, library |-> library]
  /\ requests = [r \in Requests |-> None]
  /\ disk = {} /\ unsaved = FALSE /\ lost = {} /\ crashes = 0
  /\ taken = [profiles |-> 1, categories |-> 0, assets |-> 0]

----------------------------------------------------------------------------
(* Profiles and categories *)

\* The library is changed at once, and a save is queued.
Changed(lib) ==
  /\ library' = lib
  /\ unsaved' = TRUE
  /\ UNCHANGED <<requests, disk, saved, lost, crashes>>

WithCategories(more) ==
  [c \in DOMAIN library \cup DOMAIN more |->
    IF c \in DOMAIN library THEN library[c] ELSE more[c]]

NewProfile == taken.profiles + 1

AddProfile(p, lib) ==
  /\ p \in Profile
  /\ profiles' = profiles \cup {p}
  /\ taken' = [taken EXCEPT !.profiles = p]
  /\ Changed(lib)

\* createProfile
CreateProfile ==
  LET p == NewProfile IN
  AddProfile(p, WithCategories([c \in {<<p, 0>>} |-> NewCategory(p, Seeds(<<p>>))]))

\* duplicateProfile
DuplicateProfile(source) ==
  LET p == NewProfile
      Copied(id) == <<p>> \o id
      Copy(c) == [profile |-> p,
                  assets |-> [i \in DOMAIN c.assets |-> [c.assets[i] EXCEPT !.id = Copied(@)]],
                  selected |-> IF c.selected = None THEN None ELSE Copied(c.selected)]
      old == {c \in DOMAIN library : library[c].profile = source}
      new == {Copied(c) : c \in old}
  IN
  /\ source \in profiles
  /\ AddProfile(p, WithCategories([n \in new |-> Copy(library[Tail(n)])]))

\* deleteProfile: the files of its assets stay.
DeleteProfile(p) ==
  /\ p \in profiles \ {Default}
  /\ profiles' = profiles \ {p}
  /\ Changed(Restrict(library, {c \in DOMAIN library : library[c].profile # p}))
  /\ UNCHANGED taken

\* addCategory
AddCategory(p) ==
  LET n == taken.categories + 1 IN
  /\ p \in profiles /\ n <= MaxAdded
  /\ taken' = [taken EXCEPT !.categories = n]
  /\ Changed(WithCategories([c \in {<<n, 0, 0>>} |-> NewCategory(p, <<>>)]))
  /\ UNCHANGED profiles

\* deleteCategory
DeleteCategory(c) ==
  /\ c \in DOMAIN library
  /\ Changed(Restrict(library, DOMAIN library \ {c}))
  /\ UNCHANGED <<profiles, taken>>

----------------------------------------------------------------------------
(* Assets *)

IsListed(c, id) == id \in Ids(library[c].assets)

\* updateCategory, with an id that the page may have got earlier.
UpdateCategory(c, selected) ==
  /\ c \in DOMAIN library
  /\ Changed([library EXCEPT ![c].selected = IF IsListed(c, selected) THEN selected ELSE @])
  /\ UNCHANGED <<profiles, taken>>

\* The category with an asset put first and selected.
WithAsset(c, asset) ==
  [library EXCEPT ![c] =
    [profile |-> @.profile, assets |-> <<asset>> \o @.assets, selected |-> asset.id]]

\* addLinkedAsset
LinkAsset(c) ==
  LET n == taken.assets + 1 IN
  /\ c \in DOMAIN library /\ n <= MaxAssets
  /\ taken' = [taken EXCEPT !.assets = n]
  /\ Changed(WithAsset(c, [id |-> <<n>>, kind |-> "link", file |-> None]))
  /\ UNCHANGED profiles

\* addUploadedAsset and requestGeneration, up to the file or the provider.
BeginImage(r, c, kind) ==
  LET n == taken.assets + 1 IN
  /\ requests[r] = None /\ c \in DOMAIN library /\ n <= MaxAssets
  /\ taken' = [taken EXCEPT !.assets = n]
  /\ requests' = [requests EXCEPT ![r] = [does |-> kind, category |-> c, number |-> n]]
  /\ UNCHANGED <<profiles, library, disk, saved, unsaved, lost, crashes>>

\* The image is in its file, and is put into the category that was held.
ImageDone(r) ==
  LET c == requests[r].category
      n == requests[r].number
  IN
  /\ requests[r] # None /\ requests[r].does \in {"upload", "generated"}
  /\ disk' = disk \cup {n}
  /\ library' = IF c \notin DOMAIN library THEN library
                ELSE WithAsset(c, [id |-> <<n>>, kind |-> requests[r].does, file |-> n])
  /\ requests' = [requests EXCEPT ![r] = None] /\ unsaved' = TRUE
  /\ UNCHANGED <<profiles, saved, taken, lost, crashes>>

\* No authorisation, no image, or no file.
ImageFails(r) ==
  /\ requests[r] # None /\ requests[r].does \in {"upload", "generated"}
  /\ requests' = [requests EXCEPT ![r] = None]
  /\ UNCHANGED <<profiles, library, disk, saved, unsaved, taken, lost, crashes>>

\* Faulty: the file is deleted with any of the assets that share it.
StillUsed_Never(asset, lib) == FALSE

\* deleteAssetFileIfUnused: whether another asset, of any profile, has the file.
StillUsed(asset, lib) ==
  \E c \in DOMAIN lib : \E i \in DOMAIN lib[c].assets :
    lib[c].assets[i].id # asset.id /\ lib[c].assets[i].file = asset.file

\* deleteAsset, up to the await of unlink; without a file to unlink it ends.
DeleteAsset(r, c, i) ==
  LET asset == library[c].assets[i]
      assets == RemoveAt(library[c].assets, i)
      lib == [library EXCEPT ![c] =
        [profile |-> @.profile, assets |-> assets,
         selected |-> IF @.selected = asset.id THEN FirstId(assets) ELSE @.selected]]
  IN
  /\ requests[r] = None
  /\ ~(asset.kind = "seed" /\ library[c].profile = Default)
  /\ library' = lib
  /\ IF asset.file = None \/ StillUsed(asset, lib)
     THEN unsaved' = TRUE /\ UNCHANGED requests
     ELSE /\ requests' = [requests EXCEPT ![r] =
               [does |-> "unlink", category |-> c, number |-> asset.file]]
          /\ UNCHANGED unsaved
  /\ UNCHANGED <<profiles, disk, saved, taken, lost, crashes>>

\* The file is unlinked, or cannot be; only now the save is queued.
Unlinked(r) ==
  /\ requests[r] # None /\ requests[r].does = "unlink"
  /\ disk' \in {disk, disk \ {requests[r].number}}
  /\ requests' = [requests EXCEPT ![r] = None] /\ unsaved' = TRUE
  /\ UNCHANGED <<profiles, library, saved, taken, lost, crashes>>

----------------------------------------------------------------------------
(* Saves and restarts *)

Save ==
  /\ unsaved /\ unsaved' = FALSE
  /\ saved' = [profiles |-> profiles, library |-> library]
  /\ UNCHANGED <<profiles, library, requests, disk, taken, lost, crashes>>

SaveFails ==
  /\ unsaved /\ unsaved' = FALSE
  /\ UNCHANGED <<profiles, library, requests, disk, saved, taken, lost, crashes>>

\* normalizeAgentSelections, at every load: an agent that is not Reika and has
\* an asset of its own does not keep one of Reika's assets selected.
Normalized(c) ==
  LET own == SelectSeq(c.assets, LAMBDA a : a.kind # "seed")
      isSeed == \E i \in DOMAIN c.assets :
                  c.assets[i].id = c.selected /\ c.assets[i].kind = "seed"
  IN IF c.profile # Default /\ isSeed /\ own # <<>> THEN [c EXCEPT !.selected = own[1].id] ELSE c

FilesOf(lib) ==
  (UNION {{lib[c].assets[i].file : i \in DOMAIN lib[c].assets} : c \in DOMAIN lib}) \ {None}

Crash ==
  /\ crashes < MaxCrashes /\ crashes' = crashes + 1
  /\ profiles' = saved.profiles
  /\ library' = [c \in DOMAIN saved.library |-> Normalized(saved.library[c])]
  /\ lost' = lost \cup ((FilesOf(saved.library) \ FilesOf(library)) \ disk)
  /\ requests' = [r \in Requests |-> None] /\ unsaved' = FALSE
  /\ UNCHANGED <<disk, saved, taken>>

----------------------------------------------------------------------------

SomeId == UNION {Ids(library[c].assets) : c \in DOMAIN library}

Next ==
  \/ CreateProfile \/ Save \/ SaveFails \/ Crash
  \/ \E p \in profiles : DuplicateProfile(p) \/ DeleteProfile(p) \/ AddCategory(p)
  \/ \E c \in DOMAIN library :
       \/ DeleteCategory(c) \/ LinkAsset(c)
       \/ \E id \in SomeId : UpdateCategory(c, id)
       \/ \E r \in Requests :
            \/ \E kind \in {"upload", "generated"} : BeginImage(r, c, kind)
            \/ \E i \in DOMAIN library[c].assets : DeleteAsset(r, c, i)
  \/ \E r \in Requests : ImageDone(r) \/ ImageFails(r) \/ Unlinked(r)

Spec == Init /\ [][Next]_vars

----------------------------------------------------------------------------
(* Properties *)

\* Every variable has its type; a category belongs to a profile of the
\* library, and has selected one of its own assets, if it has any.
TypeOK ==
  /\ profiles \subseteq Profile
  /\ \A c \in DOMAIN library :
       /\ c \in Id /\ library[c] \in Category /\ library[c].profile \in profiles
       /\ IF library[c].assets = <<>> THEN library[c].selected = None
          ELSE IsListed(c, library[c].selected)
  /\ disk \subseteq File /\ lost \subseteq File
  /\ unsaved \in BOOLEAN /\ crashes \in 0..MaxCrashes

\* An asset of the library that has a file finds it on the disk, however
\* profiles that share the file were copied and deleted; the exception is a
\* crash between the deletion of a file and the save of the library.
AssetsHaveFiles == FilesOf(library) \subseteq disk \cup lost
=============================================================================
