--------------------------- MODULE ImageGeneration ---------------------------
(***************************************************************************)
(* How a node generates an image (server/src/modules/art): the credential  *)
(* it uses, the key that it keeps in a file (imageCredentials.ts), and the *)
(* image service's answer (imageGeneration.ts).  What becomes of the image *)
(* is ArtLibrary's.                                                        *)
(*                                                                         *)
(* There are four sources of a credential: a variable of the process, the  *)
(* file, and the API key and the token in the file of Codex, which other   *)
(* programs change.  A request reads them one after the other, once to see *)
(* whether there is one and once to use it.  The service and its stream of *)
(* events are external; prompts, models and sizes are left out.            *)
(***************************************************************************)
EXTENDS Integers, Sequences, SequencesExt

CONSTANTS
  Generations,      \* requests of an image
  Changes,          \* requests that save or clear the key
  MaxLogins,        \* bound: changes of the file of Codex
  MaxCrashes,       \* bound: crashes of the node
  None

VARIABLES
  env,              \* whether the process has a key
  codex,            \* what the file of Codex has
  inodes,           \* the files: written by which change, "empty" or "torn"
  path, tmp,        \* the files with the name of the store, and of its temporary file
  changes,          \* the changes of the key
  works,            \* the requests of an image
  images,           \* how many images the service made for each
  absent,           \* sources that were missing at some time since a request read them first
  kept,             \* the key after the last change, as the user was told
  uncleared,        \* whether that change was to clear a key whose file could not be removed
  overlapped,       \* whether two changes were under way at the same time
  logins, crashes

vars ==
  <<env, codex, inodes, path, tmp, changes, works, images, absent, kept, uncleared,
    overlapped, logins, crashes>>

\* In the order in which they are looked at.
Sources == <<"env", "stored", "codex-auth", "codex-oauth">>

Source == ToSet(Sources)

\* A change and the file that it writes.
Change ==
  [does : {"save", "clear"}, at : {"new", "open", "written", "done", "failed"},
   file : Changes \cup {None}]

\* A request: which pass over the sources it is in and the next to be read; then what
\* it uses, how often it has called, the stream of images, and the one it has.
Work ==
  [at : {"new", "check", "resolve", "call", "retry", "completed", "failed", "blocked"},
   next : 1..5, uses : Source \cup {None}, edits : BOOLEAN,
   stream : Seq({"partial", "final"}), image : {"partial", "final", None}]

TypeOK ==
  /\ env \in BOOLEAN /\ codex \subseteq {"codex-auth", "codex-oauth"}
  /\ inodes \in [Changes -> Changes \cup {"empty", "torn"}]
  /\ path \in Changes \cup {None} /\ tmp \in Changes \cup {None}
  /\ changes \in [Changes -> Change]
  /\ \A g \in Generations : works[g] \in Work /\ Len(works[g].stream) <= 2
  /\ images \in [Generations -> 0..2] /\ absent \in [Generations -> SUBSET Source]
  /\ kept \in Changes \cup {None} /\ uncleared \in BOOLEAN /\ overlapped \in BOOLEAN
  /\ logins \in 0..MaxLogins /\ crashes \in 0..MaxCrashes

Init ==
  /\ env \in BOOLEAN /\ codex = {}
  /\ inodes = [c \in Changes |-> "empty"] /\ path = None /\ tmp = None
  /\ changes \in [Changes ->
       {[does |-> d, at |-> "new", file |-> None] : d \in {"save", "clear"}}]
  /\ works \in [Generations ->
       {[at |-> "new", next |-> 1, uses |-> None, edits |-> e, stream |-> <<>>,
         image |-> None] : e \in BOOLEAN}]
  /\ images = [g \in Generations |-> 0] /\ absent = [g \in Generations |-> {}]
  /\ kept = None /\ uncleared = FALSE /\ overlapped = FALSE /\ logins = 0 /\ crashes = 0

----------------------------------------------------------------------------
(* The key in the file *)

\* getStoredImageApiKey: what cannot be parsed is no key.
StoredKey == IF path # None /\ inodes[path] \in Changes THEN inodes[path] ELSE None

UnderWay == {c \in Changes : changes[c].at \in {"open", "written"}}

\* saveStoredImageApiKey opens the temporary file, or the one of another save.
OpenTmp(c) ==
  /\ changes[c].does = "save" /\ changes[c].at = "new"
  /\ LET file == IF tmp = None THEN c ELSE tmp IN
       /\ tmp' = file
       /\ inodes' = [inodes EXCEPT ![file] = "empty"]
       /\ changes' = [changes EXCEPT ![c].at = "open", ![c].file = file]
  /\ overlapped' = (overlapped \/ UnderWay # {})
  /\ UNCHANGED <<env, codex, path, works, images, kept, uncleared, logins, crashes>>

\* What two saves write into one file is the text of one, or of both.
WriteTmp(c) ==
  LET file == changes[c].file IN
  /\ changes[c].at = "open"
  /\ changes' = [changes EXCEPT ![c].at = "written"]
  /\ \E text \in IF inodes[file] = "empty" THEN {c} ELSE {c, "torn"} :
       inodes' = [inodes EXCEPT ![file] = text]
  /\ UNCHANGED <<env, codex, path, tmp, works, images, kept, uncleared, overlapped, logins,
                 crashes>>

RenameTmp(c) ==
  /\ changes[c].at = "written"
  /\ IF tmp = None
     THEN /\ changes' = [changes EXCEPT ![c].at = "failed"]
          /\ UNCHANGED <<path, tmp, kept, uncleared>>
     ELSE /\ path' = tmp /\ tmp' = None /\ kept' = c /\ uncleared' = FALSE
          /\ changes' = [changes EXCEPT ![c].at = "done"]
  /\ UNCHANGED <<env, codex, inodes, works, images, overlapped, logins, crashes>>

\* Whatever unlink says, the key counts as cleared.
ClearStoredImageApiKey(c) ==
  /\ changes[c].does = "clear" /\ changes[c].at = "new"
  /\ kept' = None
  /\ \/ path' = None /\ uncleared' = FALSE
     \/ path # None /\ uncleared' = TRUE /\ UNCHANGED path
  /\ changes' = [changes EXCEPT ![c].at = "done"]
  /\ overlapped' = (overlapped \/ UnderWay # {})
  /\ UNCHANGED <<env, codex, inodes, tmp, works, images, logins, crashes>>

----------------------------------------------------------------------------
(* The credential *)

Available(s) ==
  CASE s = "env" -> env
    [] s = "stored" -> StoredKey # None
    [] OTHER -> s \in codex

\* Both passes stop at the first source that has a credential.  The file of Codex is
\* read once for its two.
Found(w) ==
  IF w.next = 3 THEN {i \in 3..4 : Available(Sources[i])}
  ELSE IF Available(Sources[w.next]) THEN {w.next} ELSE {}

First(indices) == CHOOSE i \in indices : \A j \in indices : i <= j

Pass(g, pass, found, none) ==
  LET w == works[g] IN
  /\ w.at = pass
  /\ works' = [works EXCEPT ![g] =
       IF Found(w) # {}
       THEN [w EXCEPT !.at = found, !.next = 1,
                      !.uses = IF pass = "check" THEN None ELSE Sources[First(Found(w))]]
       ELSE IF w.next = 3 THEN [w EXCEPT !.at = none] ELSE [w EXCEPT !.next = @ + 1]]
  /\ UNCHANGED <<env, codex, inodes, path, tmp, changes, images, kept, uncleared, overlapped,
                 logins, crashes>>

RequestGeneration(g) ==
  /\ works[g].at = "new" /\ works' = [works EXCEPT ![g].at = "check"]
  /\ UNCHANGED <<env, codex, inodes, path, tmp, changes, images, kept, uncleared, overlapped,
                 logins, crashes>>

GetImageAuthStatus(g) == Pass(g, "check", "resolve", "blocked")

ResolveAuthHeader(g) == Pass(g, "resolve", "call", "failed")

----------------------------------------------------------------------------
(* The image *)

\* extractCodexImageBase64: the last image of the stream
Extracted(stream) == IF stream = <<>> THEN None ELSE stream[Len(stream)]

Answered(g, image) ==
  [works EXCEPT ![g].at = IF image = None THEN "failed" ELSE "completed", ![g].image = image]

Makes(g) == images' = [images EXCEPT ![g] = @ + 1]

CallUnchanged ==
  UNCHANGED <<env, codex, inodes, path, tmp, changes, kept, uncleared, overlapped, logins,
              crashes>>

\* generateImageWithCodexOAuth: the text of the whole stream is read; the service may
\* fail with a part of the image sent.
CallCodex(g) ==
  /\ works[g].at = "call" /\ works[g].uses = "codex-oauth"
  /\ \E stream \in {<<>>, <<"partial">>, <<"final">>, <<"partial", "final">>} :
       /\ works' = [Answered(g, Extracted(stream)) EXCEPT ![g].stream = stream]
       /\ IF "final" \in ToSet(stream) THEN Makes(g) ELSE UNCHANGED images
  /\ CallUnchanged

\* generateImageWithOpenAI, and generateImageEditWithOpenAI with references
CallOpenAI(g) ==
  /\ works[g].at \in {"call", "retry"} /\ works[g].uses # "codex-oauth"
  /\ \/ Makes(g) /\ works' = Answered(g, "final")
     \/ UNCHANGED images /\ works' = Answered(g, None)
  /\ CallUnchanged

\* An edit that is refused with 400 is tried again with another name of the field.
EditRefused(g) ==
  /\ works[g].at = "call" /\ works[g].uses # "codex-oauth" /\ works[g].edits
  /\ works' = [works EXCEPT ![g].at = "retry"]
  /\ UNCHANGED images /\ CallUnchanged

\* The answer of any call is lost, and nothing is tried again.
AnswerLost(g) ==
  /\ works[g].at \in {"call", "retry"}
  /\ works' = Answered(g, None) /\ Makes(g)
  /\ CallUnchanged

----------------------------------------------------------------------------
(* The surroundings *)

\* Codex logs in or out.
CodexChanges ==
  /\ logins < MaxLogins /\ logins' = logins + 1
  /\ codex' \in SUBSET {"codex-auth", "codex-oauth"} \ {codex}
  /\ UNCHANGED <<env, inodes, path, tmp, changes, works, images, kept, uncleared, overlapped,
                 crashes>>

\* Requests under way are gone; the files stay.
Crash ==
  /\ crashes < MaxCrashes /\ crashes' = crashes + 1
  /\ changes' = [c \in Changes |->
       IF c \in UnderWay THEN [changes[c] EXCEPT !.at = "failed"] ELSE changes[c]]
  /\ works' = [g \in Generations |->
       IF works[g].at \in {"check", "resolve", "call", "retry"}
       THEN [works[g] EXCEPT !.at = "failed"] ELSE works[g]]
  /\ UNCHANGED <<env, codex, inodes, path, tmp, images, kept, uncleared, overlapped, logins>>

\* The sources that were missing since a request began.
Watch ==
  absent' = [g \in Generations |->
    IF works[g].at \in {"check", "resolve"} \/ works'[g].at = "check"
    THEN absent[g] \cup {s \in Source : ~Available(s) \/ ~Available(s)'} ELSE absent[g]]

Next ==
  /\ \/ \E c \in Changes :
          OpenTmp(c) \/ WriteTmp(c) \/ RenameTmp(c) \/ ClearStoredImageApiKey(c)
     \/ \E g \in Generations :
          \/ RequestGeneration(g) \/ GetImageAuthStatus(g) \/ ResolveAuthHeader(g)
          \/ CallCodex(g) \/ CallOpenAI(g) \/ EditRefused(g) \/ AnswerLost(g)
     \/ CodexChanges \/ Crash
  /\ Watch

Spec == Init /\ [][Next]_vars

----------------------------------------------------------------------------
(* Properties *)

\* The key in the file is the one that was saved last, or none after it was cleared,
\* whatever crashes there were, unless two changes were made at the same time or its
\* file could not be removed.
KeyIsKept == ~overlapped /\ ~uncleared => StoredKey = kept

\* A source is passed over only if it was missing at some time while the request looked
\* for a credential, and a request is blocked only if all were.
BestCredential ==
  \A g \in Generations :
    /\ works[g].uses # None =>
         \A i \in 1..4 :
           Sources[i] = works[g].uses => ToSet(SubSeq(Sources, 1, i - 1)) \subseteq absent[g]
    /\ works[g].at = "blocked" => absent[g] = Source

\* The service makes one image for a request at most, also if answers are lost.
OneImageEach == \A g \in Generations : images[g] <= 1

\* A part of an image is taken for the image only if the service sent no more.
FinishedImageWins ==
  \A g \in Generations : works[g].image = "partial" => "final" \notin ToSet(works[g].stream)
=============================================================================
