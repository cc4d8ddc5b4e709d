------------------------------ MODULE AgentHub ------------------------------
(***************************************************************************)
(* The backend that the desktop application runs with in development:      *)
(* machines register with it and report their providers                    *)
(* (apps/desktop/src/backend/registry.ts and server.ts).                   *)
(*                                                                         *)
(* A device is what the registry keeps of a machine, which is known by its *)
(* fingerprint; its id is made of the first name and the fingerprint.  The *)
(* registry is written to its file at every change, before the answer, by  *)
(* one call that a crash can cut off; a file that is cut off is read as    *)
(* none.  Of a report of providers only its number is kept.                *)
(***************************************************************************)
EXTENDS Integers, FiniteSets

CONSTANTS
  Machines,         \* machines, each with its fingerprint
  Local,            \* the machine that the backend runs on
  Names,            \* names of machines, which may change
  Accounts, Default,
  Codes,            \* bound: pairing codes
  MaxTokens,        \* bound: tokens
  MaxReports,       \* bound: reports
  MaxRegistered,    \* bound: registrations
  MaxCrashes,       \* bound: crashes
  None

\* What the theorems assume of the constants
AgentHubAssumption ==
  /\ Local \in Machines /\ Default \in Accounts
  /\ {MaxTokens, MaxReports, MaxRegistered, MaxCrashes} \subseteq Nat
  /\ None \notin Codes /\ None \notin [name : Names, machine : Machines]
  /\ None \notin [account : Accounts, machine : Machines, providers : 0..MaxReports]

VARIABLES
  up,               \* whether the backend runs
  hub,              \* the registry in memory
  file,             \* the registry in its file
  codes,            \* the pairing codes, which are in memory only
  holds,            \* the tokens that each machine was answered
  socket,           \* the device that each machine's socket registered
  scanning,         \* the device for which the backend looks at its own providers
  reports,          \* the reports that are under way
  tokens, numbers, registered, crashes,
  sent,             \* the latest report of each device
  crossed,          \* devices with reports that crossed or went missing, since the
                    \* last that was by itself
  uses,             \* how many registrations each code was good for
  mixed,            \* machines that named another account than their code, token or
                    \* device has
  lost              \* whether a crash cut off the file

vars ==
  <<up, hub, file, codes, holds, socket, scanning, reports, tokens, numbers, registered,
    crashes, sent, crossed, uses, mixed, lost>>

\* makeDeviceId
DeviceId == [name : Names, machine : Machines]

Device == [account : Accounts, machine : Machines, providers : 0..MaxReports]

Token == [id : 1..MaxTokens, account : Accounts, device : DeviceId, machine : Machines]

Registry == [devices : [DeviceId -> Device \cup {None}], tokens : SUBSET Token]

Empty == [devices |-> [d \in DeviceId |-> None], tokens |-> {}]

Code == [state : {"new", "open", "dead"}, account : Accounts]

Report == [device : DeviceId, number : 1..MaxReports, token : 0..MaxTokens]

TypeOK ==
  /\ up \in BOOLEAN /\ hub \in Registry /\ file \in Registry
  /\ codes \in [Codes -> Code]
  /\ holds \in [Machines -> SUBSET (1..MaxTokens)]
  /\ socket \in [Machines -> DeviceId \cup {None}]
  /\ scanning \in DeviceId \cup {None} /\ reports \subseteq Report
  /\ tokens \in 0..MaxTokens /\ numbers \in 0..MaxReports
  /\ registered \in 0..MaxRegistered /\ crashes \in 0..MaxCrashes
  /\ sent \in [DeviceId -> 0..MaxReports] /\ crossed \subseteq DeviceId
  /\ uses \in [Codes -> 0..MaxRegistered] /\ mixed \subseteq Machines /\ lost \in BOOLEAN

Init ==
  /\ up = FALSE /\ hub = Empty /\ file = Empty
  /\ codes = [c \in Codes |-> [state |-> "new", account |-> Default]]
  /\ holds = [m \in Machines |-> {}] /\ socket = [m \in Machines |-> None]
  /\ scanning = None /\ reports = {}
  /\ tokens = 0 /\ numbers = 0 /\ registered = 0 /\ crashes = 0
  /\ sent = [d \in DeviceId |-> 0] /\ crossed = {}
  /\ uses = [c \in Codes |-> 0] /\ mixed = {} /\ lost = FALSE

----------------------------------------------------------------------------
(* Registration *)

\* findDeviceByToken: the tokens that a machine shows, known and its own
ByToken(m, token) == {t \in hub.tokens : t.id = token /\ t.machine = m}

\* findDeviceByFingerprint
ByFingerprint(m, account) ==
  {d \in DeviceId : /\ hub.devices[d] # None
                    /\ hub.devices[d].account = account /\ hub.devices[d].machine = m}

ClaimPairingCode(c) == [codes EXCEPT ![c].state = "dead"]

\* The providers of a device that registers
Kept(d) == IF hub.devices[d] = None THEN 0 ELSE hub.devices[d].providers

\* registerDevice.  The location of a machine is local if it is the backend's.
RegisterDevice(m, name, asked, token, c, id) ==
  LET byToken == ByToken(m, token)
      byFingerprint == ByFingerprint(m, asked)
      claimed == c # None /\ codes[c].state = "open"
      account == IF claimed THEN codes[c].account ELSE asked
      issued == byToken = {} /\ (byFingerprint = {} \/ claimed)
  IN
  /\ up /\ registered < MaxRegistered /\ registered' = registered + 1
  /\ byToken # {} \/ claimed \/ (m = Local /\ asked = Default)
  /\ id \in IF byToken # {} THEN {t.device : t \in byToken}
            ELSE IF byFingerprint # {} THEN byFingerprint ELSE {[name |-> name, machine |-> m]}
  /\ codes' = IF claimed THEN ClaimPairingCode(c) ELSE codes
  /\ uses' = IF claimed THEN [uses EXCEPT ![c] = @ + 1] ELSE uses
  /\ issued => tokens < MaxTokens
  /\ tokens' = IF issued THEN tokens + 1 ELSE tokens
  /\ hub' =
       [devices |-> [hub.devices EXCEPT ![id] =
          [account |-> account, machine |-> m, providers |-> Kept(id)]],
        tokens |-> hub.tokens \cup
          IF issued THEN {[id |-> tokens + 1, account |-> account, device |-> id, machine |-> m]}
          ELSE {}]
  /\ file' = hub'
  /\ mixed' = IF \/ account # asked \/ \E t \in byToken : t.account # asked
                 \/ hub.devices[id] # None /\ hub.devices[id].account # account
              THEN mixed \cup {m} ELSE mixed
  \* The answer may be lost.
  /\ holds' \in {holds, IF issued THEN [holds EXCEPT ![m] = @ \cup {tokens + 1}] ELSE holds}
  /\ UNCHANGED <<up, reports, numbers, crashes, sent, crossed, lost>>

\* POST /api/devices/register, or hello on a socket
Register(m) ==
  \E name \in Names, asked \in Accounts, token \in holds[m] \cup {0}, c \in Codes \cup {None},
     id \in DeviceId :
    /\ RegisterDevice(m, name, asked, token, c, id)
    /\ socket' \in {socket, [socket EXCEPT ![m] = id]}
    /\ UNCHANGED scanning

\* POST /api/devices/local/scan, and the start of the backend: up to the await of
\* the providers
Scan ==
  \E name \in Names, id \in DeviceId :
    /\ scanning = None /\ scanning' = id
    /\ RegisterDevice(Local, name, Default, 0, None, id)
    /\ UNCHANGED socket

\* POST /api/pairing-codes
CreatePairingCode(c) ==
  /\ up /\ codes[c].state = "new"
  /\ \E account \in Accounts : codes' = [codes EXCEPT ![c] = [state |-> "open", account |-> account]]
  /\ UNCHANGED <<up, hub, file, holds, socket, scanning, reports, tokens, numbers, registered,
                 crashes, sent, crossed, uses, mixed, lost>>

Expire(c) ==
  /\ codes[c].state = "open"
  /\ codes' = [codes EXCEPT ![c].state = "dead"]
  /\ UNCHANGED <<up, hub, file, holds, socket, scanning, reports, tokens, numbers, registered,
                 crashes, sent, crossed, uses, mixed, lost>>

----------------------------------------------------------------------------
(* Providers *)

Registering == <<codes, holds, tokens, registered, uses, mixed>>

UnderWay(d) == {r \in reports : r.device = d}

\* A report of a device is on its way.
Reported(d, token) ==
  /\ numbers < MaxReports /\ numbers' = numbers + 1
  /\ reports' = reports \cup {[device |-> d, number |-> numbers + 1, token |-> token]}
  /\ sent' = [sent EXCEPT ![d] = numbers + 1]
  /\ crossed' = IF UnderWay(d) = {} THEN crossed \ {d} ELSE crossed \cup {d}
  /\ UNCHANGED <<Registering, up, hub, file, socket, crashes, lost>>

\* A machine reports with a token that it holds, for the device of it; or on its
\* socket, for the device that it registered there.
SendReport(m) ==
  /\ \/ \E t \in hub.tokens : t.id \in holds[m] /\ Reported(t.device, t.id)
     \/ up /\ socket[m] # None /\ Reported(socket[m], 0)
  /\ UNCHANGED scanning

\* scanLocalProviders has the providers.
Scanned ==
  /\ up /\ scanning # None /\ scanning' = None
  /\ Reported(scanning, 0)

\* upsertProviderSnapshot, by a heartbeat or a snapshot whose token is known
UpsertProviderSnapshot(r) ==
  /\ up /\ r \in reports /\ hub.devices[r.device] # None
  /\ r.token = 0 \/ \E t \in hub.tokens : t.id = r.token /\ t.device = r.device
  /\ hub' = [hub EXCEPT !.devices[r.device].providers = r.number]
  /\ file' = hub'
  /\ reports' = reports \ {r}
  /\ UNCHANGED <<Registering, up, socket, scanning, numbers, crashes, sent, crossed, lost>>

\* The request is refused, or lost.
Dropped(r) ==
  /\ r \in reports /\ r.token # 0
  /\ reports' = reports \ {r}
  /\ crossed' = crossed \cup {r.device}
  /\ UNCHANGED <<Registering, up, hub, file, socket, scanning, numbers, crashes, sent, lost>>

----------------------------------------------------------------------------
(* Crashes *)

\* The registry is loaded from its file.
Start ==
  /\ ~up /\ up' = TRUE /\ hub' = file
  /\ UNCHANGED <<Registering, file, socket, scanning, reports, numbers, crashes, sent, crossed,
                 lost>>

\* A crash, which a save under way does not survive.  What is sent on a socket, or
\* scanned, is gone too.
Crash ==
  LET gone == {r \in reports : r.token = 0} IN
  /\ up /\ up' = FALSE
  /\ crashes < MaxCrashes /\ crashes' = crashes + 1
  /\ \/ UNCHANGED <<file, lost>>
     \/ file' = Empty /\ lost' = TRUE
  /\ hub' = Empty
  /\ codes' = [c \in Codes |-> IF codes[c].state = "open" THEN [codes[c] EXCEPT !.state = "dead"]
                               ELSE codes[c]]
  /\ socket' = [m \in Machines |-> None] /\ scanning' = None
  /\ reports' = reports \ gone
  /\ crossed' = crossed \cup {r.device : r \in gone}
  /\ UNCHANGED <<holds, tokens, registered, uses, mixed, numbers, sent>>

----------------------------------------------------------------------------

Next ==
  \/ \E m \in Machines : Register(m) \/ SendReport(m)
  \/ Scan \/ Scanned \/ Start \/ Crash
  \/ \E c \in Codes : CreatePairingCode(c) \/ Expire(c)
  \/ \E r \in reports : UpsertProviderSnapshot(r) \/ Dropped(r)

Spec == Init /\ [][Next]_vars

----------------------------------------------------------------------------
(* Properties *)

Known == {d \in DeviceId : hub.devices[d] # None}

\* A machine has one device in an account, by whatever names it registers, unless
\* it named another account than its code, token or device has.
OneDeviceEach ==
  \A d, e \in Known :
    hub.devices[d].machine = hub.devices[e].machine
    /\ hub.devices[d].account = hub.devices[e].account
    /\ hub.devices[d].machine \notin mixed
    => d = e

\* A token that a machine was answered is known as long as the backend runs, and
\* again after every restart that finds its file, for a device of that machine.
TokensAreKept ==
  up /\ ~lost =>
    \A m \in Machines : \A id \in holds[m] :
      \E t \in hub.tokens : t.id = id /\ t.machine = m /\ t.device \in Known

\* A pairing code is good for one registration.
CodesPairOnce == \A c \in Codes : uses[c] <= 1

\* A device has the providers that were reported last, through registrations and
\* restarts, unless reports crossed or went missing.
ReportsArrive ==
  up /\ ~lost =>
    \A d \in Known \ crossed : UnderWay(d) = {} => hub.devices[d].providers = sent[d]
=============================================================================
