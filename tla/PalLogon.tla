------------------------------- MODULE PalLogon -------------------------------
(***************************************************************************)
(* What a logon carries (pallogon.c): the settings of the client and the   *)
(* checksum of its PUID, both kept in the client and read when the server  *)
(* greets, which may be long after the Connect that wrote them.            *)
(*                                                                         *)
(* The steps are those of PalClient.  User name, password, room and delays *)
(* are the number of the call that set them; of the PUID only the checksum *)
(* is kept, its counter being carried unharmed.  The registration code is  *)
(* a constant of the client.                                               *)
(***************************************************************************)
EXTENDS PalClient

CONSTANTS
    MaxSettings,    \* bound: calls that set the settings
    InitialCRC,     \* client->puidCRC of a new client: 0xc144c580
    ServerCRCs,     \* checksums the server may issue
    HalfMod         \* a uint16_t wraps here: 2^16

ASSUME LogonAssumption ==
    /\ MaxSettings \in Nat
    /\ InitialCRC \in Nat /\ ServerCRCs \subseteq Nat
    /\ HalfMod \in Nat \ {0}

VARIABLES
    settings,       \* the call whose settings are in the client
    pending,        \* Connects whose resolution is due
    owner,          \* the Connect each handle was opened for, 0 for none
    logons,         \* history: the logons queued on each handle
    puidCRC,        \* client->puidCRC
    puidChanged,    \* client->puidChangedFlag
    overlap,        \* history: settings were set while a logon was yet to come
    issued          \* history: the server issued a checksum of its own

logonVars == <<settings, pending, owner, logons, puidCRC, puidChanged, overlap, issued>>

LogonInit ==
    /\ Init
    /\ settings = 0 /\ pending = {}
    /\ owner = [s \in Sockets |-> 0]
    /\ logons = {}
    /\ puidCRC = InitialCRC /\ puidChanged = FALSE
    /\ overlap = FALSE /\ issued = FALSE

-----------------------------------------------------------------------------
(* Setting.                                                                 *)

(* A resolution, a connect or a handshake is under way.                      *)
Underway == resolving > 0 \/ state = "HANDSHAKING" \/ \E s \in Sockets : handle[s] = "connecting"

(* Variant: settings are not touched during a handshake.                     *)
PatientSet ==
    /\ settings < MaxSettings
    /\ settings' = IF state = "HANDSHAKING" THEN settings ELSE settings + 1
    /\ overlap' = (overlap \/ Underway)

Set ==
    /\ settings < MaxSettings
    /\ settings' = settings + 1
    /\ overlap' = (overlap \/ Underway)

(* OXLPalClientConnect_ sets them and resolves the host.                     *)
ConnectWithSettings ==
    /\ Connect
    /\ Set
    /\ pending' = pending \cup {settings + 1}
    /\ UNCHANGED <<owner, logons, puidCRC, puidChanged, issued>>

(* SetParams sets them all, OXLSetPalUsername one of them.                   *)
OXLPalClientSetParams ==
    /\ Set
    /\ UNCHANGED <<vars, pending, owner, logons, puidCRC, puidChanged, issued>>

(* A resolution is over; the handle, if there will be one, is for its Connect. *)
ResolvedFor(s) ==
    /\ Resolved(s)
    /\ \E c \in pending : pending' = pending \ {c} /\ owner' = [owner EXCEPT ![s] = c]
    /\ UNCHANGED <<settings, logons, puidCRC, puidChanged, overlap, issued>>

ResolveFailedFor ==
    /\ ResolveFailed
    /\ \E c \in pending : pending' = pending \ {c}
    /\ UNCHANGED <<settings, owner, logons, puidCRC, puidChanged, overlap, issued>>

-----------------------------------------------------------------------------
(* Logging on.                                                              *)

(* Variant: the checksum is sent whole.                                      *)
WideLogonMsg(kind) == [on |-> socket, kind |-> kind, by |-> settings, puidCRC |-> puidCRC]

(* Variant: the upper half of the checksum is sent.                          *)
UpperLogonMsg(kind) ==
    [on |-> socket, kind |-> kind, by |-> settings, puidCRC |-> puidCRC \div HalfMod]

(* OXLCreatePalLogonMsg takes the checksum as a uint16_t.                    *)
LogonMsg(kind) ==
    [on |-> socket, kind |-> kind, by |-> settings, puidCRC |-> puidCRC % HalfMod]

Logs(kind) == logons' = IF socket # NoSocket /\ Writable(socket)
                        THEN logons \cup {LogonMsg(kind)} ELSE logons

(* A known greeting is answered with a logon, made of what the client holds.  *)
GreetedWithLogon(s, kind) ==
    /\ ReadGreeting(s, kind)
    /\ IF kind = "known" THEN Logs("answer") ELSE UNCHANGED logons
    /\ UNCHANGED <<settings, pending, owner, puidCRC, puidChanged, overlap, issued>>

(* The application's own logon, at any time; another raw send is OtherStep.   *)
OXLPalClientLogon ==
    /\ RawSend
    /\ Logs("call")
    /\ UNCHANGED <<settings, pending, owner, puidCRC, puidChanged, overlap, issued>>

(* The server's reply to a logon: a checksum that is not the client's is kept *)
(* and taken for a change by the server; the flag is never reset.            *)
OXLPalClientHandleAltLogon(s, crc) ==
    /\ handle[s] = "open" /\ state = "CONNECTED"
    /\ puidChanged' = (puidChanged \/ crc # puidCRC)
    /\ puidCRC' = crc
    /\ UNCHANGED <<vars, settings, pending, owner, logons, overlap>>

(* The server gives back what a logon on that handle carried.                *)
Echo(s) ==
    /\ s \in logged
    /\ \E l \in logons : l.on = s /\ OXLPalClientHandleAltLogon(s, l.puidCRC)
    /\ UNCHANGED issued

(* The server gives the client a PUID of its own.                            *)
Issue(s) ==
    /\ \E crc \in ServerCRCs : OXLPalClientHandleAltLogon(s, crc)
    /\ issued' = TRUE

-----------------------------------------------------------------------------
(* The steps of PalClient that neither set nor log on.                       *)
OtherStep ==
    /\ \/ AppDisconnect \/ Request \/ RawSend \/ TimerPingServer
       \/ \E s \in Sockets :
            \/ OpenSocketEvent(s) \/ OpenSocketFailed(s)
            \/ ReadTerminate(s) \/ ReadError(s)
            \/ AfterSend(s) \/ AfterCloseSocket(s)
    /\ UNCHANGED logonVars

LogonNext ==
    /\ Running
    /\ \/ ConnectWithSettings \/ OXLPalClientSetParams \/ OXLPalClientLogon
       \/ ResolveFailedFor \/ OtherStep
       \/ \E s \in Sockets :
            \/ ResolvedFor(s) \/ Echo(s) \/ Issue(s)
            \/ \E kind \in {"known", "unknown"} : GreetedWithLogon(s, kind)

LogonSpec == LogonInit /\ [][LogonNext]_<<vars, logonVars>>

-----------------------------------------------------------------------------
(* Properties.                                                              *)

(* Every variable has its type; a resolution is due for each pending Connect. *)
LogonTypeOK ==
    /\ settings \in 0..MaxSettings
    /\ pending \subseteq 1..MaxSettings
    /\ Cardinality(pending) = resolving
    /\ owner \in [Sockets -> 0..MaxSettings]
    /\ logons \subseteq [on : Sockets, kind : {"answer", "call"},
                        by : 0..MaxSettings, puidCRC : 0..HalfMod - 1]
    /\ puidCRC \in {InitialCRC} \cup ServerCRCs \cup 0..HalfMod - 1
    /\ puidChanged \in BOOLEAN /\ overlap \in BOOLEAN /\ issued \in BOOLEAN

(* A greeting is answered with the settings of the Connect its handle was     *)
(* opened for, or, if settings were set between that Connect and the greeting, *)
(* with those of a later call; no logon, not even one the application sends   *)
(* of its own accord, logs the user on with those of an earlier one.         *)
OwnOrLaterSettings ==
    \A l \in logons :
        /\ l.by >= owner[l.on]
        /\ ~overlap /\ l.kind = "answer" => l.by = owner[l.on]

(* As long as the server only gives back what it got, the checksum changes at *)
(* most once, to the half a logon carries, and a change is reported only for  *)
(* that: none of the later logons and replies brings another.                *)
OneFalseChange ==
    ~issued =>
        /\ puidCRC \in {InitialCRC, InitialCRC % HalfMod}
        /\ puidChanged <=> puidCRC # InitialCRC

-----------------------------------------------------------------------------
(* The inductive invariant behind them.                                      *)

(* Only a handle that stands, or stood, has logons, and by then its owner is   *)
(* settled.                                                                  *)
LogonsCarried == \A l \in logons : Carried(l.on)

(* Nobody is ahead of the settings in the client.                            *)
NoneAhead == (\A c \in pending : c <= settings) /\ \A s \in Sockets : owner[s] <= settings

(* As long as nothing was set too late, whoever is yet to be logged on has    *)
(* the settings that are in the client.                                      *)
InStep ==
    ~overlap =>
        /\ \A c \in pending : c = settings
        /\ \A s \in Sockets : handle[s] = "connecting" => owner[s] = settings
        /\ state = "HANDSHAKING" => owner[socket] = settings

(* The logons carry the lower half of the checksum the client started with.   *)
HalvesOfInitial == ~issued => \A l \in logons : l.puidCRC = InitialCRC % HalfMod

Ledger ==
    /\ LogonTypeOK
    /\ LogonsCarried /\ NoneAhead /\ InStep /\ HalvesOfInitial
    /\ OwnOrLaterSettings /\ OneFalseChange

LogonInv == Inv /\ Ledger
=============================================================================
