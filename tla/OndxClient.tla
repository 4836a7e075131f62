------------------------------ MODULE OndxClient ------------------------------
(***************************************************************************)
(* Commands of the ondx client that run at once, in several terminals      *)
(* (cmd/ondx, internal/cli): they share the profile configuration, the     *)
(* credentials files and the sessions at identity providers, whose token   *)
(* endpoints may replace a refresh token when it is used.                  *)
(*                                                                         *)
(* A file is read in one step.  It is written in two: opening truncates    *)
(* it, and a file that is truncated or half overwritten does not parse.    *)
(* Commands crash, calls are lost, writes fail.                            *)
(***************************************************************************)
EXTENDS Naturals, Sequences

CONSTANTS
    Commands,    \* processes; each runs one command after the other
    Profiles,    \* names of profiles
    Default,     \* the built-in profile
    Paths,       \* credentials files; the default one of a profile has its name
    Clients,     \* client registrations: issuer, endpoints and client id that fit
    BuiltIn,     \* the registration of the built-in profile
    Pinned,      \* the clients that share a fixed callback port
    Rotates,     \* the clients whose refresh tokens are replaced on use
    Settings,    \* the clients that profile set may name in a profile (a bound)
    Told,        \* those that flags and environment may tell a login (a bound)
    MaxTokens,   \* how many logins and replacements of refresh tokens there are (a bound)
    Torn,        \* what a file holds that does not parse
    Nil          \* no file, no value

ASSUME OndxClientAssumption ==
    /\ Default \in Profiles /\ Profiles \subseteq Paths
    /\ BuiltIn \in Clients /\ Pinned \subseteq Clients /\ Rotates \subseteq Clients
    /\ Settings \in [Profiles -> SUBSET (Clients \cup {Nil})] /\ Told \subseteq Clients
    /\ MaxTokens \in Nat
    /\ Nil \notin Nat \cup Clients \cup Profiles \cup Paths /\ Torn \notin Nat

VARIABLES
    config,   \* config.json
    cached,   \* the credentials files
    issued,   \* the logins and the replaced refresh tokens, numbered; of each, the login
              \* it goes back to: its client, its file, whether it brought a refresh token
    live,     \* the refresh tokens the providers accept
    gone,     \* those that expired, or whose successor was lost
    task,     \* of each process, how far its command is
    given     \* history: the clients that each file has been given, by the settings
              \* of its profile or by the flags of a login

vars  == <<config, cached, issued, live, gone, task, given>>
idp   == <<issued, live, gone>>
files == <<config, cached>>

\* A token records its client.  Its access token is known by the number of its login;
\* so is the refresh token that came with the login, and one that replaced another
\* has a number of its own.
NewToken(q, n, refresh) == [client |-> q, access |-> n, refresh |-> refresh]
IsToken(content)        == content \notin {Nil, Torn}

\* The configuration: the current profile, the profiles that are defined, and the
\* client that each one's settings name, if they name one.
DefaultConfig == [current |-> Default, defined |-> {Default},
                  client |-> [p \in Profiles |-> IF p = Default THEN BuiltIn ELSE Nil]]

\* A process: where it is, its command, the client a login is for, the credentials
\* file, what the callback brought, the token it holds, the refresh token it used
\* for that, and the configuration it will write.
Idle == [at |-> "idle", command |-> Nil, client |-> Nil, path |-> Nil, callback |-> Nil,
         token |-> Nil, used |-> Nil, config |-> Nil]

Init ==
    /\ config = Nil
    /\ cached = [f \in Paths |-> Nil]
    /\ issued = <<>> /\ live = {} /\ gone = {}
    /\ task = [c \in Commands |-> Idle]
    /\ given = [f \in Paths |-> IF f = Default THEN {BuiltIn} ELSE {}]

Move(c, t) == task' = [task EXCEPT ![c] = t]

End(c)     == Move(c, Idle)

\* The token in hand is not kept; the refresh token it replaced is gone with it.
Abandon(c) == gone' = IF task[c].used \in live \cup {Nil} THEN gone ELSE gone \cup {task[c].used}

----------------------------------------------------------------------------
(* The configuration.                                                      *)

Load(content) == IF content = Nil THEN DefaultConfig ELSE content

\* profile use: the configuration is loaded, and saved with another current
\* profile.
ProfileUse(c, p) ==
    /\ task[c].at = "idle"
    /\ config # Torn
    /\ p \in Load(config).defined
    /\ Move(c, [Idle EXCEPT !.at = "openConfig", !.config = [Load(config) EXCEPT !.current = p]])
    /\ UNCHANGED <<files, idp, given>>

\* profile set: the profile is created, or the flags that are passed change it; its
\* settings then name client q, another one or the same, or none.  Its credentials
\* file is left alone.
ProfileSet(c, p, q) ==
    /\ task[c].at = "idle"
    /\ config # Torn
    /\ LET cfg == Load(config)
       IN  Move(c, [Idle EXCEPT !.at = "openConfig",
                       !.config = [cfg EXCEPT !.defined = @ \cup {p}, !.client[p] = q]])
    /\ UNCHANGED <<files, idp, given>>

OpenConfig(c) ==
    /\ task[c].at = "openConfig"
    /\ config' = Torn
    /\ Move(c, [task[c] EXCEPT !.at = "writeConfig"])
    /\ UNCHANGED <<cached, idp, given>>

\* The client that a configuration gives the default file of a profile.
Configured(cfg, f) == IF f \in Profiles THEN {cfg.client[f]} \ {Nil} ELSE {}

\* A write may fail half way, or meet another one, and leave a mixture.
WriteConfig(c) ==
    /\ task[c].at = "writeConfig"
    /\ \/ /\ config' = task[c].config
          /\ given' = [f \in Paths |-> given[f] \cup Configured(task[c].config, f)]
       \/ config' = Torn /\ UNCHANGED given
    /\ End(c)
    /\ UNCHANGED <<cached, idp>>

\* The profile of a command: the one it names, or the current one.
ResolveActiveProfile(named) == IF named # Nil THEN named ELSE Load(config).current

\* The file of a command: the one it names, or its profile's own.
FileOf(p, flag) == IF flag # Nil THEN flag ELSE p

\* The client of a login: the one that flags and environment tell it, or its
\* profile's.
ClientOf(p, told) == IF told # Nil THEN told ELSE Load(config).client[p]

\* A login starts, or stops for want of settings.  Told by its flags which client
\* or which file, it gives that file this client.
RunLogin(c, named, told, flag) ==
    /\ task[c].at = "idle" /\ Len(issued) < MaxTokens
    /\ config # Torn
    /\ LET p == ResolveActiveProfile(named)
           q == ClientOf(p, told)
           f == FileOf(p, flag)
       IN  /\ p \in Load(config).defined
           /\ q # Nil
           /\ Move(c, [Idle EXCEPT !.at = "start", !.command = "login", !.client = q, !.path = f])
           /\ given' = IF told = Nil /\ flag = Nil THEN given
                       ELSE [given EXCEPT ![f] = @ \cup {q}]
    /\ UNCHANGED <<files, idp>>

\* Any other command starts.
RunRequest(c, named, flag) ==
    /\ task[c].at = "idle"
    /\ config # Torn
    /\ LET p == ResolveActiveProfile(named)
       IN  /\ p \in Load(config).defined
           /\ Move(c, [Idle EXCEPT !.at = "start", !.command = "request",
                                   !.path = FileOf(p, flag)])
    /\ UNCHANGED <<files, idp, given>>

\* Tokens are kept for the profile that is current when they are.
CurrentPath(c) == IF IsToken(config) THEN config.current ELSE task[c].path

\* The file a command works with was chosen when it started.
CredentialsPath(c) == task[c].path

----------------------------------------------------------------------------
(* Login.                                                                  *)

Listening(c) == task[c].at \in {"await", "exchange", "answer"} /\ task[c].command = "login"

\* The endpoints are discovered and the callback's port is opened.
Listen(c) ==
    /\ task[c].at = "start" /\ task[c].command = "login"
    /\ task[c].client \in Pinned =>
          \A d \in Commands \ {c} : ~(Listening(d) /\ task[d].client \in Pinned)
    /\ Move(c, [task[c] EXCEPT !.at = "await"])
    /\ UNCHANGED <<files, idp, given>>

\* What a request to the callback is worth: an error, a state that is not this
\* login's (of another login, or an old tab), no code, or a code.
CallbackResult(q) ==
    IF q.error \/ ~q.ownState \/ ~q.code THEN "refused" ELSE "code"

CallbackQueries == [error : BOOLEAN, ownState : BOOLEAN, code : BOOLEAN]

\* The first callback counts; later ones change nothing.
Callback(c, q) ==
    /\ task[c].at = "await" /\ task[c].callback = Nil
    /\ Move(c, [task[c] EXCEPT !.callback = CallbackResult(q)])
    /\ UNCHANGED <<files, idp, given>>

TakeCallback(c) ==
    /\ task[c].at = "await" /\ task[c].callback # Nil
    /\ IF task[c].callback = "code" THEN Move(c, [task[c] EXCEPT !.at = "exchange"]) ELSE End(c)
    /\ UNCHANGED <<files, idp, given>>

\* The provider takes the code, with this login's verifier, and starts a session,
\* with a refresh token or without one.
ExchangeCode(c) ==
    /\ task[c].at = "exchange" /\ Len(issued) < MaxTokens
    /\ LET q == task[c].client
           n == Len(issued) + 1
       IN  \E renewable \in BOOLEAN :
              /\ issued' = Append(issued, [client |-> q, path |-> task[c].path,
                                           renewable |-> renewable])
              /\ live' = IF renewable THEN live \cup {n} ELSE live
              /\ Move(c, [task[c] EXCEPT !.at = "answer",
                             !.token = NewToken(q, n, IF renewable THEN n ELSE Nil)])
    /\ UNCHANGED <<files, gone, given>>

----------------------------------------------------------------------------
(* The other commands: a fresh token, then the portal backend.             *)

\* The cached token is loaded; an expired one is refreshed, when it can be.  The
\* clock says whether it has expired, and the clock may also be set back.
LoadToken(c) ==
    LET content == cached[CredentialsPath(c)]
    IN  /\ task[c].at = "start" /\ task[c].command = "request"
        /\ IF ~IsToken(content) THEN End(c)
           ELSE \E expired \in BOOLEAN :
                   IF ~expired THEN Move(c, [task[c] EXCEPT !.at = "send", !.token = content])
                   ELSE IF content.refresh = Nil THEN End(c)
                   ELSE Move(c, [task[c] EXCEPT !.at = "refresh", !.token = content])
        /\ UNCHANGED <<files, idp, given>>

\* The token endpoint and client id that the token records are used, whatever the
\* profile says now; a provider takes refresh tokens that it issued to this client.
\* One that replaces them answers with the successor, another without a refresh
\* token.
RefreshToken(c) ==
    /\ task[c].at = "refresh"
    /\ LET t       == task[c].token
           n       == Len(issued) + 1
           rotates == t.client \in Rotates
       IN  /\ t.refresh \in live /\ issued[t.refresh].client = t.client
           /\ rotates => n <= MaxTokens
           /\ issued' = IF rotates THEN Append(issued, issued[t.refresh]) ELSE issued
           /\ live' = IF rotates THEN (live \ {t.refresh}) \cup {n} ELSE live
           /\ Move(c, [task[c] EXCEPT !.at = "answer", !.used = t.refresh,
                          !.token = NewToken(t.client, t.access, IF rotates THEN n ELSE Nil)])
    /\ UNCHANGED <<files, gone, given>>

\* The refreshed token is what the answer says.
AsAnswered(t) == t.token

\* A refresh that brings no refresh token keeps the one it used.
KeepRefresh(t) ==
    IF t.used # Nil /\ t.token.refresh = Nil THEN [t.token EXCEPT !.refresh = t.used]
    ELSE t.token

\* The answer arrives.
ReceiveToken(c) ==
    /\ task[c].at = "answer"
    /\ Move(c, [task[c] EXCEPT !.at = "openCache", !.token = KeepRefresh(task[c])])
    /\ UNCHANGED <<files, idp, given>>

\* The token is saved.  A login is over then; the other commands go on to the
\* portal backend, even when they could not save.
Saved(c) ==
    IF task[c].command = "login" THEN End(c)
    ELSE Move(c, [task[c] EXCEPT !.at = "send", !.used = Nil])

OpenCache(c) ==
    /\ task[c].at = "openCache"
    /\ cached' = [cached EXCEPT ![CredentialsPath(c)] = Torn]
    /\ Move(c, [task[c] EXCEPT !.at = "writeCache"])
    /\ UNCHANGED <<config, idp, given>>

WriteCache(c) ==
    /\ task[c].at = "writeCache"
    /\ cached' = [cached EXCEPT ![CredentialsPath(c)] = task[c].token]
    /\ Saved(c)
    /\ UNCHANGED <<config, idp, given>>

FailWrite(c) ==
    /\ task[c].at \in {"openCache", "writeCache"}
    /\ Abandon(c)
    /\ IF task[c].at = "writeCache"
       THEN cached' = [cached EXCEPT ![CredentialsPath(c)] = Torn] ELSE UNCHANGED cached
    /\ Saved(c)
    /\ UNCHANGED <<config, issued, live, given>>

\* The portal backend takes the request with its bearer token, or refuses it.
Send(c) ==
    /\ task[c].at = "send"
    /\ End(c)
    /\ UNCHANGED <<files, idp, given>>

----------------------------------------------------------------------------
(* The rest of the world.                                                  *)

\* The command fails or is killed: a call gets no answer or is refused, the
\* port is taken, the login takes too long.
Fail(c) ==
    /\ task[c].at # "idle"
    /\ Abandon(c)
    /\ End(c)
    /\ UNCHANGED <<files, issued, live, given>>

\* No command runs on a configuration that does not parse; the user removes it.
RemoveConfig ==
    /\ config = Torn
    /\ config' = Nil
    /\ UNCHANGED <<cached, idp, task, given>>

EndSession(n) ==
    /\ live' = live \ {n} /\ gone' = gone \cup {n}
    /\ UNCHANGED <<files, issued, task, given>>

Next ==
    \/ \E c \in Commands :
          \/ \E p \in Profiles : ProfileUse(c, p)
          \/ \E p \in Profiles : \E q \in Settings[p] : ProfileSet(c, p, q)
          \/ OpenConfig(c) \/ WriteConfig(c)
          \/ \E named \in Profiles \cup {Nil}, flag \in Paths \cup {Nil} :
                \/ \E told \in Told \cup {Nil} : RunLogin(c, named, told, flag)
                \/ RunRequest(c, named, flag)
          \/ Listen(c) \/ TakeCallback(c) \/ ExchangeCode(c)
          \/ \E q \in CallbackQueries : Callback(c, q)
          \/ LoadToken(c) \/ RefreshToken(c) \/ ReceiveToken(c)
          \/ OpenCache(c) \/ WriteCache(c) \/ FailWrite(c)
          \/ Send(c) \/ Fail(c)
    \/ RemoveConfig
    \/ \E n \in live : EndSession(n)

Spec == Init /\ [][Next]_vars

----------------------------------------------------------------------------
(* Properties.                                                             *)

\* "Switching profiles never reuses another provider's token"
\* (cmd/ondx/README.md:119): what a file keeps, and a command that works with it
\* holds, goes back to a login for this file, at a client that the settings of its
\* profile have named or that a login was told for it (main.go:347-353, 394-397).
\* What another profile names, or becomes while a login waits for the browser, never
\* counts.  After profile set has named another client, the former one's token stays
\* until the next login.
OwnProvidersToken ==
    LET Owned(t, f) == t.client \in given[f] /\ issued[t.access].path = f
    IN  /\ \A f \in Paths : IsToken(cached[f]) => Owned(cached[f], f)
        /\ \A c \in Commands : task[c].token # Nil => Owned(task[c].token, task[c].path)

\* A cached token can be refreshed until its session ends, whatever commands run at
\* once and however its profile's settings change: the provider it records issued
\* its refresh token and still accepts it, or a command is about to save the
\* successor, or the successor was lost on the way.  Only a login that brought no
\* refresh token leaves a token without one (login.go:237-239, 254-258,
\* resolve.go:21-29).
SessionKept ==
    \A f \in Paths : IsToken(cached[f]) =>
        LET t == cached[f]
        IN  IF t.refresh = Nil THEN ~issued[t.access].renewable
            ELSE /\ issued[t.refresh].client = t.client
                 /\ \/ t.refresh \in live \cup gone
                    \/ \E c \in Commands : task[c].used = t.refresh
=============================================================================
