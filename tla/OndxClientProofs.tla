--------------------------- MODULE OndxClientProofs ---------------------------
(***************************************************************************)
(* The two promises of OndxClient for all profiles, credentials files,     *)
(* clients of identity providers and settings, and any number of commands  *)
(* that run at once and of logins.                                         *)
(*                                                                         *)
(* A refresh token is a number, and every number goes back to a login for  *)
(* one file: that is how two files are told apart that hold tokens of the  *)
(* same client.                                                            *)
(***************************************************************************)
EXTENDS OndxClient, TLAPS

Tokens  == [client : Clients, access : Nat, refresh : Nat \cup {Nil}]
Logins  == [client : Clients, path : Paths, renewable : BOOLEAN]
Configs == [current : Profiles, defined : SUBSET Profiles,
            client : [Profiles -> Clients \cup {Nil}]]

Task ==
    [at : {"idle", "openConfig", "writeConfig", "start", "await", "exchange", "refresh",
           "answer", "openCache", "writeCache", "send"},
     command : {"login", "request", Nil}, client : Clients \cup {Nil},
     path : Paths \cup {Nil}, callback : {"refused", "code", Nil},
     token : Tokens \cup {Nil}, used : Nat \cup {Nil}, config : Configs \cup {Nil}]

\* A command that has been given a token it has not saved yet; the refresh
\* token it will save.
Flying(t) == t.at \in {"answer", "openCache", "writeCache"}
Kept(t)   == KeepRefresh(t).refresh

\* A number that was issued to a client, for a file.
IssuedFor(iss, n, q, f) == n \in 1..Len(iss) /\ iss[n].client = q /\ iss[n].path = f

\* A token goes back to a login for a file, at a client the file was given.
Owned(iss, giv, k, f) ==
    k \in Tokens /\ f \in Paths /\ k.client \in giv[f] /\ IssuedFor(iss, k.access, k.client, f)

\* So does its refresh token; only the login can have brought none.
Backed(iss, giv, k, f) ==
    /\ Owned(iss, giv, k, f)
    /\ IF k.refresh = Nil THEN ~iss[k.access].renewable
       ELSE IssuedFor(iss, k.refresh, k.client, f)

\* What a command's record says of itself.
Formed(iss, giv, t) ==
    /\ t.at \in {"start", "await", "exchange", "refresh", "answer", "openCache", "writeCache"} =>
         t.path \in Paths
    /\ t.at \in {"await", "exchange"} \/ (t.at = "start" /\ t.command = "login") =>
         t.client \in Clients /\ t.client \in giv[t.path]
    /\ t.at \in {"openConfig", "writeConfig"} => t.config \in Configs
    /\ t.at \in {"start", "await", "exchange"} => t.used = Nil
    /\ t.token # Nil => Owned(iss, giv, t.token, t.path)
    /\ t.at = "refresh" =>
         /\ Owned(iss, giv, t.token, t.path)
         /\ IssuedFor(iss, t.token.refresh, t.token.client, t.path)
    /\ Flying(t) =>
         /\ t.token \in Tokens /\ Backed(iss, giv, KeepRefresh(t), t.path)
         /\ t.used # Nil => IssuedFor(iss, t.used, t.token.client, t.path)
    /\ t.at \in {"openCache", "writeCache"} => t.token = KeepRefresh(t)

\* The refresh token a command is about to save has not been replaced.
Unspent(t) == Flying(t) /\ Kept(t) # Nil => Kept(t) \in live \cup gone

\* A refresh token that is accepted, or lost, or whose successor is about to
\* be saved.
Accounted(n) == n \in live \cup gone \/ \E c \in Commands : Flying(task[c]) /\ task[c].used = n

\* The clients that the configuration names were given to the profiles' files.
ConfigOK ==
    /\ config \in Configs \cup {Nil, Torn}
    /\ config \notin {Nil, Torn} =>
          \A p \in Profiles : config.client[p] # Nil => config.client[p] \in given[p]
    /\ BuiltIn \in given[Default]

FilesOK ==
    /\ ConfigOK
    /\ given \in [Paths -> SUBSET Clients]
    /\ cached \in [Paths -> Tokens \cup {Nil, Torn}]
    /\ \A f \in Paths : IsToken(cached[f]) =>
          /\ Backed(issued, given, cached[f], f)
          /\ cached[f].refresh # Nil => Accounted(cached[f].refresh)

\* Where a provider replaces refresh tokens, nobody else knows the one a
\* command is about to save, so nobody can use it up before.
Secret(c) ==
    Flying(task[c]) /\ Kept(task[c]) # Nil /\ task[c].token.client \in Rotates =>
        /\ \A f \in Paths : IsToken(cached[f]) => cached[f].refresh # Kept(task[c])
        /\ \A d \in Commands \ {c} :
              /\ task[d].at = "refresh" => task[d].token.refresh # Kept(task[c])
              /\ Flying(task[d]) => Kept(task[d]) # Kept(task[c])

CommandsOK ==
    /\ task \in [Commands -> Task]
    /\ \A c \in Commands : Formed(issued, given, task[c]) /\ Unspent(task[c]) /\ Secret(c)

IInv ==
    /\ issued \in Seq(Logins)
    /\ FilesOK /\ CommandsOK

(***************************************************************************)
(* A step that issues no token.                                            *)
(***************************************************************************)

\* What is known of one command.
LEMMA OfCommand ==
  ASSUME IInv, NEW c \in Commands
  PROVE  /\ task[c] \in Task /\ Formed(issued, given, task[c]) /\ Unspent(task[c]) /\ Secret(c)
         /\ issued \in Seq(Logins) /\ Len(issued) \in Nat /\ Nil \notin Nat
BY OndxClientAssumption DEF IInv, CommandsOK, OndxClientAssumption

\* A record stays what it says of itself when tokens are issued and files are
\* given clients.
LEMMA FormedGrows ==
  ASSUME NEW iss, NEW iss2, NEW giv, NEW giv2, NEW t, Formed(iss, giv, t),
         \A n \in 1..Len(iss) : n \in 1..Len(iss2) /\ iss2[n] = iss[n],
         \A f \in Paths : giv[f] \subseteq giv2[f]
  PROVE  Formed(iss2, giv2, t)
<1>1. \A k, f : Owned(iss, giv, k, f) => Owned(iss2, giv2, k, f)
  BY DEF Owned, IssuedFor
<1>2. \A n, q, f : IssuedFor(iss, n, q, f) => IssuedFor(iss2, n, q, f)
  BY DEF IssuedFor
<1>3. \A k, f : Backed(iss, giv, k, f) => Backed(iss2, giv2, k, f)
  BY <1>1, <1>2 DEF Backed, Owned, IssuedFor
<1> QED
  BY <1>1, <1>2, <1>3 DEF Formed

\* What the files hold.
LEMMA OfFiles ==
  ASSUME IInv
  PROVE  /\ ConfigOK
         /\ given \in [Paths -> SUBSET Clients]
         /\ cached \in [Paths -> Tokens \cup {Nil, Torn}]
         /\ \A f \in Paths : IsToken(cached[f]) =>
               /\ cached[f] \in Tokens /\ Backed(issued, given, cached[f], f)
               /\ cached[f].refresh # Nil =>
                    /\ IssuedFor(issued, cached[f].refresh, cached[f].client, f)
                    /\ Accounted(cached[f].refresh)
BY DEF IInv, FilesOK, Backed, Owned

\* A configuration that is loaded names clients that were given.
LEMMA OfConfiguration ==
  ASSUME IInv, config # Torn
  PROVE  /\ Load(config) \in Configs
         /\ \A p \in Profiles : Load(config).client[p] # Nil =>
               Load(config).client[p] \in Clients /\ Load(config).client[p] \in given[p]
<1>1. /\ DefaultConfig \in Configs
      /\ \A p \in Profiles : DefaultConfig.client[p] # Nil => DefaultConfig.client[p] = BuiltIn
                                                              /\ p = Default
  BY OndxClientAssumption DEF OndxClientAssumption, DefaultConfig, Configs
<1> HIDE DEF DefaultConfig
<1>2. ConfigOK
  BY OfFiles
<1>3. CASE config = Nil
  BY <1>1, <1>2, <1>3, OndxClientAssumption DEF ConfigOK, Load, OndxClientAssumption
<1>4. CASE config # Nil
  BY <1>2, <1>4 DEF ConfigOK, Load, Configs
<1> QED
  BY <1>3, <1>4

\* A command moves on, perhaps with a token it has loaded, or still with the
\* token it was given; a refresh token it used is not forgotten unless it is
\* accounted for; files lose tokens and gain none.
LEMMA Turn ==
  ASSUME IInv, NEW c \in Commands, NEW u \in Task, Move(c, u),
         issued' = issued, live \cup gone \subseteq live' \cup gone',
         ConfigOK', given' \in [Paths -> SUBSET Clients],
         \A f \in Paths : given[f] \subseteq given'[f],
         cached' \in [Paths -> Tokens \cup {Nil, Torn}],
         \A f \in Paths : IsToken(cached'[f]) => cached'[f] = cached[f],
         Formed(issued, given', u),
         u.at = "refresh" => \E f \in Paths : IsToken(cached[f]) /\ cached[f] = u.token,
         Flying(u) => /\ Flying(task[c]) /\ Kept(u) = Kept(task[c])
                      /\ u.used = task[c].used /\ u.token.client = task[c].token.client,
         Flying(task[c]) =>
            Flying(u) \/ \A f \in Paths : IsToken(cached'[f]) /\ cached'[f].refresh # Nil =>
                            \/ cached'[f].refresh # task[c].used
                            \/ task[c].used \in live' \cup gone'
  PROVE  IInv'
<1>1. /\ task \in [Commands -> Task] /\ issued \in Seq(Logins)
      /\ cached \in [Paths -> Tokens \cup {Nil, Torn}]
  BY DEF IInv, CommandsOK, FilesOK
<1>2. /\ task' \in [Commands -> Task]
      /\ \A d \in Commands : task'[d] = IF d = c THEN u ELSE task[d]
  BY <1>1 DEF Move
<1>3. ASSUME NEW d \in Commands
      PROVE  /\ task'[d] \in Task /\ Formed(issued, given', task'[d]) /\ Unspent(task'[d])
             /\ Flying(task'[d]) =>
                  /\ Flying(task[d]) /\ Kept(task'[d]) = Kept(task[d])
                  /\ task'[d].used = task[d].used
                  /\ task'[d].token.client = task[d].token.client
  <2>1. CASE d = c
    <3>1. Unspent(task[c])
      BY OfCommand
    <3> QED
      BY <1>2, <2>1, <3>1 DEF Unspent
  <2>2. CASE d # c
    <3>1. Formed(issued, given, task[d]) /\ task'[d] = task[d] /\ Unspent(task[d])
      BY <1>2, <2>2, OfCommand
    <3>2. Formed(issued, given', task[d])
      BY <3>1, FormedGrows
    <3> QED
      BY <1>2, <3>1, <3>2
  <2> QED
    BY <2>1, <2>2
<1>4. ASSUME NEW f \in Paths, IsToken(cached'[f])
      PROVE  /\ IsToken(cached[f]) /\ cached'[f] = cached[f]
             /\ Backed(issued, given', cached[f], f)
             /\ cached[f].refresh # Nil => (Accounted(cached[f].refresh))'
  <2>1. /\ IsToken(cached[f]) /\ cached'[f] = cached[f]
        /\ Backed(issued, given, cached[f], f)
        /\ cached[f].refresh # Nil => Accounted(cached[f].refresh)
    BY <1>4, OfFiles
  <2>2. Backed(issued, given', cached[f], f)
    BY <2>1 DEF Backed, Owned
  <2> DEFINE n == cached[f].refresh
  <2>3. CASE n = Nil
    BY <2>1, <2>2, <2>3
  <2>4. CASE n # Nil /\ n \in live \cup gone
    BY <2>1, <2>2, <2>4 DEF Accounted
  <2>5. CASE n # Nil /\ \E d \in Commands : Flying(task[d]) /\ task[d].used = n
    <3>1. PICK d \in Commands : Flying(task[d]) /\ task[d].used = n
      BY <2>5
    <3>2. CASE Flying(task'[d])
      <4>1. Flying(task'[d]) /\ task'[d].used = n
        BY <1>3, <3>1, <3>2
      <4> QED
        BY <2>1, <2>2, <4>1 DEF Accounted, Flying
    <3>3. CASE ~Flying(task'[d])
      <4>1. d = c /\ ~Flying(u)
        BY <1>2, <3>1, <3>3
      <4>2. n \in live' \cup gone'
        BY <1>4, <2>1, <2>5, <3>1, <4>1
      <4> QED
        BY <2>1, <2>2, <4>2 DEF Accounted
    <3> QED
      BY <3>2, <3>3
  <2> QED
    BY <2>1, <2>3, <2>4, <2>5 DEF Accounted
<1>5. FilesOK'
  BY <1>4 DEF FilesOK
<1>6. ASSUME NEW d \in Commands
      PROVE  (Formed(issued, given, task[d]) /\ Unspent(task[d]))'
  <2>1. Formed(issued', given', task'[d]) /\ Unspent(task'[d])
    BY <1>3
  <2> QED
    BY <2>1 DEF Unspent, Flying, Kept, KeepRefresh
<1>7. ASSUME NEW d \in Commands, Flying(task'[d]), Kept(task'[d]) # Nil,
             task'[d].token.client \in Rotates
      PROVE  /\ \A f \in Paths : IsToken(cached'[f]) => cached'[f].refresh # Kept(task'[d])
             /\ \A e \in Commands \ {d} :
                   /\ task'[e].at = "refresh" => task'[e].token.refresh # Kept(task'[d])
                   /\ Flying(task'[e]) => Kept(task'[e]) # Kept(task'[d])
  <2>1. /\ Flying(task[d]) /\ task[d].token.client \in Rotates /\ Kept(task'[d]) = Kept(task[d])
    BY <1>3, <1>7
  <2>2. /\ \A f \in Paths : IsToken(cached[f]) => cached[f].refresh # Kept(task[d])
        /\ \A e \in Commands \ {d} :
              /\ task[e].at = "refresh" => task[e].token.refresh # Kept(task[d])
              /\ Flying(task[e]) => Kept(task[e]) # Kept(task[d])
    BY <1>7, <2>1, OfCommand DEF Secret
  <2>3. \A f \in Paths : IsToken(cached'[f]) => cached'[f].refresh # Kept(task'[d])
    BY <1>4, <2>1, <2>2
  <2>4. ASSUME NEW e \in Commands \ {d}, task'[e].at = "refresh"
        PROVE  task'[e].token.refresh # Kept(task'[d])
    <3>1. CASE e = c
      <4>1. PICK f \in Paths : IsToken(cached[f]) /\ cached[f] = u.token
        BY <1>2, <2>4, <3>1
      <4> QED
        BY <1>2, <2>1, <2>2, <3>1, <4>1
    <3>2. CASE e # c
      BY <1>2, <2>1, <2>2, <2>4, <3>2
    <3> QED
      BY <3>1, <3>2
  <2>5. \A e \in Commands \ {d} : Flying(task'[e]) => Kept(task'[e]) # Kept(task'[d])
    BY <1>3, <2>1, <2>2
  <2> QED
    BY <2>3, <2>4, <2>5
<1>8. \A d \in Commands : Secret(d)'
  BY <1>7 DEF Secret, Flying, Kept, KeepRefresh
<1> QED
  BY <1>1, <1>2, <1>5, <1>6, <1>8 DEF IInv, CommandsOK

\* A command without a token in flight moves on, and no file changes but the
\* configuration.
LEMMA QuietTurn ==
  ASSUME IInv, NEW c \in Commands, NEW u \in Task, Move(c, u),
         UNCHANGED <<cached, idp>>, ConfigOK', given' \in [Paths -> SUBSET Clients],
         \A f \in Paths : given[f] \subseteq given'[f],
         Formed(issued, given', u), ~Flying(u), u.at # "refresh", ~Flying(task[c])
  PROVE  IInv'
<1>1. /\ issued' = issued /\ live \cup gone \subseteq live' \cup gone'
      /\ cached' \in [Paths -> Tokens \cup {Nil, Torn}]
      /\ \A f \in Paths : IsToken(cached'[f]) => cached'[f] = cached[f]
  BY OfFiles DEF idp
<1> QED
  BY <1>1, Turn

\* A process without a command holds nothing.
LEMMA IdleType == Idle \in Task /\ ~Flying(Idle) /\ Idle.at # "refresh"
                  /\ \A iss, giv : Formed(iss, giv, Idle)
BY DEF Idle, Task, Flying, Formed

\* A step that leaves the configuration alone, or only removes or tears it.
LEMMA ConfigKept ==
  ASSUME IInv, config' \in {config, Nil, Torn}, given' \in [Paths -> SUBSET Clients],
         \A f \in Paths : given[f] \subseteq given'[f]
  PROVE  ConfigOK'
<1>1. ConfigOK
  BY OfFiles
<1> QED
  BY <1>1, OndxClientAssumption DEF ConfigOK, OndxClientAssumption

LEMMA ConfigurationOK ==
  ASSUME IInv, NEW c \in Commands,
         \/ \E p \in Profiles : ProfileUse(c, p)
         \/ \E p \in Profiles : \E q \in Settings[p] : ProfileSet(c, p, q)
         \/ OpenConfig(c) \/ WriteConfig(c)
  PROVE  IInv'
<1>1. /\ task[c] \in Task /\ Formed(issued, given, task[c])
      /\ config # Torn => Load(config) \in Configs
      /\ given \in [Paths -> SUBSET Clients] /\ Idle \in Task
  BY OfCommand, OfFiles, OfConfiguration, IdleType
<1>2. ASSUME NEW cfg \in Configs, task[c].at = "idle",
             Move(c, [Idle EXCEPT !.at = "openConfig", !.config = cfg]),
             UNCHANGED <<files, idp, given>>
      PROVE  IInv'
  <2> DEFINE u == [Idle EXCEPT !.at = "openConfig", !.config = cfg]
  <2>1. u \in Task /\ u.at = "openConfig" /\ u.config = cfg /\ u.token = Nil
    BY <1>1 DEF Task, Idle
  <2>2. Move(c, u) /\ UNCHANGED <<cached, idp, given>> /\ config' = config
    BY <1>2 DEF files
  <2> HIDE DEF u
  <2>3. Formed(issued, given', u) /\ ~Flying(u) /\ ~Flying(task[c])
    BY <1>2, <2>1 DEF Formed, Flying
  <2>4. ConfigOK'
    BY <1>1, <2>2, ConfigKept
  <2> QED
    BY <1>1, <2>1, <2>2, <2>3, <2>4, QuietTurn
<1>3. ASSUME NEW p \in Profiles, ProfileUse(c, p) PROVE IInv'
  <2> DEFINE cfg == Load(config)
             new == [cfg EXCEPT !.current = p]
  <2>1. /\ task[c].at = "idle" /\ cfg \in Configs
        /\ Move(c, [Idle EXCEPT !.at = "openConfig", !.config = new])
        /\ UNCHANGED <<files, idp, given>>
    BY <1>1, <1>3 DEF ProfileUse
  <2> HIDE DEF cfg
  <2>2. new \in Configs
    BY <2>1 DEF Configs
  <2> QED
    BY <1>2, <2>1, <2>2
<1>4. ASSUME NEW p \in Profiles, NEW q \in Settings[p], ProfileSet(c, p, q) PROVE IInv'
  <2> DEFINE cfg == Load(config)
             new == [cfg EXCEPT !.defined = @ \cup {p}, !.client[p] = q]
  <2>1. /\ task[c].at = "idle" /\ cfg \in Configs
        /\ Move(c, [Idle EXCEPT !.at = "openConfig", !.config = new])
        /\ UNCHANGED <<files, idp, given>>
    BY <1>1, <1>4 DEF ProfileSet
  <2> HIDE DEF cfg
  <2>2. q \in Clients \cup {Nil}
    BY OndxClientAssumption DEF OndxClientAssumption
  <2>3. new \in Configs
    BY <2>1, <2>2 DEF Configs
  <2> QED
    BY <1>2, <2>1, <2>3
<1>5. ASSUME OpenConfig(c) PROVE IInv'
  <2> DEFINE t == task[c]
             u == [t EXCEPT !.at = "writeConfig"]
  <2>1. /\ t.at = "openConfig" /\ Move(c, u) /\ config' = Torn /\ UNCHANGED <<cached, idp, given>>
    BY <1>5 DEF OpenConfig
  <2>2. ConfigOK'
    BY <1>1, <2>1, ConfigKept
  <2>3. /\ u \in Task /\ u.at = "writeConfig" /\ u.config = t.config /\ u.token = t.token
        /\ u.path = t.path
    BY <1>1 DEF Task
  <2>4. t \in Task /\ Formed(issued, given, t)
    BY <1>1
  <2> HIDE DEF t, u
  <2>5. Formed(issued, given', u) /\ ~Flying(u) /\ ~Flying(t)
    BY <2>1, <2>3, <2>4 DEF Formed, Flying
  <2> QED
    BY <1>1, <2>1, <2>2, <2>3, <2>5, QuietTurn DEF t
<1>6. ASSUME WriteConfig(c) PROVE IInv'
  <2> DEFINE cfg == task[c].config
  <2>1. /\ task[c].at = "writeConfig" /\ Move(c, Idle) /\ UNCHANGED <<cached, idp>>
        /\ \/ /\ config' = cfg
              /\ given' = [f \in Paths |-> given[f] \cup Configured(cfg, f)]
           \/ config' = Torn /\ UNCHANGED given
    BY <1>6 DEF WriteConfig, End
  <2>2. cfg \in Configs /\ ~Flying(task[c])
    BY <1>1, <2>1 DEF Formed, Flying
  <2> HIDE DEF cfg
  <2>3. \A f : Configured(cfg, f) \subseteq Clients
    BY <2>2 DEF Configured, Configs
  <2>4. /\ given' \in [Paths -> SUBSET Clients]
        /\ \A f \in Paths : given[f] \subseteq given'[f]
    BY <1>1, <2>1, <2>3
  <2>5. ConfigOK'
    <3>1. CASE config' = Torn
      BY <2>4, <3>1, ConfigKept
    <3>2. CASE config' = cfg /\ given' = [f \in Paths |-> given[f] \cup Configured(cfg, f)]
      <4>1. \A p \in Profiles : cfg.client[p] # Nil => cfg.client[p] \in given'[p]
        BY <3>2, OndxClientAssumption DEF Configured, OndxClientAssumption
      <4>2. BuiltIn \in given'[Default]
        BY <2>4, OfFiles, OndxClientAssumption DEF ConfigOK, OndxClientAssumption
      <4> QED
        BY <2>2, <3>2, <4>1, <4>2 DEF ConfigOK
    <3> QED
      BY <2>1, <3>1, <3>2
  <2>6. Formed(issued, given', Idle)
    BY IdleType
  <2> QED
    BY <2>1, <2>2, <2>4, <2>5, <2>6, IdleType, QuietTurn
<1> QED
  BY <1>3, <1>4, <1>5, <1>6

\* A command starts with a file of its own, a login with a client that the file
\* was given.
LEMMA ResolveOK ==
  ASSUME IInv, NEW c \in Commands,
         NEW named \in Profiles \cup {Nil}, NEW flag \in Paths \cup {Nil},
         \/ \E told \in Told \cup {Nil} : RunLogin(c, named, told, flag)
         \/ RunRequest(c, named, flag)
  PROVE  IInv'
<1> DEFINE p == ResolveActiveProfile(named)
           f == FileOf(p, flag)
<1>1. task[c].at = "idle" /\ config # Torn /\ UNCHANGED <<files, idp>>
  BY DEF RunLogin, RunRequest
<1>2. /\ Load(config) \in Configs /\ Idle \in Task
      /\ \A r \in Profiles : Load(config).client[r] # Nil =>
            Load(config).client[r] \in Clients /\ Load(config).client[r] \in given[r]
      /\ given \in [Paths -> SUBSET Clients]
  BY <1>1, OfFiles, OfConfiguration, IdleType
<1>3. p \in Profiles
  BY <1>2 DEF ResolveActiveProfile, Configs
<1>4. f \in Paths /\ (flag = Nil => f = p)
  BY <1>3, OndxClientAssumption DEF FileOf, OndxClientAssumption
<1>5. ASSUME NEW u \in Task, Move(c, u), u.at = "start", u.token = Nil, u.path = f, u.used = Nil,
             u.command = "login" => u.client \in Clients /\ u.client \in given'[f],
             given' \in [Paths -> SUBSET Clients], \A g \in Paths : given[g] \subseteq given'[g]
      PROVE  IInv'
  <2>1. Formed(issued, given', u) /\ ~Flying(u) /\ ~Flying(task[c])
    BY <1>1, <1>4, <1>5 DEF Formed, Flying
  <2>2. UNCHANGED <<cached, idp>> /\ config' = config
    BY <1>1 DEF files
  <2>3. ConfigOK'
    BY <1>5, <2>2, ConfigKept
  <2> QED
    BY <1>5, <2>1, <2>2, <2>3, QuietTurn
<1>6. ASSUME NEW told \in Told \cup {Nil}, RunLogin(c, named, told, flag) PROVE IInv'
  <2> DEFINE q == ClientOf(p, told)
             u == [Idle EXCEPT !.at = "start", !.command = "login", !.client = q, !.path = f]
  <2>1. /\ q # Nil /\ Move(c, u)
        /\ given' = IF told = Nil /\ flag = Nil THEN given ELSE [given EXCEPT ![f] = @ \cup {q}]
    BY <1>6 DEF RunLogin
  <2>2. q \in Clients /\ (told = Nil => q \in given[p])
    BY <1>2, <1>3, <2>1, OndxClientAssumption DEF ClientOf, OndxClientAssumption
  <2> HIDE DEF q, p, f
  <2>3. /\ given' \in [Paths -> SUBSET Clients] /\ q \in given'[f]
        /\ \A g \in Paths : given[g] \subseteq given'[g]
    BY <1>2, <1>4, <2>1, <2>2
  <2>4. /\ u \in Task /\ u.at = "start" /\ u.token = Nil /\ u.path = f /\ u.used = Nil
        /\ u.client = q
    BY <1>2, <1>4, <2>2 DEF Task, Idle
  <2> HIDE DEF u
  <2> QED
    BY <1>5, <2>1, <2>2, <2>3, <2>4
<1>7. ASSUME RunRequest(c, named, flag) PROVE IInv'
  <2> DEFINE u == [Idle EXCEPT !.at = "start", !.command = "request", !.path = f]
  <2>1. Move(c, u) /\ given' = given
    BY <1>7 DEF RunRequest
  <2> HIDE DEF p, f
  <2>2. /\ u \in Task /\ u.at = "start" /\ u.token = Nil /\ u.path = f /\ u.used = Nil
        /\ u.command = "request"
    BY <1>2, <1>4 DEF Task, Idle
  <2> HIDE DEF u
  <2> QED
    BY <1>2, <1>5, <2>1, <2>2
<1> QED
  BY <1>6, <1>7

\* A login before it has a token: it waits for its callback and takes it.
LEMMA LoginOK ==
  ASSUME IInv, NEW c \in Commands,
         \/ Listen(c) \/ TakeCallback(c)
         \/ \E q \in CallbackQueries : Callback(c, q)
  PROVE  IInv'
<1> DEFINE t == task[c]
<1>1. /\ t \in Task /\ Formed(issued, given, t) /\ given \in [Paths -> SUBSET Clients]
  BY OfCommand, OfFiles
<1>2. /\ t.at = "await" \/ (t.at = "start" /\ t.command = "login")
      /\ UNCHANGED <<files, idp, given>>
      /\ \/ Move(c, [t EXCEPT !.at = "await"])
         \/ Move(c, [t EXCEPT !.at = "exchange"])
         \/ \E q \in CallbackQueries :
               t.at = "await" /\ Move(c, [t EXCEPT !.callback = CallbackResult(q)])
         \/ Move(c, Idle)
  BY DEF Listen, TakeCallback, Callback, End
<1>3. UNCHANGED <<cached, idp, given>> /\ config' = config
  BY <1>2 DEF files
<1>4. ConfigOK'
  BY <1>1, <1>3, ConfigKept
<1> HIDE DEF t
<1>5. ASSUME NEW u \in Task, Move(c, u), u.at \in {"await", "exchange"},
             u.token = t.token, u.path = t.path, u.client = t.client, u.used = t.used
      PROVE  IInv'
  <2>1. Formed(issued, given', u) /\ ~Flying(u) /\ ~Flying(t)
    BY <1>1, <1>2, <1>3, <1>5 DEF Formed, Flying
  <2> QED
    BY <1>1, <1>3, <1>4, <1>5, <2>1, QuietTurn DEF t
<1>6. ASSUME NEW at \in {"await", "exchange"}, Move(c, [t EXCEPT !.at = at])
      PROVE  IInv'
  <2> DEFINE u == [t EXCEPT !.at = at]
  <2>1. u \in Task /\ u.at = at /\ u.token = t.token /\ u.path = t.path /\ u.client = t.client
        /\ u.used = t.used
    BY <1>1 DEF Task
  <2> QED
    BY <1>5, <1>6, <2>1
<1>7. ASSUME NEW q \in CallbackQueries, t.at = "await",
             Move(c, [t EXCEPT !.callback = CallbackResult(q)])
      PROVE  IInv'
  <2> DEFINE u == [t EXCEPT !.callback = CallbackResult(q)]
  <2>1. CallbackResult(q) \in {"refused", "code"}
    BY DEF CallbackResult
  <2>2. u \in Task /\ u.at = t.at /\ u.token = t.token /\ u.path = t.path
        /\ u.client = t.client /\ u.used = t.used
    BY <1>1, <2>1 DEF Task
  <2> QED
    BY <1>5, <1>7, <2>2
<1>8. ASSUME Move(c, Idle) PROVE IInv'
  BY <1>1, <1>2, <1>3, <1>4, <1>8, IdleType, QuietTurn DEF Flying, t
<1> QED
  BY <1>2, <1>6, <1>7, <1>8

\* The token of a file is held, and refreshed when it can be.
LEMMA LoadTokenOK ==
  ASSUME IInv, NEW c \in Commands, LoadToken(c)
  PROVE  IInv'
<1> DEFINE t        == task[c]
           f        == t.path
           content  == cached[f]
           held(at) == [t EXCEPT !.at = at, !.token = content]
<1>1. /\ t \in Task /\ Formed(issued, given, t) /\ given \in [Paths -> SUBSET Clients]
  BY OfCommand, OfFiles
<1>2. /\ t.at = "start" /\ UNCHANGED <<files, idp, given>>
      /\ \/ Move(c, Idle)
         \/ IsToken(content) /\ Move(c, held("send"))
         \/ IsToken(content) /\ content.refresh # Nil /\ Move(c, held("refresh"))
  BY DEF LoadToken, CredentialsPath, End
<1>3. f \in Paths /\ ~Flying(t)
  BY <1>1, <1>2 DEF Formed, Flying
<1>4. UNCHANGED <<cached, idp, given>> /\ config' = config
  BY <1>2 DEF files
<1>5. IsToken(content) =>
         /\ content \in Tokens /\ Owned(issued, given, content, f)
         /\ content.refresh # Nil => IssuedFor(issued, content.refresh, content.client, f)
  BY <1>3, OfFiles DEF Backed
<1>6. /\ issued' = issued /\ live \cup gone \subseteq live' \cup gone'
      /\ cached' \in [Paths -> Tokens \cup {Nil, Torn}]
      /\ \A g \in Paths : IsToken(cached'[g]) => cached'[g] = cached[g]
      /\ ConfigOK'
  BY <1>1, <1>4, OfFiles, ConfigKept DEF idp
<1> HIDE DEF f, content
<1>7. CASE Move(c, Idle)
  BY <1>1, <1>3, <1>4, <1>6, <1>7, IdleType, QuietTurn
<1>8. ASSUME NEW at \in {"send", "refresh"}, IsToken(content), Move(c, held(at)),
             at = "refresh" => content.refresh # Nil
      PROVE  IInv'
  <2> DEFINE u == held(at)
  <2> HIDE DEF t
  <2>1. u \in Task /\ u.at = at /\ u.token = content /\ u.path = t.path
    BY <1>1, <1>5, <1>8 DEF Task
  <2>2. Move(c, u)
    BY <1>8
  <2> HIDE DEF u, held
  <2>3. Formed(issued, given', u) /\ ~Flying(u)
    BY <1>3, <1>4, <1>5, <1>8, <2>1 DEF Formed, Flying, f
  <2>4. u.at = "refresh" => \E g \in Paths : IsToken(cached[g]) /\ cached[g] = u.token
    BY <1>3, <1>8, <2>1 DEF content
  <2> QED
    BY <1>1, <1>3, <1>4, <1>6, <2>1, <2>2, <2>3, <2>4, Turn DEF t
<1> QED
  BY <1>2, <1>7, <1>8

\* What a command will save is settled when the answer arrives.
LEMMA KeptType ==
  ASSUME NEW t \in Task, t.token \in Tokens, Nil \notin Nat
  PROVE  /\ KeepRefresh(t) \in Tokens
         /\ KeepRefresh(t).client = t.token.client /\ KeepRefresh(t).access = t.token.access
         /\ KeepRefresh(t).refresh = IF t.used # Nil /\ t.token.refresh = Nil THEN t.used
                                     ELSE t.token.refresh
BY DEF KeepRefresh, Tokens, Task

LEMMA ReceiveTokenOK ==
  ASSUME IInv, NEW c \in Commands, ReceiveToken(c)
  PROVE  IInv'
<1> DEFINE t == task[c]
           k == KeepRefresh(t)
           u == [t EXCEPT !.at = "openCache", !.token = k]
<1>1. /\ t \in Task /\ Formed(issued, given, t) /\ Nil \notin Nat
      /\ given \in [Paths -> SUBSET Clients]
  BY OfCommand, OfFiles
<1>2. t.at = "answer" /\ UNCHANGED <<files, idp, given>> /\ Move(c, u)
  BY DEF ReceiveToken
<1>3. /\ issued' = issued /\ live \cup gone \subseteq live' \cup gone'
      /\ given' = given /\ config' = config
      /\ cached' \in [Paths -> Tokens \cup {Nil, Torn}]
      /\ \A g \in Paths : IsToken(cached'[g]) => cached'[g] = cached[g]
  BY <1>2, OfFiles DEF files, idp
<1>4. ConfigOK'
  BY <1>1, <1>3, ConfigKept
<1> HIDE DEF t
<1>5. /\ t.token \in Tokens /\ Flying(t) /\ t.path \in Paths
      /\ Backed(issued, given, k, t.path)
      /\ t.used # Nil => IssuedFor(issued, t.used, t.token.client, t.path)
  BY <1>1, <1>2 DEF Formed, Flying
<1>6. /\ k \in Tokens /\ k.client = t.token.client
      /\ k.refresh = IF t.used # Nil /\ t.token.refresh = Nil THEN t.used ELSE t.token.refresh
  BY <1>1, <1>5, KeptType
<1> HIDE DEF k
<1>7. /\ u \in Task /\ u.at = "openCache" /\ u.token = k /\ u.path = t.path
      /\ u.used = t.used
  BY <1>1, <1>6 DEF Task
<1> HIDE DEF u
<1>8. KeepRefresh(u) = k
  BY <1>6, <1>7 DEF KeepRefresh
<1>9. Kept(u) = Kept(t) /\ Flying(u) /\ u.at # "refresh"
  BY <1>7, <1>8 DEF Kept, Flying, k
<1>10. Formed(issued, given', u)
  BY <1>3, <1>5, <1>6, <1>7, <1>8 DEF Formed, Flying, Backed
<1> QED
  BY <1>1, <1>2, <1>3, <1>4, <1>5, <1>6, <1>7, <1>9, <1>10, Turn DEF t

\* A file is truncated; the command still has the token to write.
LEMMA OpenCacheOK ==
  ASSUME IInv, NEW c \in Commands, OpenCache(c)
  PROVE  IInv'
<1> DEFINE t == task[c]
           u == [t EXCEPT !.at = "writeCache"]
<1>1. /\ t \in Task /\ Formed(issued, given, t) /\ given \in [Paths -> SUBSET Clients]
  BY OfCommand, OfFiles
<1>2. /\ t.at = "openCache" /\ UNCHANGED <<config, idp, given>> /\ Move(c, u)
      /\ cached' = [cached EXCEPT ![t.path] = Torn]
  BY DEF OpenCache, CredentialsPath
<1>3. /\ issued' = issued /\ live \cup gone \subseteq live' \cup gone'
      /\ cached' \in [Paths -> Tokens \cup {Nil, Torn}]
      /\ \A g \in Paths : IsToken(cached'[g]) => cached'[g] = cached[g]
  BY <1>2, OfFiles DEF idp, IsToken
<1>4. ConfigOK'
  BY <1>1, <1>2, ConfigKept
<1> HIDE DEF t
<1>5. /\ u \in Task /\ u.at = "writeCache" /\ u.token = t.token /\ u.path = t.path
      /\ u.used = t.used
  BY <1>1 DEF Task
<1> HIDE DEF u
<1>6. Flying(u) /\ Flying(t) /\ u.at # "refresh" /\ KeepRefresh(u) = KeepRefresh(t)
  BY <1>2, <1>5 DEF Flying, KeepRefresh
<1>7. Formed(issued, given', u)
  BY <1>1, <1>2, <1>5, <1>6 DEF Formed
<1>8. Kept(u) = Kept(t)
  BY <1>6 DEF Kept
<1> QED
  BY <1>1, <1>2, <1>3, <1>4, <1>5, <1>6, <1>7, <1>8, Turn DEF t

\* A command that gives its token up, or that has none, ends or goes on; the
\* refresh token it used is accounted for.
LEMMA AbandonOK ==
  ASSUME IInv, NEW c \in Commands, NEW u \in Task, Move(c, u),
         Formed(issued, given, u), ~Flying(u), u.at # "refresh",
         Abandon(c), UNCHANGED <<config, issued, live, given>>,
         cached' \in [Paths -> Tokens \cup {Nil, Torn}],
         \A f \in Paths : IsToken(cached'[f]) => cached'[f] = cached[f]
  PROVE  IInv'
<1>1. /\ live \cup gone \subseteq live' \cup gone'
      /\ task[c].used = Nil \/ task[c].used \in live' \cup gone'
  BY DEF Abandon
<1>2. /\ given' \in [Paths -> SUBSET Clients]
      /\ \A f \in Paths : given[f] \subseteq given'[f]
  BY OfFiles
<1>3. ConfigOK'
  BY <1>2, ConfigKept
<1> QED
  BY <1>1, <1>2, <1>3, Turn

\* What a command goes on with after its write, whether it worked or not.
LEMMA SavedType ==
  ASSUME IInv, NEW c \in Commands, Saved(c), Flying(task[c])
  PROVE  \E u \in Task : Move(c, u) /\ Formed(issued, given, u) /\ ~Flying(u) /\ u.at # "refresh"
<1> DEFINE t == task[c]
           u == [t EXCEPT !.at = "send", !.used = Nil]
<1>1. t \in Task /\ Formed(issued, given, t)
  BY OfCommand
<1>2. Move(c, Idle) \/ Move(c, u)
  BY DEF Saved, End
<1> HIDE DEF t
<1>3. u \in Task /\ u.at = "send" /\ u.token = t.token /\ u.path = t.path
  BY <1>1 DEF Task
<1> HIDE DEF u
<1>4. Formed(issued, given, u) /\ ~Flying(u)
  BY <1>1, <1>3 DEF Formed, Flying
<1> QED
  BY <1>2, <1>3, <1>4, IdleType

LEMMA FailWriteOK ==
  ASSUME IInv, NEW c \in Commands, FailWrite(c)
  PROVE  IInv'
<1>1. /\ Flying(task[c]) /\ Abandon(c) /\ Saved(c) /\ UNCHANGED <<config, issued, live, given>>
      /\ cached' = cached \/ cached' = [cached EXCEPT ![task[c].path] = Torn]
  BY DEF FailWrite, Flying, CredentialsPath
<1>2. /\ cached' \in [Paths -> Tokens \cup {Nil, Torn}]
      /\ \A f \in Paths : IsToken(cached'[f]) => cached'[f] = cached[f]
  BY <1>1, OfFiles DEF IsToken
<1>3. PICK u \in Task :
         Move(c, u) /\ Formed(issued, given, u) /\ ~Flying(u) /\ u.at # "refresh"
  BY <1>1, SavedType
<1> QED
  BY <1>1, <1>2, <1>3, AbandonOK

LEMMA FailOK ==
  ASSUME IInv, NEW c \in Commands, Fail(c)
  PROVE  IInv'
<1>1. Abandon(c) /\ Move(c, Idle) /\ UNCHANGED <<config, cached, issued, live, given>>
  BY DEF Fail, End, files
<1> QED
  BY <1>1, OfFiles, IdleType, AbandonOK

LEMMA SendOK ==
  ASSUME IInv, NEW c \in Commands, Send(c)
  PROVE  IInv'
<1>1. Move(c, Idle) /\ UNCHANGED <<config, cached, idp, given>> /\ ~Flying(task[c])
  BY DEF Send, End, files, Flying
<1>2. given' \in [Paths -> SUBSET Clients] /\ \A f \in Paths : given[f] \subseteq given'[f]
  BY <1>1, OfFiles
<1>3. ConfigOK'
  BY <1>1, <1>2, ConfigKept
<1> QED
  BY <1>1, <1>2, <1>3, IdleType, QuietTurn

(***************************************************************************)
(* The steps by which a token is saved, and issued.                        *)
(***************************************************************************)

\* The file that is written gets a token that has not been replaced; the one
\* whose refresh token it replaced was in the same file, if it was in any.
LEMMA WriteCacheOK ==
  ASSUME IInv, NEW c \in Commands, WriteCache(c)
  PROVE  IInv'
<1> DEFINE t == task[c]
           f == t.path
<1>1. /\ t.at = "writeCache" /\ Flying(t) /\ Saved(c) /\ UNCHANGED <<config, idp, given>>
      /\ cached' = [cached EXCEPT ![f] = t.token]
  BY DEF WriteCache, Flying, CredentialsPath
<1>2. PICK u \in Task :
         Move(c, u) /\ Formed(issued, given, u) /\ ~Flying(u) /\ u.at # "refresh"
  BY <1>1, SavedType
<1>3. /\ t.token \in Tokens /\ f \in Paths /\ t.token = KeepRefresh(t)
      /\ Backed(issued, given, t.token, f) /\ t.token.refresh = Kept(t)
      /\ Kept(t) # Nil => Kept(t) \in live \cup gone
      /\ t.used # Nil => IssuedFor(issued, t.used, t.token.client, f)
  BY <1>1, OfCommand DEF Formed, Unspent, Kept
<1>4. /\ task \in [Commands -> Task] /\ issued \in Seq(Logins) /\ Nil \notin Nat
      /\ cached \in [Paths -> Tokens \cup {Nil, Torn}] /\ given \in [Paths -> SUBSET Clients]
  BY OndxClientAssumption DEF IInv, CommandsOK, FilesOK, OndxClientAssumption
<1>5. /\ task' \in [Commands -> Task]
      /\ \A d \in Commands : task'[d] = IF d = c THEN u ELSE task[d]
  BY <1>2, <1>4 DEF Move
<1>6. /\ cached' \in [Paths -> Tokens \cup {Nil, Torn}]
      /\ \A g \in Paths : cached'[g] = IF g = f THEN t.token ELSE cached[g]
  BY <1>1, <1>3, <1>4
<1>7. UNCHANGED <<config, issued, live, gone, given>>
  BY <1>1 DEF idp
<1>8. ASSUME NEW d \in Commands, d # c
      PROVE  /\ Formed(issued, given, task[d]) /\ Unspent(task[d]) /\ Secret(d)
             /\ Flying(task[d]) /\ Kept(task[d]) # Nil /\ task[d].token.client \in Rotates =>
                   Kept(task[d]) # Kept(t)
  BY <1>1, <1>8, OfCommand DEF Secret
<1> HIDE DEF t, f
<1>9. ASSUME NEW g \in Paths, IsToken(cached'[g])
      PROVE  /\ Backed(issued, given, cached'[g], g)
             /\ cached'[g].refresh # Nil => (Accounted(cached[g].refresh))'
  <2>1. CASE g = f
    <3>1. cached'[g].refresh # Nil => cached'[g].refresh \in live' \cup gone'
      BY <1>3, <1>6, <1>7, <2>1
    <3> QED
      BY <1>3, <1>6, <2>1, <3>1 DEF Accounted
  <2>2. CASE g # f
    <3>1. cached'[g] = cached[g]
      BY <1>6, <2>2
    <3>2. /\ Backed(issued, given, cached[g], g)
          /\ cached[g].refresh # Nil =>
               /\ IssuedFor(issued, cached[g].refresh, cached[g].client, g)
               /\ Accounted(cached[g].refresh)
      BY <1>9, <3>1, OfFiles
    <3>3. CASE cached[g].refresh = Nil \/ cached[g].refresh \in live \cup gone
      BY <1>7, <3>1, <3>2, <3>3 DEF Accounted
    <3>4. CASE /\ cached[g].refresh # Nil
               /\ \E d \in Commands : Flying(task[d]) /\ task[d].used = cached[g].refresh
      <4>1. PICK d \in Commands : Flying(task[d]) /\ task[d].used = cached[g].refresh
        BY <3>4
      <4>2. d # c
        BY <1>3, <2>2, <3>2, <3>4, <4>1 DEF IssuedFor, t
      <4>3. Flying(task'[d]) /\ task'[d].used = cached'[g].refresh
        BY <1>5, <3>1, <4>1, <4>2
      <4> QED
        BY <3>1, <3>2, <4>3 DEF Accounted, Flying
    <3> QED
      BY <3>2, <3>3, <3>4 DEF Accounted
  <2> QED
    BY <2>1, <2>2
<1>10. FilesOK'
  <2>1. ConfigOK'
    BY <1>4, <1>7, ConfigKept
  <2>2. \A g \in Paths : IsToken(cached'[g]) => Backed(issued', given', cached'[g], g)
    BY <1>7, <1>9
  <2> QED
    BY <1>4, <1>6, <1>7, <1>9, <2>1, <2>2 DEF FilesOK
<1>11. ASSUME NEW d \in Commands PROVE (Formed(issued, given, task[d]) /\ Unspent(task[d]))'
  <2>1. Formed(issued', given', task'[d]) /\ Unspent(task'[d])
    BY <1>2, <1>5, <1>7, <1>8 DEF Unspent
  <2> QED
    BY <1>7, <2>1 DEF Unspent, Flying, Kept, KeepRefresh
<1>12. ASSUME NEW d \in Commands, Flying(task'[d]), Kept(task'[d]) # Nil,
              task'[d].token.client \in Rotates
       PROVE  /\ \A g \in Paths : IsToken(cached'[g]) => cached'[g].refresh # Kept(task'[d])
              /\ \A e \in Commands \ {d} :
                    /\ task'[e].at = "refresh" => task'[e].token.refresh # Kept(task'[d])
                    /\ Flying(task'[e]) => Kept(task'[e]) # Kept(task'[d])
  <2>1. d # c /\ task'[d] = task[d]
    BY <1>2, <1>5, <1>12
  <2>2. /\ \A g \in Paths : IsToken(cached[g]) => cached[g].refresh # Kept(task[d])
        /\ \A e \in Commands \ {d} :
              /\ task[e].at = "refresh" => task[e].token.refresh # Kept(task[d])
              /\ Flying(task[e]) => Kept(task[e]) # Kept(task[d])
        /\ Kept(task[d]) # Kept(t)
    BY <1>8, <1>12, <2>1 DEF Secret
  <2> QED
    BY <1>2, <1>3, <1>5, <1>6, <2>1, <2>2
<1>13. \A d \in Commands : Secret(d)'
  BY <1>12 DEF Secret, Flying, Kept, KeepRefresh
<1> QED
  BY <1>4, <1>5, <1>7, <1>10, <1>11, <1>13 DEF IInv, CommandsOK

\* A provider issues a token to a command, for a code or for a refresh token; it
\* goes back to the login r.  The command will save the new number, or the refresh
\* token it used when that is not replaced, or none.
LEMMA Issue ==
  ASSUME IInv, NEW c \in Commands, NEW u \in Task, NEW r \in Logins, Move(c, u),
         UNCHANGED <<files, given>>, issued' \in {issued, Append(issued, r)},
         ~Flying(task[c]), u.at = "answer", Formed(issued', given, u),
         u.token.client = r.client, r.path = u.path,
         (live \cup gone) \ {u.used} \subseteq live' \cup gone',
         Kept(u) # Nil => Kept(u) \in live' \cup gone',
         IF r.client \in Rotates
         THEN /\ Kept(u) \in {Len(issued) + 1, Nil}
              /\ u.used # Nil => task[c].at = "refresh" /\ task[c].token.refresh = u.used
         ELSE live \cup gone \subseteq live' \cup gone'
  PROVE  IInv'
<1> DEFINE last == Len(issued) + 1
<1>1. issued \in Seq(Logins) /\ Len(issued) \in Nat /\ Nil \notin Nat
  BY OfCommand
<1>2. /\ issued' \in Seq(Logins)
      /\ \A n \in 1..Len(issued) : n \in 1..Len(issued') /\ issued'[n] = issued[n]
  BY <1>1
<1>3. ASSUME NEW n, NEW q, NEW f, IssuedFor(issued, n, q, f)
      PROVE  IssuedFor(issued', n, q, f) /\ n \in Nat /\ n # last /\ n # Nil
  BY <1>1, <1>2, <1>3 DEF IssuedFor
<1>4. /\ task \in [Commands -> Task] /\ task' \in [Commands -> Task]
      /\ \A d \in Commands : task'[d] = IF d = c THEN u ELSE task[d]
  BY DEF IInv, CommandsOK, Move
<1>5. Flying(u) /\ (u.used # Nil => IssuedFor(issued', u.used, r.client, u.path))
  BY DEF Flying, Formed
<1>6. ASSUME NEW d \in Commands, Flying(task[d]), Kept(task[d]) # Nil
      PROVE  /\ IssuedFor(issued, Kept(task[d]), task[d].token.client, task[d].path)
             /\ d # c /\ Kept(task[d]) \in live' \cup gone'
  <2>1. d # c /\ Formed(issued, given, task[d]) /\ Kept(task[d]) \in live \cup gone
    BY <1>6, OfCommand DEF Unspent
  <2>2. task[d] \in Task /\ task[d].token \in Tokens
    BY <1>6, <2>1, OfCommand DEF Formed
  <2>3. IssuedFor(issued, Kept(task[d]), task[d].token.client, task[d].path)
    BY <1>1, <1>6, <2>1, <2>2, KeptType DEF Formed, Backed, Kept
  <2>4. CASE r.client \in Rotates
    <3>1. SUFFICES ASSUME Kept(task[d]) = u.used PROVE FALSE
      BY <2>1, <2>3
    <3>2. u.used # Nil /\ task[d].token.client = r.client
      BY <1>3, <1>5, <1>6, <2>3, <3>1 DEF IssuedFor
    <3>3. task[c].token.refresh # Kept(task[d])
      BY <1>6, <2>1, <2>4, <3>2, OfCommand DEF Secret
    <3> QED
      BY <2>4, <3>1, <3>2, <3>3
  <2>5. CASE r.client \notin Rotates
    BY <2>1, <2>3, <2>5
  <2> QED
    BY <2>4, <2>5
<1>7. ASSUME NEW d \in Commands
      PROVE  (Formed(issued, given, task[d]) /\ Unspent(task[d]))'
  <2>1. Formed(issued', given', task'[d])
    <3>1. CASE d = c
      BY <1>4, <3>1
    <3>2. CASE d # c
      <4>1. Formed(issued, given, task[d]) /\ task'[d] = task[d] /\ given' = given
        BY <1>4, <3>2, OfCommand
      <4>2. \A f \in Paths : given[f] \subseteq given'[f]
        BY <4>1
      <4> QED
        BY <1>2, <4>1, <4>2, FormedGrows
    <3> QED
      BY <3>1, <3>2
  <2>2. Flying(task'[d]) /\ Kept(task'[d]) # Nil => Kept(task'[d]) \in live' \cup gone'
    BY <1>4, <1>6
  <2> QED
    BY <2>1, <2>2 DEF Unspent, Flying, Kept, KeepRefresh
<1>8. ASSUME NEW f \in Paths, IsToken(cached[f])
      PROVE  /\ Backed(issued', given', cached'[f], f)
             /\ cached'[f].refresh # Nil => (Accounted(cached[f].refresh))'
  <2> DEFINE n == cached[f].refresh
  <2>1. /\ cached[f] \in Tokens /\ Backed(issued, given, cached[f], f)
        /\ n # Nil => IssuedFor(issued, n, cached[f].client, f) /\ Accounted(n)
        /\ cached'[f] = cached[f] /\ given' = given
    BY <1>8, OfFiles DEF files
  <2>2. Backed(issued', given', cached'[f], f)
    BY <1>2, <1>3, <2>1 DEF Backed, Owned, IssuedFor
  <2>3. n # Nil => \/ n = u.used \/ n \in live' \cup gone'
                   \/ \E d \in Commands : Flying(task[d]) /\ task[d].used = n
    BY <2>1 DEF Accounted
  <2>4. ASSUME NEW d \in Commands, Flying(task[d]), task[d].used = n
        PROVE  Flying(task'[d]) /\ task'[d].used = n
    BY <1>4, <2>4
  <2>5. task'[c] = u
    BY <1>4
  <2>6. n # Nil => (Accounted(cached[f].refresh))'
    BY <1>5, <2>1, <2>3, <2>4, <2>5 DEF Accounted, Flying
  <2> QED
    BY <2>1, <2>2, <2>6
<1>9. FilesOK'
  <2>1. ConfigOK'
    BY OfFiles, ConfigKept DEF files
  <2> QED
    BY <1>8, <2>1, OfFiles DEF FilesOK, files
<1>10. ASSUME NEW d \in Commands, Flying(task'[d]), Kept(task'[d]) # Nil,
              task'[d].token.client \in Rotates
       PROVE  /\ \A f \in Paths : IsToken(cached'[f]) => cached'[f].refresh # Kept(task'[d])
              /\ \A e \in Commands \ {d} :
                    /\ task'[e].at = "refresh" => task'[e].token.refresh # Kept(task'[d])
                    /\ Flying(task'[e]) => Kept(task'[e]) # Kept(task'[d])
  <2>1. \A f \in Paths : IsToken(cached[f]) =>
           \/ cached[f].refresh = Nil
           \/ IssuedFor(issued, cached[f].refresh, cached[f].client, f)
    BY OfFiles
  <2>2. \A e \in Commands :
           /\ task[e].at = "refresh" =>
                IssuedFor(issued, task[e].token.refresh, task[e].token.client, task[e].path)
           /\ Flying(task[e]) /\ Kept(task[e]) # Nil =>
                IssuedFor(issued, Kept(task[e]), task[e].token.client, task[e].path)
    BY <1>6, OfCommand DEF Formed
  <2>3. CASE d = c
    <3>1. Kept(task'[d]) = last
      BY <1>4, <1>10, <2>3
    <3>2. \A f \in Paths : IsToken(cached'[f]) => cached'[f].refresh # last
      BY <1>1, <1>3, <2>1 DEF files
    <3>3. \A e \in Commands \ {c} :
             /\ task'[e].at = "refresh" => task'[e].token.refresh # last
             /\ Flying(task'[e]) => Kept(task'[e]) # last
      BY <1>1, <1>3, <1>4, <2>2
    <3> QED
      BY <2>3, <3>1, <3>2, <3>3
  <2>4. CASE d # c
    <3>1. /\ task'[d] = task[d] /\ Flying(task[d]) /\ Kept(task[d]) # Nil
          /\ task[d].token.client \in Rotates
      BY <1>4, <1>10, <2>4
    <3>2. Secret(d) /\ IssuedFor(issued, Kept(task[d]), task[d].token.client, task[d].path)
      BY <2>2, <3>1, OfCommand
    <3>3. Kept(u) # Kept(task[d])
      <4>1. CASE r.client \in Rotates
        BY <1>3, <3>1, <3>2, <4>1
      <4>2. CASE r.client \notin Rotates
        <5>1. Kept(u) # Nil => IssuedFor(issued', Kept(u), r.client, u.path)
          BY <1>1, <1>5, KeptType DEF Formed, Backed, Kept
        <5> QED
          BY <1>3, <3>1, <3>2, <4>2, <5>1 DEF IssuedFor
      <4> QED
        BY <4>1, <4>2
    <3>4. \A f \in Paths : IsToken(cached'[f]) => cached'[f].refresh # Kept(task[d])
      BY <3>1, <3>2 DEF Secret, files
    <3>5. ASSUME NEW e \in Commands \ {d}
          PROVE  /\ task'[e].at = "refresh" => task'[e].token.refresh # Kept(task[d])
                 /\ Flying(task'[e]) => Kept(task'[e]) # Kept(task[d])
      BY <1>4, <3>1, <3>2, <3>3 DEF Secret
    <3> QED
      BY <3>1, <3>4, <3>5
  <2> QED
    BY <2>3, <2>4
<1>11. \A d \in Commands : Secret(d)'
  BY <1>10 DEF Secret, Flying, Kept, KeepRefresh
<1> QED
  BY <1>2, <1>4, <1>7, <1>9, <1>11 DEF IInv, CommandsOK

\* A login is given the first token of a session, with or without a refresh token.
LEMMA ExchangeCodeOK ==
  ASSUME IInv, NEW c \in Commands, ExchangeCode(c)
  PROVE  IInv'
<1> DEFINE t    == task[c]
           q    == t.client
           last == Len(issued) + 1
           r(renewable) == [client |-> q, path |-> t.path, renewable |-> renewable]
           k(renewable) == NewToken(q, last, IF renewable THEN last ELSE Nil)
<1>1. PICK renewable \in BOOLEAN :
         /\ issued' = Append(issued, r(renewable))
         /\ live' = IF renewable THEN live \cup {last} ELSE live
         /\ Move(c, [t EXCEPT !.at = "answer", !.token = k(renewable)])
  BY DEF ExchangeCode
<1>2. /\ t.at = "exchange" /\ UNCHANGED <<files, gone, given>>
      /\ t \in Task /\ Formed(issued, given, t)
      /\ issued \in Seq(Logins) /\ Len(issued) \in Nat /\ Nil \notin Nat
  BY OfCommand DEF ExchangeCode
<1>3. /\ q \in Clients /\ t.path \in Paths /\ q \in given[t.path] /\ t.used = Nil /\ ~Flying(t)
  BY <1>2 DEF Formed, Flying
<1> DEFINE l == r(renewable)
           m == k(renewable)
           v == [t EXCEPT !.at = "answer", !.token = m]
<1>4. /\ l \in Logins /\ l.client = q /\ l.path = t.path /\ l.renewable = renewable
  BY <1>3 DEF Logins
<1>5. /\ m \in Tokens /\ m.client = q /\ m.access = last
      /\ m.refresh = IF renewable THEN last ELSE Nil
  BY <1>2, <1>3 DEF NewToken, Tokens
<1>6. v \in Task /\ v.at = "answer" /\ v.token = m /\ v.path = t.path /\ v.used = t.used
  <2> HIDE DEF t, m
  <2> QED
    BY <1>2, <1>5 DEF Task
<1>7. issued' = Append(issued, l) /\ Move(c, v)
  BY <1>1
<1> HIDE DEF t, q, l, m, v, r, k
<1>8. KeepRefresh(v) = m /\ Kept(v) = m.refresh /\ Flying(v)
  BY <1>3, <1>6 DEF KeepRefresh, Kept, Flying
<1>9. last \in 1..Len(issued') /\ issued'[last] = l
  BY <1>2, <1>4, <1>7
<1>10. Owned(issued', given, m, t.path) /\ IssuedFor(issued', last, q, t.path)
  BY <1>3, <1>4, <1>5, <1>9 DEF Owned, IssuedFor
<1>11. Backed(issued', given, m, t.path)
  BY <1>2, <1>4, <1>5, <1>9, <1>10 DEF Backed
<1>12. Formed(issued', given, v)
  BY <1>3, <1>5, <1>6, <1>8, <1>10, <1>11 DEF Formed
<1>13. /\ live \cup gone \subseteq live' \cup gone'
       /\ Kept(v) # Nil => Kept(v) \in live' \cup gone'
       /\ Kept(v) \in {last, Nil}
  BY <1>1, <1>2, <1>5, <1>8
<1> QED
  BY <1>2, <1>3, <1>4, <1>5, <1>6, <1>7, <1>12, <1>13, Issue DEF t

\* A token is refreshed at the client it records, and goes back to the same login.
LEMMA RefreshTokenOK ==
  ASSUME IInv, NEW c \in Commands, RefreshToken(c)
  PROVE  IInv'
<1> DEFINE t       == task[c]
           n       == t.token.refresh
           q       == t.token.client
           l       == issued[n]
           login   == t.token.access
           last    == Len(issued) + 1
           refresh == IF q \in Rotates THEN last ELSE Nil
           m       == NewToken(q, login, refresh)
           u       == [t EXCEPT !.at = "answer", !.used = n, !.token = m]
<1>1. /\ t.at = "refresh" /\ t \in Task /\ Formed(issued, given, t)
      /\ issued \in Seq(Logins) /\ Len(issued) \in Nat /\ Nil \notin Nat
  BY OfCommand DEF RefreshToken
<1>2. /\ t.token \in Tokens /\ t.path \in Paths /\ q \in given[t.path] /\ q \in Clients
      /\ IssuedFor(issued, n, q, t.path) /\ IssuedFor(issued, login, q, t.path)
      /\ login \in Nat /\ ~Flying(t)
  BY <1>1 DEF Formed, Owned, Flying, Tokens
<1>3. l \in Logins /\ n \in Nat /\ n # Nil /\ l.client = q /\ l.path = t.path
  BY <1>1, <1>2 DEF IssuedFor
<1>4. /\ n \in live /\ issued' = IF q \in Rotates THEN Append(issued, l) ELSE issued
      /\ live' = IF q \in Rotates THEN (live \ {n}) \cup {last} ELSE live
      /\ Move(c, u) /\ UNCHANGED <<files, gone, given>>
  BY DEF RefreshToken
<1> HIDE DEF t, n, q, l, login
<1>5. m \in Tokens /\ m.client = q /\ m.access = login /\ m.refresh = refresh
  BY <1>1, <1>2 DEF NewToken, Tokens
<1> HIDE DEF m
<1>6. u \in Task /\ u.at = "answer" /\ u.token = m /\ u.path = t.path /\ u.used = n
  BY <1>1, <1>3, <1>5 DEF Task
<1> HIDE DEF u
<1>7. /\ KeepRefresh(u) \in Tokens /\ KeepRefresh(u).client = q /\ KeepRefresh(u).access = login
      /\ Kept(u) = IF q \in Rotates THEN last ELSE n
  BY <1>1, <1>3, <1>5, <1>6, KeptType DEF Kept
<1>8. \A i \in 1..Len(issued) : i \in 1..Len(issued') /\ issued'[i] = issued[i]
  BY <1>1, <1>3, <1>4
<1>9. /\ IssuedFor(issued', login, q, t.path) /\ IssuedFor(issued', n, q, t.path)
      /\ q \in Rotates => IssuedFor(issued', last, q, t.path)
  <2>1. IssuedFor(issued', login, q, t.path) /\ IssuedFor(issued', n, q, t.path)
    BY <1>2, <1>8 DEF IssuedFor
  <2>2. q \in Rotates => last \in 1..Len(issued') /\ issued'[last] = l
    BY <1>1, <1>3, <1>4
  <2> QED
    BY <1>3, <2>1, <2>2 DEF IssuedFor
<1>10. Owned(issued', given, m, t.path) /\ Owned(issued', given, KeepRefresh(u), t.path)
  BY <1>2, <1>5, <1>7, <1>9 DEF Owned
<1>11. Backed(issued', given, KeepRefresh(u), t.path)
  BY <1>1, <1>3, <1>7, <1>9, <1>10 DEF Backed, Kept
<1>12. Formed(issued', given, u)
  BY <1>2, <1>5, <1>6, <1>9, <1>10, <1>11 DEF Formed
<1>13. /\ (live \cup gone) \ {u.used} \subseteq live' \cup gone'
       /\ Kept(u) \in live' \cup gone'
       /\ q \notin Rotates => live \cup gone \subseteq live' \cup gone'
  BY <1>4, <1>6, <1>7
<1>14. task[c].at = "refresh" /\ task[c].token.refresh = u.used /\ ~Flying(task[c])
  BY <1>1, <1>2, <1>6 DEF t, n
<1>15. l.client = q /\ u.token.client = q /\ l.path = u.path
  BY <1>3, <1>5, <1>6
<1> QED
  BY <1>3, <1>4, <1>6, <1>7, <1>12, <1>13, <1>14, <1>15, Issue

(***************************************************************************)
(* All steps.                                                              *)
(***************************************************************************)

\* What changes without a command: the configuration is removed, sessions end.
LEMMA WorldOK ==
  ASSUME IInv, issued' = issued, cached' = cached, task' = task, given' = given,
         config' \in {config, Nil}, live \cup gone \subseteq live' \cup gone'
  PROVE  IInv'
<1>1. ConfigOK'
  BY OfFiles, ConfigKept
<1>2. FilesOK'
  BY <1>1 DEF IInv, FilesOK, Accounted
<1>3. CommandsOK'
  BY DEF IInv, CommandsOK, Unspent, Secret
<1> QED
  BY <1>2, <1>3 DEF IInv

LEMMA InitOK == Init => IInv
<1> SUFFICES ASSUME Init PROVE IInv
  OBVIOUS
<1>1. issued \in Seq(Logins)
  BY DEF Init
<1>2. FilesOK
  BY OndxClientAssumption DEF Init, FilesOK, ConfigOK, IsToken, OndxClientAssumption
<1>3. CommandsOK
  BY IdleType DEF Init, CommandsOK, Unspent, Secret
<1> QED
  BY <1>1, <1>2, <1>3 DEF IInv

LEMMA NextOK == IInv /\ [Next]_vars => IInv'
<1> SUFFICES ASSUME IInv, [Next]_vars PROVE IInv'
  OBVIOUS
<1>1. CASE UNCHANGED vars
  BY <1>1, WorldOK DEF vars
<1>2. ASSUME NEW c \in Commands,
             \/ \E p \in Profiles : ProfileUse(c, p)
             \/ \E p \in Profiles : \E q \in Settings[p] : ProfileSet(c, p, q)
             \/ OpenConfig(c) \/ WriteConfig(c)
      PROVE  IInv'
  BY <1>2, ConfigurationOK
<1>3. ASSUME NEW c \in Commands, NEW named \in Profiles \cup {Nil}, NEW flag \in Paths \cup {Nil},
             \/ \E told \in Told \cup {Nil} : RunLogin(c, named, told, flag)
             \/ RunRequest(c, named, flag)
      PROVE  IInv'
  BY <1>3, ResolveOK
<1>4. ASSUME NEW c \in Commands,
             \/ Listen(c) \/ TakeCallback(c)
             \/ \E q \in CallbackQueries : Callback(c, q)
      PROVE  IInv'
  BY <1>4, LoginOK
<1>5. ASSUME NEW c \in Commands,
             \/ LoadToken(c) \/ ReceiveToken(c) \/ OpenCache(c) \/ WriteCache(c)
             \/ FailWrite(c) \/ Send(c) \/ Fail(c)
      PROVE  IInv'
  BY <1>5, LoadTokenOK, ReceiveTokenOK, OpenCacheOK, WriteCacheOK, FailWriteOK, SendOK, FailOK
<1>6. ASSUME NEW c \in Commands, ExchangeCode(c) \/ RefreshToken(c) PROVE IInv'
  BY <1>6, ExchangeCodeOK, RefreshTokenOK
<1>7. ASSUME RemoveConfig \/ \E n \in live : EndSession(n) PROVE IInv'
  <2>1. /\ issued' = issued /\ cached' = cached /\ task' = task /\ given' = given
        /\ config' \in {config, Nil} /\ live \cup gone \subseteq live' \cup gone'
    BY <1>7 DEF RemoveConfig, EndSession, idp, files
  <2> QED
    BY <2>1, WorldOK
<1> QED
  BY <1>1, <1>2, <1>3, <1>4, <1>5, <1>6, <1>7 DEF Next

\* The inductive invariant holds of every state of the clients and the providers
\* (internal/cli, cmd/ondx).
THEOREM Invariance == Spec => []IInv
BY InitOK, NextOK, PTL DEF Spec

(***************************************************************************)
(* What follows from it.                                                   *)
(***************************************************************************)

\* A token that a file keeps, or a command holds that works with the file, goes
\* back to a login for that file (main.go:394-397), at a client that the settings
\* of its profile have named (main.go:290-337) or that a login was told for it
\* (main.go:345-353): however profiles are switched and changed meanwhile, no
\* other profile's token gets there, and no other login's.
THEOREM TokensStayWithTheirProvider == Spec => []OwnProvidersToken
<1>1. IInv => OwnProvidersToken
  <2> SUFFICES ASSUME IInv PROVE OwnProvidersToken
    OBVIOUS
  <2>1. \A f \in Paths : IsToken(cached[f]) => Owned(issued, given, cached[f], f)
    BY OfFiles DEF Backed
  <2>2. \A c \in Commands : task[c].token # Nil => Owned(issued, given, task[c].token, task[c].path)
    BY OfCommand DEF Formed
  <2> QED
    BY <2>1, <2>2 DEF OwnProvidersToken, Owned, IssuedFor
<1> QED
  BY <1>1, Invariance, PTL

\* A file has a token without a refresh token only when its login brought none
\* (login.go:237-239); otherwise the client the token records issued its refresh
\* token, which is accepted, or lost for a reason, or a command that is under way
\* used it and is about to save the one that replaced it (login.go:234-261,
\* resolve.go:21-38).
THEOREM SessionsAreKept == Spec => []SessionKept
<1>1. IInv => SessionKept
  <2> SUFFICES ASSUME IInv, NEW f \in Paths, IsToken(cached[f])
               PROVE  IF cached[f].refresh = Nil THEN ~issued[cached[f].access].renewable
                      ELSE /\ issued[cached[f].refresh].client = cached[f].client
                           /\ \/ cached[f].refresh \in live \cup gone
                              \/ \E c \in Commands : task[c].used = cached[f].refresh
    BY DEF SessionKept
  <2>1. /\ Backed(issued, given, cached[f], f)
        /\ cached[f].refresh # Nil =>
             /\ IssuedFor(issued, cached[f].refresh, cached[f].client, f)
             /\ Accounted(cached[f].refresh)
    BY OfFiles
  <2>2. CASE cached[f].refresh = Nil
    BY <2>1, <2>2 DEF Backed
  <2>3. CASE cached[f].refresh # Nil
    BY <2>1, <2>3 DEF IssuedFor, Accounted
  <2> QED
    BY <2>2, <2>3
<1> QED
  BY <1>1, Invariance, PTL
=============================================================================
