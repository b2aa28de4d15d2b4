--------------------------- MODULE Services_proofs ---------------------------
(***************************************************************************)
(* What the services around the kernel keep, for any number of threads,    *)
(* handles, workers, files, profiles, steps, requests, records and events. *)
(* Each service is proved about alone: they share no state.                *)
(***************************************************************************)
EXTENDS GitHubAppAuth, CredentialVault, OperatorServer, Policy, GitHubTools, Workspace,
        ProductionSmoke, ServerGate,
        WellFoundedInduction, SequenceTheorems, FiniteSetTheorems, TLAPS

-----------------------------------------------------------------------------
(* The credentials of GitHub calls.                                         *)

AppSpec == AppInit /\ [][AppNext]_appVars

AppTypeOK ==
    /\ appNow \in Nat
    /\ appEnv \in [pat : BOOLEAN, settings : {"none", "partial", "all"}]
    /\ appCache \in [real : Int, taken : Int]
    /\ appCall \in [AuthThreads -> Int]
    /\ appAnswer \in [AuthThreads -> [from : {"none", "pat", "nothing", "error", "provider",
                                              "cache", "exchange"},
                                      left : Int]]

\* A cached token lives at least as long as it is taken to live, because the
\* assumed expiry counts from a time before GitHub minted the token.
CacheInv ==
    /\ appCache.taken <= appCache.real
    /\ \A w \in AuthThreads : Outside(w) \/ appCall[w] \in 0 .. appNow

\* Only a complete configuration without a personal token leads to a provider.
SourceOf(w) ==
    /\ ~Outside(w) \/ appAnswer[w].from \in {"provider", "cache", "exchange"}
         => ~appEnv.pat /\ appEnv.settings = "all"
    /\ appAnswer[w].from = "cache" => appAnswer[w].left > RefreshSkew
    /\ appAnswer[w].from = "pat" => appEnv.pat

AppInv == AppTypeOK /\ CacheInv /\ \A w \in AuthThreads : SourceOf(w)

\* A step of one thread, told apart by what it does to the thread's answer.
LEMMA AppThreadStep ==
    ASSUME AppInv, NEW w \in AuthThreads,
           ResolveCredential(w) \/ TakeToken(w) \/ ExchangeToken(w) \/ NextCall(w)
    PROVE  AppInv'
<1> USE AppAuthAssumption DEF AppInv, AppTypeOK
<1>1. CASE ResolveCredential(w)
  <2>1. AppTypeOK'
    BY <1>1 DEF ResolveCredential, Give
  <2>2. CacheInv'
    BY <1>1 DEF ResolveCredential, CacheInv, Outside
  <2>3. \A v \in AuthThreads : SourceOf(v)'
    BY <1>1 DEF ResolveCredential, Give, SourceOf, Outside
  <2> QED
    BY <2>1, <2>2, <2>3
<1>2. CASE TakeToken(w)
  <2>1. AppTypeOK'
    BY <1>2 DEF TakeToken, Give
  <2>2. CacheInv'
    BY <1>2 DEF TakeToken, CacheInv, Outside
  <2>3. Cached => appCache.real - appNow > RefreshSkew
    BY DEF Cached, CacheInv
  <2>4. \A v \in AuthThreads : SourceOf(v)'
    BY <1>2, <2>3 DEF TakeToken, Give, SourceOf, Outside
  <2> QED
    BY <2>1, <2>2, <2>4
<1>3. CASE ExchangeToken(w)
  <2>1. /\ ~Outside(w) /\ appCall' = [appCall EXCEPT ![w] = -1]
        /\ UNCHANGED <<appNow, appEnv>>
        /\ appCall[w] \in 0 .. appNow
    BY <1>3 DEF ExchangeToken, CacheInv
  <2>2. /\ appCache' \in [real : Int, taken : Int]
        /\ appCache'.taken <= appCache'.real
        /\ \/ \E left \in Int : Give(w, "exchange", left)
           \/ Give(w, "error", 0)
    <3>1. CASE appCache' = appCache /\ Give(w, "error", 0)
      BY <3>1 DEF CacheInv
    <3>2. ASSUME NEW minted \in appCall[w] .. appNow,
                 appCache' \in {[real |-> minted + TokenLifetime, taken |-> minted + TokenLifetime],
                                [real |-> minted + TokenLifetime, taken |-> AssumedExpiry(w)]},
                 Give(w, "exchange", minted + TokenLifetime - appNow)
          PROVE  /\ appCache' \in [real : Int, taken : Int]
                 /\ appCache'.taken <= appCache'.real
                 /\ \E left \in Int : Give(w, "exchange", left)
      BY <2>1, <3>2 DEF AssumedExpiry
    <3> QED
      BY <1>3, <3>1, <3>2 DEF ExchangeToken
  <2>3. AppTypeOK'
    <3>1. /\ appNow' \in Nat /\ appCache' \in [real : Int, taken : Int]
          /\ appEnv' \in [pat : BOOLEAN, settings : {"none", "partial", "all"}]
          /\ appCall' \in [AuthThreads -> Int]
      BY <2>1, <2>2
    <3>2. PICK from \in {"exchange", "error"}, left \in Int : Give(w, from, left)
      BY <2>2
    <3>3. appAnswer' \in [AuthThreads ->
                            [from : {"none", "pat", "nothing", "error", "provider",
                                     "cache", "exchange"},
                             left : Int]]
      BY <3>2 DEF Give
    <3> QED
      BY <3>1, <3>3
  <2>4. CacheInv'
    BY <2>1, <2>2 DEF CacheInv, Outside
  <2>5. \A v \in AuthThreads : SourceOf(v)'
    BY <2>1, <2>2 DEF Give, SourceOf, Outside
  <2> QED
    BY <2>3, <2>4, <2>5
<1>4. CASE NextCall(w)
  BY <1>4 DEF NextCall, NoAnswer, CacheInv, SourceOf, Outside
<1> QED
  BY <1>1, <1>2, <1>3, <1>4

\* An installation token from the cache outlives the refresh skew and a token
\* is given for a complete configuration only, for any number of threads and
\* however long exchanges take, clocks run and keys live.
THEOREM CachedTokensLive == AppSpec => []TokensAreLive
<1>1. AppInit => AppInv
  BY AppAuthAssumption DEF AppInit, AppInv, AppTypeOK, CacheInv, SourceOf, Outside, NoToken, NoAnswer
<1>2. AppInv /\ [AppNext]_appVars => AppInv'
  <2> SUFFICES ASSUME AppInv, [AppNext]_appVars PROVE AppInv'
    OBVIOUS
  <2>1. CASE RotateKey \/ UNCHANGED appVars
    BY <2>1 DEF RotateKey, appVars, AppInv, AppTypeOK, CacheInv, SourceOf, Outside
  <2>2. CASE AppTick
    <3> USE DEF AppTick, AppInv, AppTypeOK
    <3>1. AppTypeOK'
      BY <2>2 DEF NoAnswer
    <3>2. CacheInv'
      BY <2>2 DEF CacheInv, Outside
    <3>3. \A v \in AuthThreads : SourceOf(v)'
      BY <2>2 DEF NoAnswer, SourceOf, Outside
    <3> QED
      BY <3>1, <3>2, <3>3
  <2> QED
    BY <2>1, <2>2, AppThreadStep DEF AppNext
<1>3. AppInv => TokensAreLive
  BY DEF AppInv, SourceOf, TokensAreLive
<1> QED
  BY <1>1, <1>2, <1>3, PTL DEF AppSpec

-----------------------------------------------------------------------------
(* The settings of the operator server and its workers.                     *)

ConfigSpec == ConfigInit /\ [][ConfigNext]_cfgVars

SourcesOK ==
    /\ cfgExplicit \in {NotThere, Refused} \cup Says("explicit")
    /\ cfgDefault \in {NotThere, Refused} \cup Says("cwd")
    /\ cfgOverrides \in Says("override")
    /\ cfgMain = NotStarted => cfgEnv \in Says("env")
    /\ DOMAIN cfgWorker = ServerWorkers

\* The file the parent process read.
MainFile == IF cfgExplicit # NotThere THEN cfgExplicit ELSE cfgDefault
Silent(file, k) == file = NotThere \/ (file # Refused /\ file[k] \in {Unset, Blank})

\* Every setting is handed down, except that no inbox is handed down as
\* nothing, and then it was switched off on the command line, or neither the
\* file nor the environment named one.
HandedDown ==
    cfgMain \notin {NotStarted, Down} =>
        \A k \in Settings :
            \/ cfgEnv[k] = cfgMain[k] /\ cfgMain[k] \notin {Unset, Blank}
            \/ /\ k = "inbox_dir" /\ cfgMain[k] = "off"
               /\ \/ cfgOverrides[k] = Blank
                  \/ cfgEnv[k] \in {Unset, Blank} /\ Silent(MainFile, k)

NoneBefore ==
    cfgMain \in {NotStarted, Down} => \A w \in ServerWorkers : cfgWorker[w] = NotStarted

ServerInv == SourcesOK /\ HandedDown /\ NoneBefore /\ WorkersAgree

\* What Resolve may find for a setting, and when it finds nothing.
LEMMA ResolveFinds ==
    ASSUME NEW file, NEW env, NEW overrides, NEW k \in Settings,
           file \in {NotThere} \cup Says("explicit") \cup Says("cwd"),
           file # Refused,
           env \in Says("env"), overrides \in Says("override")
    PROVE  /\ Resolve(file, env, overrides)[k] \in
                {"override", "env", "explicit", "cwd", "off", "built in"}
           /\ Resolve(file, env, overrides)[k] = "off" =>
                /\ k = "inbox_dir"
                /\ \/ overrides[k] = Blank
                   \/ env[k] \in {Unset, Blank} /\ Silent(file, k)
BY DEF Resolve, OrOff, Says, Silent, Unset, Blank, BuiltInSetting

\* Whatever a worker finds for a setting that was handed down is that.
LEMMA ResolveHanded ==
    ASSUME NEW file, NEW env, NEW k \in Settings, env[k] \notin {Unset, Blank}
    PROVE  Resolve(file, env, Nothing)[k] = env[k]
BY DEF Resolve, OrOff, Nothing, Unset, Blank

\* Without any word of an inbox a worker has none either.
LEMMA ResolveSilent ==
    ASSUME NEW file, NEW env, NEW k \in Settings, k = "inbox_dir",
           env[k] \in {Unset, Blank}, Silent(file, k)
    PROVE  Resolve(file, env, Nothing)[k] = "off"
BY DEF Resolve, OrOff, Nothing, Unset, Blank, Silent, BuiltInSetting

\* The parent resolves the settings and hands them to its workers.
LEMMA RunServerStep == ServerInv /\ RunServer => ServerInv'
<1> SUFFICES ASSUME ServerInv, RunServer PROVE ServerInv'
  OBVIOUS
<1>1. /\ cfgMain = NotStarted
      /\ cfgMain' = LoadServerConfig(cfgExplicit, cfgEnv, cfgOverrides)
      /\ UNCHANGED <<cfgExplicit, cfgByEnv, cfgDefault, cfgOverrides, cfgKeys, cfgWorker>>
  BY DEF RunServer, cfgSources
<1>2. \A w \in ServerWorkers : cfgWorker'[w] = NotStarted
  BY <1>1 DEF ServerInv, NoneBefore
<1>3. ASSUME cfgMain' # Down
      PROVE  /\ MainFile # Refused
             /\ cfgMain' = Resolve(MainFile, cfgEnv, cfgOverrides)
  BY <1>1, <1>3 DEF LoadServerConfig, MainFile
<1>4. ASSUME cfgMain' # Down, NEW k \in Settings
      PROVE  /\ cfgMain'[k] \in {"override", "env", "explicit", "cwd", "off", "built in"}
             /\ cfgMain'[k] = "off" =>
                  /\ k = "inbox_dir"
                  /\ \/ cfgOverrides[k] = Blank
                     \/ cfgEnv[k] \in {Unset, Blank} /\ Silent(MainFile, k)
  <2>1. MainFile \in {NotThere, Refused} \cup Says("explicit") \cup Says("cwd")
    BY DEF ServerInv, SourcesOK, MainFile
  <2>2. cfgEnv \in Says("env") /\ cfgOverrides \in Says("override")
    BY <1>1 DEF ServerInv, SourcesOK
  <2>3. MainFile # Refused /\ cfgMain' = Resolve(MainFile, cfgEnv, cfgOverrides)
    BY <1>3, <1>4
  <2>4. /\ Resolve(MainFile, cfgEnv, cfgOverrides)[k] \in
             {"override", "env", "explicit", "cwd", "off", "built in"}
        /\ Resolve(MainFile, cfgEnv, cfgOverrides)[k] = "off" =>
             /\ k = "inbox_dir"
             /\ \/ cfgOverrides[k] = Blank
                \/ cfgEnv[k] \in {Unset, Blank} /\ Silent(MainFile, k)
    BY <2>1, <2>2, <2>3, ResolveFinds, Zenon
  <2> QED
    BY <2>3, <2>4
<1>5. cfgMain' # NotStarted
  BY <1>4, ServerAssumption DEF NotStarted, Down
<1>6. SourcesOK'
  BY <1>1, <1>5 DEF ServerInv, SourcesOK
<1>7. HandedDown'
  <2> SUFFICES ASSUME cfgMain' # Down, NEW k \in Settings
               PROVE  \/ cfgEnv'[k] = cfgMain'[k] /\ cfgMain'[k] \notin {Unset, Blank}
                      \/ /\ k = "inbox_dir" /\ cfgMain'[k] = "off"
                         /\ \/ cfgOverrides'[k] = Blank
                            \/ cfgEnv'[k] \in {Unset, Blank} /\ Silent(MainFile, k)'
    BY DEF HandedDown
  <2>1. cfgEnv'[k] = IF k = "inbox_dir" /\ cfgMain'[k] = "off" THEN cfgEnv[k] ELSE cfgMain'[k]
    BY DEF RunServer
  <2>2. MainFile' = MainFile
    BY <1>1 DEF MainFile
  <2> QED
    BY <1>1, <1>4, <2>1, <2>2 DEF Unset, Blank, Silent
<1>8. NoneBefore' /\ WorkersAgree'
  BY <1>2 DEF NoneBefore, WorkersAgree
<1> QED
  BY <1>6, <1>7, <1>8 DEF ServerInv

\* A worker resolves them again from what it was handed.
LEMMA StartWorkerStep ==
    ASSUME ServerInv, NEW w \in ServerWorkers, StartWorker(w)
    PROVE  ServerInv'
<1>1. /\ cfgMain \notin {NotStarted, Down}
      /\ UNCHANGED <<cfgExplicit, cfgByEnv, cfgDefault, cfgOverrides, cfgKeys, cfgEnv, cfgMain>>
  BY DEF StartWorker, cfgSources
<1> DEFINE file == IF cfgByEnv /\ cfgExplicit # NotThere THEN cfgExplicit ELSE cfgDefault
           found == LoadServerConfig(IF cfgByEnv THEN cfgExplicit ELSE NotThere, cfgEnv, Nothing)
<1>2. cfgWorker' = [cfgWorker EXCEPT ![w] = found]
  BY DEF StartWorker
<1>3. found = IF file = Refused \/ cfgKeys # "strong" THEN Down
              ELSE Resolve(file, cfgEnv, Nothing)
  BY DEF LoadServerConfig
<1> HIDE DEF found
<1>4. ASSUME found # Down, NEW k \in Settings
      PROVE  \/ found[k] = cfgMain[k]
             \/ /\ k = "inbox_dir" /\ cfgMain[k] = "off"
                /\ cfgOverrides[k] = Blank \/ (cfgExplicit # NotThere /\ ~cfgByEnv)
  <2>1. found = Resolve(file, cfgEnv, Nothing)
    BY <1>3, <1>4
  <2>2. CASE cfgEnv[k] = cfgMain[k] /\ cfgMain[k] \notin {Unset, Blank}
    BY <2>1, <2>2, ResolveHanded
  <2>3. CASE /\ k = "inbox_dir" /\ cfgMain[k] = "off"
             /\ cfgEnv[k] \in {Unset, Blank} /\ Silent(MainFile, k)
    <3>1. file = MainFile \/ (cfgExplicit # NotThere /\ ~cfgByEnv)
      BY DEF MainFile
    <3>2. file = MainFile => found[k] = "off"
      BY <2>1, <2>3, ResolveSilent
    <3> QED
      BY <2>3, <3>1, <3>2
  <2> QED
    BY <1>1, <2>2, <2>3 DEF ServerInv, HandedDown
<1>6. SourcesOK' /\ HandedDown' /\ NoneBefore'
  BY <1>1, <1>2 DEF ServerInv, SourcesOK, HandedDown, NoneBefore, MainFile, Silent
<1>7. WorkersAgree'
  BY <1>1, <1>2, <1>4 DEF ServerInv, SourcesOK, WorkersAgree
<1> QED
  BY <1>6, <1>7 DEF ServerInv

\* Every worker, also one that was started again, serves what its parent
\* resolved, for any set of settings, sources and workers; the exceptions are an
\* inbox that was switched off by an empty --inbox-dir, or that a file the workers
\* are not told of leaves off.
THEOREM WorkersServeTheSame == ConfigSpec => []WorkersAgree
<1>1. ConfigInit => ServerInv
  <2> SUFFICES ASSUME ConfigInit PROVE ServerInv
    OBVIOUS
  <2>1. SourcesOK
    BY DEF ConfigInit, SourcesOK
  <2> QED
    BY <2>1 DEF ConfigInit, ServerInv, HandedDown, NoneBefore, WorkersAgree
<1>2. ServerInv /\ [ConfigNext]_cfgVars => ServerInv'
  <2> SUFFICES ASSUME ServerInv, [ConfigNext]_cfgVars PROVE ServerInv'
    OBVIOUS
  <2>1. ASSUME NEW w \in ServerWorkers, WorkerDies(w) PROVE ServerInv'
    BY <2>1 DEF WorkerDies, cfgSources, ServerInv, SourcesOK, HandedDown, NoneBefore,
       WorkersAgree, MainFile, Silent
  <2>2. CASE UNCHANGED cfgVars
    BY <2>2 DEF cfgVars, cfgSources, ServerInv, SourcesOK, HandedDown, NoneBefore,
       WorkersAgree, MainFile, Silent
  <2> QED
    BY <2>1, <2>2, RunServerStep, StartWorkerStep DEF ConfigNext
<1>3. ServerInv => WorkersAgree
  BY DEF ServerInv
<1> QED
  BY <1>1, <1>2, <1>3, PTL DEF ConfigSpec

-----------------------------------------------------------------------------
(* The credential vaults.                                                   *)

VaultSpec == VaultInit /\ [][VaultNext]_vaultVars

Envelopes == [scope : Scopes \cup {""}, expires : Int]
Stores == [SecretHandles -> Envelopes]

VaultTypeOK ==
    /\ vaultNow \in Int
    /\ vaultStored \in Stores \cup {Truncated}
    /\ vaultCall \in [VaultClients -> [pc : {"idle", "loaded", "truncated"},
                                       op : {"none", "put", "revoke"},
                                       handle : SecretHandles \cup {"none"},
                                       data : Stores \cup {Truncated}]]
    /\ \A w \in VaultClients : vaultCall[w].pc = "idle" => vaultCall[w] = NoVaultCall
    /\ vaultPut \in Stores
    /\ vaultBroken \in BOOLEAN

\* What the vault owes to whoever asks for a handle.
Owed(h) == IF h \in vaultRevoked THEN NoEnvelope ELSE vaultPut[h]

RevokedWerePut == \A h \in vaultRevoked : h \in SecretHandles /\ ~Unused(h)

\* The vaults whose operations are one step each hold what they owe.
PlainInv ==
    vaultKind # "file" =>
        /\ \A w \in VaultClients : vaultCall[w] = NoVaultCall
        /\ vaultStored \in Stores
        /\ \A h \in SecretHandles \ vaultKept : vaultStored[h] = Owed(h)
        /\ RevokedWerePut

\* A process that is changing the file has in hand what the vault will owe; as
\* long as it has only loaded the file, the file holds what the vault owes.
CallOf(w) ==
    LET c == vaultCall[w] IN
    /\ c.op \in {"put", "revoke"} /\ c.handle \in SecretHandles /\ c.data \in Stores
    /\ \A h \in SecretHandles \ {c.handle} : c.data[h] = Owed(h)
    /\ ~Unused(c.handle) \/ c.op = "put"
    /\ c.op = "put" => c.data[c.handle] = vaultPut[c.handle] /\ c.handle \notin vaultRevoked
    /\ c.op = "revoke" => c.data[c.handle] = NoEnvelope
    /\ c.pc = "loaded" =>
         /\ \A h \in SecretHandles \ {c.handle} : vaultStored[h] = Owed(h)
         /\ vaultStored[c.handle] = IF c.op = "put" THEN NoEnvelope ELSE Owed(c.handle)

\* The file vault, as long as operations did not overlap and none died while
\* it wrote.
FileInv ==
    vaultKind = "file" /\ ~vaultBroken =>
        /\ \A v, w \in VaultClients : v # w => vaultCall[v].pc = "idle" \/ vaultCall[w].pc = "idle"
        /\ (\A w \in VaultClients : vaultCall[w].pc # "truncated") => vaultStored \in Stores
        /\ (\A w \in VaultClients : vaultCall[w].pc = "idle")
             => \A h \in SecretHandles : vaultStored[h] = Owed(h)
        /\ \A w \in VaultClients : vaultCall[w].pc # "idle" => CallOf(w)
        /\ RevokedWerePut

VaultInv == VaultTypeOK /\ PlainInv /\ FileInv

\* An envelope is one, whatever its life, and an empty one too; the marker of a
\* truncated file is no store.
LEMMA EnvelopeFacts ==
    ASSUME VaultTypeOK
    PROVE  /\ NoEnvelope \in Envelopes
           /\ \A s \in Scopes, life \in SecretLifetimes :
                Envelope(s, life) \in Envelopes /\ Envelope(s, life) # NoEnvelope
           /\ Truncated \notin Stores
<1>1. Truncated \notin Stores
  BY VaultAssumption DEF Truncated, Stores
<1>2. ASSUME NEW s \in Scopes, NEW life \in SecretLifetimes
      PROVE  Envelope(s, life) \in Envelopes /\ Envelope(s, life) # NoEnvelope
  <2>1. (IF life = NoExpiry THEN NoExpiry ELSE vaultNow + life) \in Int
    <3>1. vaultNow \in Int
      BY DEF VaultTypeOK
    <3>2. life \in Nat /\ NoExpiry \in Nat
      BY <1>2, VaultAssumption
    <3> QED
      BY <3>1, <3>2
  <2>2. s # ""
    BY <1>2, VaultAssumption
  <2> QED
    BY <1>2, <2>1, <2>2 DEF Envelope, Envelopes, NoEnvelope
<1>3. NoEnvelope \in Envelopes
  BY DEF NoEnvelope, Envelopes
<1> QED
  BY <1>1, <1>2, <1>3

\* put of a vault whose write is one step.
LEMMA StoreStep ==
    ASSUME VaultInv, NEW h \in SecretHandles, NEW e \in Envelopes, e # NoEnvelope,
           vaultKind # "file", StoreSecret(h, e)
    PROVE  VaultInv'
<1> USE DEF VaultInv
<1>1. /\ vaultStored \in Stores /\ vaultPut \in Stores /\ RevokedWerePut
      /\ \A x \in SecretHandles \ vaultKept : vaultStored[x] = Owed(x)
  BY DEF PlainInv, VaultTypeOK
<1>2. /\ vaultPut[h] = NoEnvelope
      /\ vaultStored' = [vaultStored EXCEPT ![h] = e] /\ vaultPut' = [vaultPut EXCEPT ![h] = e]
      /\ UNCHANGED <<vaultKind, vaultCall, vaultRevoked, vaultBroken, vaultKept, vaultNow>>
  BY DEF StoreSecret, Unused
<1>3. vaultStored' \in Stores /\ vaultPut' \in Stores
  BY <1>1, <1>2 DEF Stores
<1>4. VaultTypeOK'
  BY <1>2, <1>3 DEF VaultTypeOK
<1>5. h \notin vaultRevoked
  BY <1>1, <1>2 DEF RevokedWerePut, Unused
<1>6. \A x \in SecretHandles \ vaultKept : vaultStored'[x] = Owed(x)'
  BY <1>1, <1>2, <1>5 DEF Owed, Stores
<1>7. RevokedWerePut'
  BY <1>1, <1>2, <1>5 DEF RevokedWerePut, Unused, Stores
<1> QED
  BY <1>2, <1>3, <1>4, <1>6, <1>7 DEF PlainInv, FileInv

\* revoke of these vaults, also when the keychain keeps the secret.
LEMMA DeleteStep ==
    ASSUME VaultInv, NEW h \in SecretHandles,
           RevokeMemory(h) \/ RevokeKeyring(h) \/ RevokeService(h)
    PROVE  VaultInv'
<1> USE DEF VaultInv
<1>1. /\ vaultKind # "file" /\ ~Unused(h) /\ vaultRevoked' = vaultRevoked \cup {h}
      /\ UNCHANGED <<vaultKind, vaultCall, vaultPut, vaultBroken, vaultNow>>
      /\ \/ vaultStored' = [vaultStored EXCEPT ![h] = NoEnvelope] /\ vaultKept' = vaultKept
         \/ vaultStored' = vaultStored /\ vaultKept' = vaultKept \cup {h}
  BY DEF RevokeMemory, RevokeKeyring, RevokeService, Delete
<1>2. /\ vaultStored \in Stores /\ vaultPut \in Stores /\ RevokedWerePut
      /\ \A x \in SecretHandles \ vaultKept : vaultStored[x] = Owed(x)
  BY <1>1 DEF PlainInv, VaultTypeOK
<1>3. vaultStored' \in Stores
  BY <1>1, <1>2, EnvelopeFacts DEF Stores
<1>4. VaultTypeOK'
  BY <1>1, <1>3 DEF VaultTypeOK
<1>5. \A x \in SecretHandles \ vaultKept' : vaultStored'[x] = Owed(x)'
  BY <1>1, <1>2 DEF Owed, Stores
<1>6. RevokedWerePut'
  BY <1>1, <1>2 DEF RevokedWerePut, Unused
<1> QED
  BY <1>1, <1>3, <1>4, <1>5, <1>6 DEF PlainInv, FileInv

\* The file vault loads the file.
LEMMA LoadStep ==
    ASSUME VaultInv, NEW w \in VaultClients, NEW h \in SecretHandles, NEW e \in Envelopes,
           NEW op \in {"put", "revoke"},
           op = "put" => e # NoEnvelope, op = "revoke" => e = NoEnvelope,
           LoadFile(w, op, h, e)
    PROVE  VaultInv'
<1> USE DEF VaultInv
<1> DEFINE c == [pc |-> "loaded", op |-> op, handle |-> h, data |-> [vaultStored EXCEPT ![h] = e]]
<1>1. /\ vaultKind = "file" /\ vaultCall[w] = NoVaultCall /\ vaultStored # Truncated
      /\ Unused(h) = (op = "put")
      /\ vaultCall' = [vaultCall EXCEPT ![w] = c]
      /\ vaultPut' = IF op = "put" THEN [vaultPut EXCEPT ![h] = e] ELSE vaultPut
      /\ vaultBroken' = (vaultBroken \/ \E v \in VaultClients : vaultCall[v] # NoVaultCall)
      /\ UNCHANGED <<vaultKind, vaultStored, vaultRevoked, vaultKept, vaultNow>>
  BY DEF LoadFile
<1>2. /\ vaultStored \in Stores /\ vaultPut \in Stores
      /\ DOMAIN vaultCall = VaultClients
  BY <1>1 DEF VaultTypeOK
<1>3. /\ c.pc = "loaded" /\ c.op = op /\ c.handle = h /\ c.data = [vaultStored EXCEPT ![h] = e]
      /\ c.data \in Stores
      /\ c \in [pc : {"idle", "loaded", "truncated"}, op : {"none", "put", "revoke"},
                handle : SecretHandles \cup {"none"}, data : Stores \cup {Truncated}]
  BY <1>2 DEF Stores
<1> HIDE DEF c
<1>4. vaultPut' \in Stores
  BY <1>1, <1>2 DEF Stores
<1>5. VaultTypeOK'
  BY <1>1, <1>3, <1>4 DEF VaultTypeOK
<1>6. ASSUME ~vaultBroken'
      PROVE  /\ \A v \in VaultClients : vaultCall[v] = NoVaultCall
             /\ \A x \in SecretHandles : vaultStored[x] = Owed(x)
             /\ RevokedWerePut
  <2>1. ~vaultBroken /\ \A v \in VaultClients : vaultCall[v] = NoVaultCall
    BY <1>1, <1>6
  <2> QED
    BY <1>1, <2>1 DEF FileInv, NoVaultCall
<1>7. ASSUME ~vaultBroken'
      PROVE  /\ op = "put" => h \notin vaultRevoked
             /\ \A x \in SecretHandles \ {h} : Owed(x)' = Owed(x)
             /\ op = "revoke" => Owed(h)' = Owed(h)
             /\ RevokedWerePut' /\ (~Unused(h))'
  <2>1. op = "put" => h \notin vaultRevoked
    BY <1>1, <1>6, <1>7 DEF RevokedWerePut
  <2>2. /\ \A x \in SecretHandles \ {h} : Owed(x)' = Owed(x)
        /\ op = "revoke" => Owed(h)' = Owed(h)
    BY <1>1, <1>2 DEF Owed, Stores
  <2>3. (~Unused(h))'
    BY <1>1, <1>2 DEF Unused, Stores
  <2>4. \A x \in SecretHandles \ {h} : Unused(x)' = Unused(x)
    BY <1>1, <1>2 DEF Unused, Stores
  <2> QED
    BY <1>1, <1>6, <1>7, <2>1, <2>2, <2>3, <2>4 DEF RevokedWerePut
<1>8. ASSUME ~vaultBroken' PROVE CallOf(w)'
  <2>1. vaultCall'[w] = c
    BY <1>1, <1>2
  <2>2. /\ \A x \in SecretHandles \ {h} : c.data[x] = vaultStored[x]
        /\ c.data[h] = e
    BY <1>2, <1>3 DEF Stores
  <2>3. \A x \in SecretHandles : vaultStored[x] = Owed(x)
    BY <1>6, <1>8
  <2>4. op = "put" => vaultPut'[h] = e /\ vaultStored[h] = NoEnvelope
    BY <1>1, <1>2, <1>7, <1>8, <2>3 DEF Owed, Unused, Stores
  <2>5. \A x \in SecretHandles \ {h} : c.data[x] = Owed(x)' /\ vaultStored'[x] = Owed(x)'
    BY <1>1, <1>7, <1>8, <2>2, <2>3
  <2>6. vaultStored'[h] = IF op = "put" THEN NoEnvelope ELSE Owed(h)'
    BY <1>1, <1>7, <1>8, <2>3, <2>4
  <2>7. /\ op = "put" => c.data[h] = vaultPut'[h] /\ h \notin vaultRevoked'
        /\ op = "revoke" => c.data[h] = NoEnvelope
    BY <1>1, <1>7, <1>8, <2>2, <2>4
  <2>8. /\ op \in {"put", "revoke"} /\ h \in SecretHandles /\ (~Unused(h))'
    BY <1>7, <1>8
  <2> QED
    BY <1>3, <2>1, <2>5, <2>6, <2>7, <2>8 DEF CallOf
<1>9. FileInv'
  <2> SUFFICES ASSUME ~vaultBroken'
               PROVE  /\ \A v \in VaultClients \ {w} : vaultCall'[v].pc = "idle"
                      /\ vaultCall'[w].pc = "loaded"
                      /\ vaultStored' \in Stores
                      /\ CallOf(w)' /\ RevokedWerePut'
    BY DEF FileInv
  <2>1. \A v \in VaultClients \ {w} : vaultCall'[v].pc = "idle"
    BY <1>1, <1>2, <1>6 DEF NoVaultCall
  <2> QED
    BY <1>1, <1>2, <1>3, <1>7, <1>8, <2>1
<1>10. PlainInv'
  BY <1>1 DEF PlainInv
<1> QED
  BY <1>5, <1>9, <1>10

\* The file vault truncates the file.
LEMMA TruncateStep ==
    ASSUME VaultInv, NEW w \in VaultClients, TruncateFile(w)
    PROVE  VaultInv'
<1> USE DEF VaultInv
<1>1. /\ vaultCall[w].pc = "loaded" /\ vaultStored' = Truncated
      /\ vaultCall' = [vaultCall EXCEPT ![w].pc = "truncated"]
      /\ UNCHANGED <<vaultKind, vaultPut, vaultRevoked, vaultBroken, vaultNow>>
  BY DEF TruncateFile
<1>2. VaultTypeOK'
  BY <1>1 DEF VaultTypeOK, NoVaultCall
<1>3. vaultKind = "file"
  BY <1>1 DEF PlainInv, NoVaultCall
<1>4. /\ vaultCall'[w].pc = "truncated" /\ vaultCall'[w].op = vaultCall[w].op
      /\ vaultCall'[w].handle = vaultCall[w].handle /\ vaultCall'[w].data = vaultCall[w].data
      /\ \A v \in VaultClients \ {w} : vaultCall'[v] = vaultCall[v]
  BY <1>1 DEF VaultTypeOK
<1>5. ASSUME ~vaultBroken
      PROVE  /\ \A v \in VaultClients \ {w} : vaultCall[v].pc = "idle"
             /\ CallOf(w) /\ RevokedWerePut
  BY <1>1, <1>3, <1>5 DEF FileInv
<1>6. ASSUME ~vaultBroken PROVE CallOf(w)'
  <2>1. CallOf(w)
    BY <1>5, <1>6
  <2>2. /\ \A h \in SecretHandles : Owed(h)' = Owed(h)
        /\ \A h : Unused(h)' = Unused(h)
    BY <1>1 DEF Owed, Unused
  <2> QED
    BY <1>1, <1>4, <2>1, <2>2 DEF CallOf
<1>7. FileInv'
  BY <1>1, <1>4, <1>5, <1>6 DEF FileInv, RevokedWerePut, Unused
<1>8. PlainInv'
  BY <1>1, <1>3 DEF PlainInv
<1> QED
  BY <1>2, <1>7, <1>8

\* The file vault writes the file, and the operation returns.
LEMMA SaveStep ==
    ASSUME VaultInv, NEW w \in VaultClients, SaveFile(w)
    PROVE  VaultInv'
<1> USE DEF VaultInv
<1>1. /\ vaultCall[w].pc = "truncated" /\ vaultStored' = vaultCall[w].data
      /\ vaultRevoked' = IF vaultCall[w].op = "revoke" THEN vaultRevoked \cup {vaultCall[w].handle}
                         ELSE vaultRevoked
      /\ vaultCall' = [vaultCall EXCEPT ![w] = NoVaultCall]
      /\ UNCHANGED <<vaultKind, vaultPut, vaultBroken, vaultNow>>
  BY DEF SaveFile
<1>2. VaultTypeOK'
  BY <1>1 DEF VaultTypeOK, NoVaultCall
<1>3. vaultKind = "file"
  BY <1>1 DEF PlainInv, NoVaultCall
<1>4. /\ vaultCall'[w].pc = "idle"
      /\ \A v \in VaultClients \ {w} : vaultCall'[v] = vaultCall[v]
  BY <1>1 DEF VaultTypeOK, NoVaultCall
<1>5. ASSUME ~vaultBroken
      PROVE  /\ \A v \in VaultClients : vaultCall'[v].pc = "idle"
             /\ vaultStored' \in Stores /\ RevokedWerePut'
             /\ \A h \in SecretHandles : vaultStored'[h] = Owed(h)'
  <2>1. /\ \A v \in VaultClients \ {w} : vaultCall[v].pc = "idle"
        /\ CallOf(w) /\ RevokedWerePut
    BY <1>1, <1>3, <1>5 DEF FileInv
  <2> DEFINE c == vaultCall[w]
  <2>2. /\ c.op \in {"put", "revoke"} /\ c.handle \in SecretHandles /\ c.data \in Stores
        /\ \A h \in SecretHandles \ {c.handle} : c.data[h] = Owed(h)
        /\ ~Unused(c.handle) \/ c.op = "put"
        /\ c.op = "put" => c.data[c.handle] = vaultPut[c.handle] /\ c.handle \notin vaultRevoked
        /\ c.op = "revoke" => c.data[c.handle] = NoEnvelope
    BY <2>1 DEF CallOf
  <2>3. vaultStored' = c.data /\ vaultPut' = vaultPut
        /\ vaultRevoked' = IF c.op = "revoke" THEN vaultRevoked \cup {c.handle} ELSE vaultRevoked
    BY <1>1
  <2> HIDE DEF c
  <2>4. \A h \in SecretHandles : vaultStored'[h] = Owed(h)'
    BY <2>2, <2>3 DEF Owed
  <2>5. RevokedWerePut'
    BY <2>1, <2>2, <2>3 DEF RevokedWerePut, Unused
  <2> QED
    BY <1>4, <2>1, <2>2, <2>3, <2>4, <2>5
<1>6. FileInv'
  BY <1>1, <1>5 DEF FileInv
<1>7. PlainInv'
  BY <1>1, <1>3 DEF PlainInv
<1> QED
  BY <1>2, <1>6, <1>7

\* A process dies, inside an operation of the file vault or with the
\* development vault.
LEMMA VaultCrashStep ==
    ASSUME VaultInv, NEW w \in VaultClients, VaultCrash(w)
    PROVE  VaultInv'
<1> USE DEF VaultInv
<1>1. ASSUME vaultKind = "memory",
             vaultStored' = [h \in SecretHandles |-> NoEnvelope],
             vaultRevoked' = {h \in SecretHandles : ~Unused(h)},
             UNCHANGED <<vaultKind, vaultCall, vaultPut, vaultBroken, vaultDown, vaultKept, vaultNow>>
      PROVE  VaultInv'
  <2>1. vaultStored' \in Stores
    BY <1>1, EnvelopeFacts DEF Stores
  <2>2. VaultTypeOK'
    BY <1>1, <2>1 DEF VaultTypeOK
  <2>3. \A h \in SecretHandles : vaultStored'[h] = Owed(h)'
    BY <1>1 DEF Owed, Unused
  <2>4. RevokedWerePut'
    BY <1>1 DEF RevokedWerePut, Unused
  <2> QED
    BY <1>1, <2>1, <2>2, <2>3, <2>4 DEF PlainInv, FileInv
<1>2. ASSUME vaultCall[w] # NoVaultCall,
             vaultCall' = [vaultCall EXCEPT ![w] = NoVaultCall],
             vaultBroken' = (vaultBroken \/ vaultCall[w].pc = "truncated"),
             vaultPut' = IF vaultCall[w].op = "put"
                         THEN [vaultPut EXCEPT ![vaultCall[w].handle] = NoEnvelope] ELSE vaultPut,
             UNCHANGED <<vaultKind, vaultStored, vaultRevoked, vaultDown, vaultKept, vaultNow>>
      PROVE  VaultInv'
  <2>1. vaultKind = "file" /\ vaultCall[w].pc \in {"loaded", "truncated"}
    BY <1>2 DEF PlainInv, VaultTypeOK
  <2>2. vaultPut' \in Stores
    BY <1>2, EnvelopeFacts DEF VaultTypeOK, Stores
  <2>3. VaultTypeOK'
    BY <1>2, <2>2 DEF VaultTypeOK, NoVaultCall
  <2>4. /\ vaultCall'[w].pc = "idle"
        /\ \A v \in VaultClients \ {w} : vaultCall'[v] = vaultCall[v]
    BY <1>2 DEF VaultTypeOK, NoVaultCall
  <2>5. ASSUME ~vaultBroken'
        PROVE  /\ \A v \in VaultClients : vaultCall'[v].pc = "idle"
               /\ vaultStored' \in Stores /\ RevokedWerePut'
               /\ \A h \in SecretHandles : vaultStored'[h] = Owed(h)'
    <3>1. ~vaultBroken /\ vaultCall[w].pc = "loaded"
      BY <1>2, <2>1, <2>5
    <3>2. /\ \A v \in VaultClients \ {w} : vaultCall[v].pc = "idle"
          /\ CallOf(w) /\ RevokedWerePut /\ vaultPut \in Stores
      BY <2>1, <3>1 DEF FileInv, VaultTypeOK
    <3>3. vaultStored \in Stores
      BY <2>1, <3>1, <3>2 DEF FileInv
    <3> DEFINE c == vaultCall[w]
    <3>4. /\ c.op \in {"put", "revoke"} /\ c.handle \in SecretHandles
          /\ c.op = "put" => c.handle \notin vaultRevoked
          /\ \A h \in SecretHandles \ {c.handle} : vaultStored[h] = Owed(h)
          /\ vaultStored[c.handle] = IF c.op = "put" THEN NoEnvelope ELSE Owed(c.handle)
      BY <3>1, <3>2 DEF CallOf
    <3>5. /\ UNCHANGED <<vaultStored, vaultRevoked>>
          /\ vaultPut' = IF c.op = "put" THEN [vaultPut EXCEPT ![c.handle] = NoEnvelope] ELSE vaultPut
      BY <1>2
    <3> HIDE DEF c
    <3>6. \A h \in SecretHandles : vaultStored'[h] = Owed(h)'
      BY <3>2, <3>4, <3>5 DEF Owed, Stores
    <3>7. RevokedWerePut'
      BY <3>2, <3>4, <3>5 DEF RevokedWerePut, Unused, Stores
    <3> QED
      BY <2>4, <3>2, <3>3, <3>5, <3>6, <3>7
  <2>6. FileInv'
    BY <2>5 DEF FileInv
  <2>7. PlainInv'
    BY <1>2, <2>1 DEF PlainInv
  <2> QED
    BY <2>3, <2>6, <2>7
<1> QED
  BY <1>1, <1>2 DEF VaultCrash

\* In every reachable state each vault holds what it owes, or an exception of
\* the code applies.
THEOREM VaultInvariance == VaultSpec => []VaultInv
<1>1. VaultInit => VaultInv
  <2> SUFFICES ASSUME VaultInit PROVE VaultInv
    OBVIOUS
  <2>1. vaultStored \in Stores /\ vaultPut \in Stores
    <3>1. NoEnvelope \in Envelopes
      BY DEF Envelopes, NoEnvelope
    <3> QED
      BY <3>1 DEF VaultInit, Stores
  <2>2. VaultTypeOK
    <3>1. NoVaultCall \in [pc : {"idle", "loaded", "truncated"}, op : {"none", "put", "revoke"},
                           handle : SecretHandles \cup {"none"}, data : Stores \cup {Truncated}]
      BY DEF NoVaultCall
    <3>2. vaultCall \in [VaultClients -> [pc : {"idle", "loaded", "truncated"},
                                          op : {"none", "put", "revoke"},
                                          handle : SecretHandles \cup {"none"},
                                          data : Stores \cup {Truncated}]]
      BY <3>1 DEF VaultInit
    <3>3. vaultNow \in Int /\ \A w \in VaultClients : vaultCall[w] = NoVaultCall
      BY DEF VaultInit
    <3>4. vaultBroken \in BOOLEAN
      BY Zenon DEF VaultInit
    <3> QED
      BY <2>1, <3>2, <3>3, <3>4 DEF VaultTypeOK
  <2>3. \A h \in SecretHandles : vaultStored[h] = Owed(h)
    BY DEF VaultInit, Owed
  <2>4. RevokedWerePut
    BY DEF VaultInit, RevokedWerePut
  <2> QED
    BY <2>1, <2>2, <2>3, <2>4 DEF VaultInit, VaultInv, PlainInv, FileInv, NoVaultCall
<1>2. VaultInv /\ [VaultNext]_vaultVars => VaultInv'
  <2> SUFFICES ASSUME VaultInv, [VaultNext]_vaultVars PROVE VaultInv'
    OBVIOUS
  <2>0. VaultTypeOK
    BY DEF VaultInv
  <2>1. ASSUME NEW h \in SecretHandles, NEW s \in Scopes, NEW life \in SecretLifetimes,
               PutMemory(h, s, life) \/ PutBackend(h, s, life)
        PROVE  VaultInv'
    <3>1. vaultKind # "file" /\ StoreSecret(h, Envelope(s, life))
      BY <2>1 DEF PutMemory, PutBackend
    <3>2. Envelope(s, life) \in Envelopes /\ Envelope(s, life) # NoEnvelope
      BY <2>0, <2>1, EnvelopeFacts
    <3> QED
      BY <3>1, <3>2, StoreStep
  <2>2. ASSUME NEW h \in SecretHandles, NEW s \in Scopes, NEW life \in SecretLifetimes,
               NEW w \in VaultClients, LoadFile(w, "put", h, Envelope(s, life))
        PROVE  VaultInv'
    <3>1. Envelope(s, life) \in Envelopes /\ Envelope(s, life) # NoEnvelope
      BY <2>0, <2>2, EnvelopeFacts
    <3> QED
      BY <2>2, <3>1, LoadStep
  <2>3. ASSUME NEW h \in SecretHandles, NEW w \in VaultClients,
               LoadFile(w, "revoke", h, NoEnvelope)
        PROVE  VaultInv'
    BY <2>0, <2>3, EnvelopeFacts, LoadStep
  <2>4. CASE VaultOutage \/ VaultTick \/ UNCHANGED vaultVars
    <3>1. /\ UNCHANGED <<vaultKind, vaultStored, vaultCall, vaultPut, vaultRevoked, vaultBroken,
                         vaultKept>>
          /\ vaultNow' \in Int
      BY <2>0, <2>4 DEF VaultOutage, VaultTick, vaultVars, VaultTypeOK
    <3> QED
      BY <3>1 DEF VaultInv, VaultTypeOK, PlainInv, FileInv, CallOf, Owed, Unused, RevokedWerePut
  <2> QED
    BY <2>1, <2>2, <2>3, <2>4, DeleteStep, TruncateStep, SaveStep, VaultCrashStep DEF VaultNext
<1> QED
  BY <1>1, <1>2, PTL DEF VaultSpec

\* For every vault, any number of handles, scopes and processes: a secret comes
\* out for the scope it was put with, until it expires or is revoked, and for
\* nobody else; the exceptions are those SecretsAreLive names.
THEOREM SecretsComeOut == VaultSpec => []SecretsAreLive
<1>1. VaultInv => SecretsAreLive
  <2> SUFFICES ASSUME VaultInv, NEW h \in SecretHandles, NEW s \in Scopes, NEW t \in Scopes,
                      ~vaultBroken /\ h \notin vaultKept /\ ~vaultDown,
                      \A w \in VaultClients : vaultCall[w] = NoVaultCall
               PROVE  VaultGet(h, t, s) = "secret" <=>
                        /\ vaultPut[h].scope = s /\ t = s
                        /\ h \notin vaultRevoked
                        /\ vaultNow <= vaultPut[h].expires
    BY DEF SecretsAreLive
  <2>1. vaultStored \in Stores /\ vaultStored[h] = Owed(h)
    BY DEF VaultInv, PlainInv, FileInv, NoVaultCall
  <2>2. vaultStored # Truncated
    BY <2>1, EnvelopeFacts DEF VaultInv
  <2>3. VaultGet(h, t, s) = "secret" <=>
          /\ vaultStored[h] # NoEnvelope
          /\ vaultStored[h].scope = s /\ t = s
          /\ ~(vaultNow > vaultStored[h].expires)
    BY <2>2 DEF VaultGet, MemoryGet, BackendGet, ReadRaises, ReadSecret
  <2>4. vaultNow \in Int /\ vaultPut[h] \in Envelopes /\ s # ""
    BY VaultAssumption DEF VaultInv, VaultTypeOK, Stores
  <2>5. ~(vaultNow > vaultPut[h].expires) <=> vaultNow <= vaultPut[h].expires
    <3>1. vaultPut[h].expires \in Int /\ vaultNow \in Int
      BY <2>4 DEF Envelopes
    <3> QED
      BY <3>1
  <2>6. vaultPut[h] = NoEnvelope => vaultPut[h].scope # s
    <3>1. NoEnvelope.scope = ""
      BY DEF NoEnvelope
    <3> QED
      BY <2>4, <3>1
  <2>7. CASE h \in vaultRevoked
    BY <2>1, <2>3, <2>7 DEF Owed
  <2>8. CASE h \notin vaultRevoked
    <3>1. vaultStored[h] = vaultPut[h]
      BY <2>1, <2>8 DEF Owed
    <3> QED
      BY <2>3, <2>5, <2>6, <2>8, <3>1
  <2> QED
    BY <2>7, <2>8
<1> QED
  BY <1>1, VaultInvariance, PTL

-----------------------------------------------------------------------------
(* The capability grants of the policy engine.                              *)

PolicySpec == PolicyInit /\ [][PolicyNext]_polVars

Grants == DOMAIN polProfile.grants
Fits(k) == GrantApplies(polProfile.grants[k], polStep.tool, polUses[k], polNow)
Expired(k) == polNow > polProfile.grants[k].expires

PolTypeOK ==
    /\ polProfile \in Profiles
    /\ polNow \in Nat
    /\ polUses \in [Grants -> Nat]
    /\ polApproved \in [Grants -> Nat]

\* A grant that is still alive has counted every step it approved.
CountedOf(k) ==
    /\ polUses[k] <= polProfile.grants[k].maxUses
    /\ \/ polApproved[k] <= polUses[k]
       \/ Expired(k) /\ polApproved[k] <= polProfile.grants[k].maxUses

\* The grant that approved the step under way has a use left and is still the
\* first that fits, unless it has expired since.
PendingInv ==
    polGrant # 0 =>
        /\ polGrant \in Grants
        /\ polUses[polGrant] < polProfile.grants[polGrant].maxUses
        /\ polApproved[polGrant] <= polUses[polGrant]
        /\ Fits(polGrant) \/ Expired(polGrant)
        /\ \A l \in Grants : l < polGrant => ~Fits(l)

PolicyInv == PolTypeOK /\ (\A k \in Grants : CountedOf(k)) /\ PendingInv

\* A non-empty set of natural numbers has a least element.
LEMMA LeastElement ==
    ASSUME NEW T, T \subseteq Nat, T # {}
    PROVE  \E x \in T : \A y \in T : x <= y
<1> DEFINE R == OpToRel(<, Nat)
<1>1. IsWellFoundedOn(R, Nat)
  BY NatLessThanWellFounded
<1>2. \A x, y \in Nat : x < y => <<x, y>> \in R
  BY DEF OpToRel
<1> HIDE DEF R
<1>3. PICK x \in T : \A y \in T : ~ (<<y, x>> \in R)
  BY <1>1, WFMin
<1>4. ASSUME NEW y \in T PROVE x <= y
  <2>1. x \in Nat /\ y \in Nat
    BY <1>3, <1>4
  <2>2. ~(y < x)
    BY <1>2, <1>3, <1>4, <2>1
  <2> QED
    BY <2>1, <2>2
<1> QED
  BY <1>3, <1>4

\* _matching_grant finds the first grant that applies.
LEMMA MatchingIsFirst ==
    ASSUME NEW p \in Profiles, NEW s,
           polUses \in [DOMAIN p.grants -> Nat], polNow \in Nat
    PROVE  LET fits(k) == GrantApplies(p.grants[k], s.tool, polUses[k], polNow)
               m == MatchingGrant(p, s)
           IN  \/ m = 0 /\ \A k \in DOMAIN p.grants : ~fits(k)
               \/ /\ m \in DOMAIN p.grants /\ m # 0 /\ fits(m)
                  /\ \A l \in DOMAIN p.grants : l < m => ~fits(l)
<1> DEFINE fits(k) == GrantApplies(p.grants[k], s.tool, polUses[k], polNow)
           fit == {k \in DOMAIN p.grants : fits(k)}
           m == MatchingGrant(p, s)
<1>1. DOMAIN p.grants \subseteq Nat \ {0}
  BY PolicyAssumption
<1>2. m = IF fit = {} THEN 0 ELSE CHOOSE k \in fit : \A l \in fit : k <= l
  BY DEF MatchingGrant
<1>3. fit \subseteq Nat
  BY <1>1
<1>4. CASE fit = {}
  BY <1>2, <1>4
<1>5. CASE fit # {}
  <2>1. \E k \in fit : \A l \in fit : k <= l
    <3> HIDE DEF fit
    <3> QED
      BY <1>3, <1>5, LeastElement
  <2>2. m \in fit /\ \A l \in fit : m <= l
    BY <1>2, <1>5, <2>1
  <2>3. m \in DOMAIN p.grants /\ m # 0 /\ fits(m)
    BY <1>1, <2>2
  <2>4. ASSUME NEW l \in DOMAIN p.grants, l < m PROVE ~fits(l)
    <3>1. l \in Nat /\ m \in Nat
      BY <1>1, <2>3
    <3>2. ~(m <= l)
      BY <2>4, <3>1
    <3> QED
      BY <2>2, <3>2
  <2> QED
    BY <2>3, <2>4
<1> QED
  BY <1>4, <1>5

\* Time only takes grants away.
LEMMA FitsBackwards ==
    ASSUME PolTypeOK, PolTypeOK', NEW k \in Grants, UNCHANGED <<polProfile, polStep, polUses>>,
           polNow' \in {polNow, polNow + 1}
    PROVE  /\ Fits(k)' => Fits(k)
           /\ Fits(k) => Fits(k)' \/ Expired(k)'
           /\ Expired(k) => Expired(k)'
<1> DEFINE e == polProfile.grants[k].expires
<1>1. e \in Nat /\ polNow \in Nat /\ polNow' \in Nat
  BY PolicyAssumption DEF PolTypeOK, Grants
<1>2. /\ polNow' <= e => polNow <= e
      /\ polNow' <= e \/ polNow' > e
      /\ polNow > e => polNow' > e
  <2> HIDE DEF e
  <2> QED
    BY <1>1
<1> QED
  BY <1>2 DEF Fits, Expired, GrantApplies

\* A step is proposed and decided.
LEMMA ProposeStep ==
    ASSUME PolicyInv, NEW s \in Steps, Propose(s)
    PROVE  PolicyInv'
<1>1. /\ polStep' = s /\ UNCHANGED <<polProfile, polUses, polApproved, polNow>>
      /\ polGrant' \in {0, MatchingGrant(polProfile, s)}
  BY DEF Propose
<1>2. PolTypeOK' /\ \A k \in Grants' : CountedOf(k)'
  BY <1>1 DEF PolicyInv, PolTypeOK, CountedOf, Expired, Grants
<1>3. ASSUME polGrant' # 0
      PROVE  /\ polGrant' \in Grants
             /\ GrantApplies(polProfile.grants[polGrant'], s.tool, polUses[polGrant'], polNow)
             /\ \A l \in Grants : l < polGrant' =>
                  ~GrantApplies(polProfile.grants[l], s.tool, polUses[l], polNow)
  BY <1>1, <1>3, MatchingIsFirst DEF PolicyInv, PolTypeOK, Grants
<1>4. ASSUME polGrant' # 0
      PROVE  /\ polUses[polGrant'] < polProfile.grants[polGrant'].maxUses
             /\ polApproved[polGrant'] <= polUses[polGrant']
  <2> DEFINE g == polProfile.grants[polGrant']
  <2>1. g.expires \in Nat /\ polNow \in Nat
    BY <1>3, <1>4, PolicyAssumption DEF PolicyInv, PolTypeOK, Grants
  <2>2. polUses[polGrant'] < g.maxUses /\ polNow <= g.expires
    BY <1>3, <1>4 DEF GrantApplies
  <2>3. ~Expired(polGrant')
    BY <2>1, <2>2 DEF Expired
  <2>4. CountedOf(polGrant')
    BY <1>3, <1>4 DEF PolicyInv
  <2> QED
    BY <2>2, <2>3, <2>4 DEF CountedOf
<1>5. PendingInv'
  BY <1>1, <1>3, <1>4 DEF PendingInv, Fits, Grants
<1> QED
  BY <1>2, <1>5 DEF PolicyInv

\* The step is verified: the grant is looked up again and counted.
LEMMA VerifiedStep ==
    ASSUME PolicyInv, Verified
    PROVE  PolicyInv'
<1> DEFINE m == MatchingGrant(polProfile, polStep)
<1>1. /\ polUses' = IF m = 0 THEN polUses ELSE [polUses EXCEPT ![m] = @ + 1]
      /\ polApproved' = IF polGrant = 0 THEN polApproved
                        ELSE [polApproved EXCEPT ![polGrant] = @ + 1]
      /\ polGrant' = 0 /\ UNCHANGED <<polProfile, polNow>>
  BY DEF Verified
<1>2. \/ m = 0 /\ \A k \in Grants : ~Fits(k)
      \/ m \in Grants /\ m # 0 /\ Fits(m) /\ \A l \in Grants : l < m => ~Fits(l)
  BY MatchingIsFirst DEF PolicyInv, PolTypeOK, Grants, Fits
<1> HIDE DEF m
<1>3. PolTypeOK'
  <2>1. polUses' \in [Grants -> Nat]
    BY <1>1, <1>2 DEF PolicyInv, PolTypeOK
  <2>2. polApproved' \in [Grants -> Nat]
    BY <1>1 DEF PolicyInv, PolTypeOK, PendingInv
  <2> QED
    BY <1>1, <2>1, <2>2 DEF PolicyInv, PolTypeOK, Grants
<1>4. Grants \subseteq Nat \ {0}
  BY PolicyAssumption DEF PolicyInv, PolTypeOK, Grants
<1>5. polGrant # 0 => m = polGrant \/ Expired(polGrant)
  <2> SUFFICES ASSUME polGrant # 0, ~Expired(polGrant) PROVE m = polGrant
    OBVIOUS
  <2>1. polGrant \in Grants /\ Fits(polGrant) /\ \A l \in Grants : l < polGrant => ~Fits(l)
    BY DEF PolicyInv, PendingInv
  <2>2. m \in Grants /\ Fits(m) /\ \A l \in Grants : l < m => ~Fits(l)
    BY <1>2, <2>1
  <2>3. ~(m < polGrant) /\ ~(polGrant < m) /\ m \in Nat /\ polGrant \in Nat
    BY <1>4, <2>1, <2>2
  <2> QED
    BY <2>3
<1>6. ASSUME NEW k \in Grants PROVE CountedOf(k)'
  <2> DEFINE max == polProfile.grants[k].maxUses
             u == polUses[k]
             a == polApproved[k]
             u2 == polUses'[k]
             a2 == polApproved'[k]
  <2>1. max \in Nat /\ u \in Nat /\ a \in Nat
    BY PolicyAssumption DEF PolicyInv, PolTypeOK, Grants
  <2>2. u2 = IF m = k THEN u + 1 ELSE u
    BY <1>1, <1>2, <1>4, PolicyAssumption DEF PolicyInv, PolTypeOK, Grants
  <2>3. a2 = IF polGrant = k THEN a + 1 ELSE a
    BY <1>1, <1>4, PolicyAssumption DEF PolicyInv, PolTypeOK, Grants, PendingInv
  <2>4. m = k => u < max
    <3>1. k # 0
      BY <1>4
    <3> QED
      BY <1>2, <3>1 DEF Fits, GrantApplies
  <2>5. polGrant = k => u < max /\ a <= u /\ (m = k \/ Expired(k))
    BY <1>4, <1>5, PolicyAssumption DEF PolicyInv, PolTypeOK, Grants, PendingInv
  <2>6. u <= max /\ (a <= u \/ (Expired(k) /\ a <= max))
    BY DEF PolicyInv, CountedOf
  <2> HIDE DEF max, u, a, u2, a2
  <2>7. u2 <= max /\ (a2 <= u2 \/ (Expired(k) /\ a2 <= max))
    BY <2>1, <2>2, <2>3, <2>4, <2>5, <2>6
  <2> QED
    BY <1>1, <2>7 DEF CountedOf, Expired, max, u2, a2
<1>7. PendingInv'
  BY <1>1 DEF PendingInv
<1> QED
  BY <1>1, <1>3, <1>6, <1>7 DEF PolicyInv, Grants

\* No grant approves more verified steps than its uses allow, for any profile,
\* list of grants and sequence of steps, although a use is counted after the
\* step and against whichever grant matches then.
THEOREM GrantsStayBounded == PolicySpec => []GrantsAreBounded
<1>1. PolicyInit => PolicyInv
  <2> SUFFICES ASSUME PolicyInit PROVE PolicyInv
    OBVIOUS
  <2>1. PolTypeOK
    BY DEF PolicyInit, PolTypeOK, Grants
  <2>2. ASSUME NEW k \in Grants PROVE CountedOf(k)
    <3>1. polUses[k] = 0 /\ polApproved[k] = 0 /\ polProfile.grants[k].maxUses \in Nat
      BY PolicyAssumption DEF PolicyInit, Grants
    <3> QED
      BY <3>1 DEF CountedOf
  <2> QED
    BY <2>1, <2>2 DEF PolicyInit, PolicyInv, PendingInv
<1>2. PolicyInv /\ [PolicyNext]_polVars => PolicyInv'
  <2> SUFFICES ASSUME PolicyInv, [PolicyNext]_polVars PROVE PolicyInv'
    OBVIOUS
  <2>1. CASE Dropped
    BY <2>1 DEF Dropped, PolicyInv, PolTypeOK, PendingInv, CountedOf, Expired, Grants
  <2>2. CASE PolicyTick \/ UNCHANGED polVars
    <3>1. /\ UNCHANGED <<polProfile, polStep, polGrant, polUses, polApproved>>
          /\ polNow' \in {polNow, polNow + 1}
      BY <2>2 DEF PolicyTick, polVars
    <3>2. PolTypeOK'
      BY <3>1 DEF PolicyInv, PolTypeOK, Grants
    <3>3. \A k \in Grants : /\ Fits(k)' => Fits(k)
                            /\ Fits(k) => Fits(k)' \/ Expired(k)'
                            /\ Expired(k) => Expired(k)'
      BY <3>1, <3>2, FitsBackwards DEF PolicyInv
    <3>4. Grants' = Grants
      BY <3>1 DEF Grants
    <3>5. \A k \in Grants : CountedOf(k)'
      BY <3>1, <3>3 DEF PolicyInv, CountedOf
    <3>6. PendingInv'
      BY <3>1, <3>3, <3>4 DEF PolicyInv, PendingInv
    <3> QED
      BY <3>2, <3>4, <3>5, <3>6 DEF PolicyInv
  <2> QED
    BY <2>1, <2>2, ProposeStep, VerifiedStep DEF PolicyNext
<1>3. PolicyInv => GrantsAreBounded
  <2> SUFFICES ASSUME PolicyInv, NEW k \in DOMAIN polApproved
               PROVE  polApproved[k] <= polProfile.grants[k].maxUses
    BY DEF GrantsAreBounded
  <2>1. k \in Grants /\ CountedOf(k)
    BY DEF PolicyInv, PolTypeOK
  <2>2. /\ polProfile.grants[k].maxUses \in Nat /\ polUses[k] \in Nat /\ polApproved[k] \in Nat
    BY <2>1, PolicyAssumption DEF PolicyInv, PolTypeOK, Grants
  <2> QED
    BY <2>1, <2>2 DEF CountedOf
<1> QED
  BY <1>1, <1>2, <1>3, PTL DEF PolicySpec
-----------------------------------------------------------------------------
(* The policy engine: what it approves.                                     *)

\* The step t asks for what s asks for, and perhaps for more.
AsMuchAs(s, t) ==
    /\ t.tool = s.tool /\ t.reversibility = s.reversibility
    /\ s.permissions \subseteq t.permissions
    /\ Assess(s) \in 1 .. 4 /\ Assess(t) \in 1 .. 4 /\ Assess(s) <= Assess(t)

\* One more permission, or a higher risk.
LEMMA AskingMore ==
    ASSUME NEW s \in Steps, NEW t \in AsksMore(s)
    PROVE  AsMuchAs(s, t)
<1>1. /\ {"tool", "permissions", "risk", "destructive", "reversibility"} \subseteq DOMAIN s
      /\ s.risk \in 1 .. 4
  BY PolicyAssumption
<1>2. CASE \E q \in StepPermissions : t = [s EXCEPT !.permissions = s.permissions \cup {q}]
  <2>1. PICK q : t = [s EXCEPT !.permissions = s.permissions \cup {q}]
    BY <1>2
  <2>2. /\ t.tool = s.tool /\ t.reversibility = s.reversibility /\ t.destructive = s.destructive
        /\ t.risk = s.risk /\ t.permissions = s.permissions \cup {q}
    BY <1>1, <2>1
  <2> QED
    BY <1>1, <2>2 DEF AsMuchAs, Assess, Critical, High
<1>3. CASE \E r \in s.risk .. Critical : t = [s EXCEPT !.risk = r]
  <2>1. PICK r \in s.risk .. Critical : t = [s EXCEPT !.risk = r]
    BY <1>3
  <2>2. /\ t.tool = s.tool /\ t.reversibility = s.reversibility /\ t.destructive = s.destructive
        /\ t.risk = r /\ t.permissions = s.permissions
    BY <1>1, <2>1
  <2> QED
    BY <1>1, <2>2 DEF AsMuchAs, Assess, Critical, High
<1> QED
  BY <1>2, <1>3 DEF AsksMore

\* _decide_by_rules never approves, and a rule that stops a step stops one that
\* asks for more.
LEMMA RulesStop ==
    ASSUME NEW p \in Profiles, NEW s
    PROVE  LET hits == {k \in DOMAIN p.rules : RuleMatches(p.rules[k], p, s)}
           IN  /\ hits = {} => DecideByRules(p, s) = "none"
               /\ hits # {} => DecideByRules(p, s) \in {"denied", "needs_human"}
<1> DEFINE hits == {k \in DOMAIN p.rules : RuleMatches(p.rules[k], p, s)}
           first == CHOOSE k \in hits : \A l \in hits : k <= l
<1>1. /\ hits \subseteq Nat
      /\ \A k \in hits : p.rules[k].decision \in {"denied", "needs_human"}
  BY PolicyAssumption
<1>2. DecideByRules(p, s) = IF hits = {} THEN "none" ELSE p.rules[first].decision
  BY DEF DecideByRules
<1> HIDE DEF hits
<1>3. hits # {} => first \in hits
  BY <1>1, LeastElement
<1> HIDE DEF first
<1> QED
  BY <1>1, <1>2, <1>3 DEF hits

\* A step the engine stops stays stopped when it asks for more.
LEMMA MoreIsStopped ==
    ASSUME NEW p \in Profiles, NEW s, NEW t, AsMuchAs(s, t),
           MatchingGrant(p, s) \in DOMAIN p.grants \cup {0},
           Decide(p, t) = "approved"
    PROVE  Decide(p, s) = "approved"
<1> DEFINE k == MatchingGrant(p, s)
           hits(x) == {l \in DOMAIN p.rules : RuleMatches(p.rules[l], p, x)}
<1>1. MatchingGrant(p, t) = k
  BY DEF MatchingGrant, AsMuchAs
<1>2. DecideByRules(p, t) = "none" /\ hits(t) = {}
  <2>1. /\ hits(t) = {} => DecideByRules(p, t) = "none"
        /\ hits(t) # {} => DecideByRules(p, t) \in {"denied", "needs_human"}
    BY RulesStop
  <2> HIDE DEF hits
  <2> QED
    BY <2>1 DEF Decide, DecideWith
<1>3. hits(s) = {}
  <2> SUFFICES ASSUME NEW l \in DOMAIN p.rules, RuleMatches(p.rules[l], p, s)
               PROVE  RuleMatches(p.rules[l], p, t)
    BY <1>2
  <2>1. p.rules[l].riskAtLeast \in Nat
    BY PolicyAssumption
  <2> QED
    BY <2>1 DEF RuleMatches, AsMuchAs
<1>4. DecideByRules(p, s) = "none"
  BY <1>3, RulesStop
<1>5. s.permissions \cap p.deny = {} /\ t.permissions \cap p.deny = {}
  BY <1>2 DEF Decide, DecideWith, AsMuchAs
<1>6. ASSUME NEW granted, NEW maxRisk \in Nat, Demands(p, t, granted, maxRisk) = "approved"
      PROVE  Demands(p, s, granted, maxRisk) = "approved"
  <2>1. /\ t.permissions \cap p.human = {} /\ t.permissions \subseteq granted
        /\ ~(Assess(t) > maxRisk)
        /\ ~(Consequential(t) /\ t.reversibility # "reversible")
    BY <1>6 DEF Demands
  <2>2. /\ s.permissions \cap p.human = {} /\ s.permissions \subseteq granted
        /\ ~(Assess(s) > maxRisk)
        /\ Consequential(s) => Consequential(t)
    BY <2>1 DEF AsMuchAs, Consequential, Medium
  <2> QED
    BY <2>1, <2>2 DEF Demands, AsMuchAs
<1>7. CASE k = 0
  <2>1. Demands(p, t, p.granted, p.maxRisk) = "approved"
    BY <1>1, <1>2, <1>5, <1>7 DEF Decide, DecideWith
  <2>2. Demands(p, s, p.granted, p.maxRisk) = "approved"
    BY <1>6, <2>1, PolicyAssumption
  <2> QED
    BY <1>4, <1>5, <1>7, <2>2 DEF Decide, DecideWith
<1>8. CASE k # 0
  <2> DEFINE g == p.grants[k]
             m == IF g.maxRisk = 0 THEN p.maxRisk ELSE g.maxRisk
  <2>1. m \in Nat
    BY <1>8, PolicyAssumption
  <2>2. t.permissions \cap g.deny = {} /\ Demands(p, t, g.permissions, m) = "approved"
    BY <1>1, <1>2, <1>5, <1>8 DEF Decide, DecideWith
  <2>3. s.permissions \cap g.deny = {}
    BY <2>2 DEF AsMuchAs
  <2>4. Demands(p, s, g.permissions, m) = "approved"
    <3> HIDE DEF m, g
    <3> QED
      BY <1>6, <2>1, <2>2
  <2> QED
    BY <1>4, <1>5, <1>8, <2>3, <2>4 DEF Decide, DecideWith
<1> QED
  BY <1>7, <1>8

\* _matching_grant finds a grant of the profile or none.
LEMMA MatchingIsAGrant ==
    ASSUME NEW p \in Profiles, NEW s
    PROVE  MatchingGrant(p, s) \in DOMAIN p.grants \cup {0}
<1> DEFINE fit == {k \in DOMAIN p.grants : GrantApplies(p.grants[k], s.tool, polUses[k], polNow)}
           first == CHOOSE k \in fit : \A l \in fit : k <= l
<1>1. fit \subseteq Nat /\ fit \subseteq DOMAIN p.grants
  BY PolicyAssumption
<1>2. MatchingGrant(p, s) = IF fit = {} THEN 0 ELSE first
  BY DEF MatchingGrant
<1> HIDE DEF fit
<1>3. fit # {} => first \in fit
  BY <1>1, LeastElement
<1> HIDE DEF first
<1> QED
  BY <1>1, <1>2, <1>3

\* A step under way passed the blocks of production, and an approved one was
\* approved by the profile, with a grant of its own or without.
JudgedInv ==
    /\ polProfile \in Profiles
    /\ polStep # NoStep => polStep \in Steps
    /\ polDecision \in {"approved", "human_approved"} =>
         /\ polStep \in Steps
         /\ ~AttestationBlocks(polProfile, polStep)
         /\ ~ProductionBlocks(polProfile, polStep)
    /\ polDecision = "approved" =>
         \E k \in DOMAIN polProfile.grants \cup {0} :
            DecideWith(polProfile, polStep, k) = "approved"

\* The three production profiles grant nothing and take no risk.
LEMMA ProductionGrantsNothing ==
    ASSUME NEW p \in {Production, ProductionLockedDown, ProductionGithubOnly}
    PROVE  p.granted = {} /\ p.maxRisk = 1 /\ p.grants = <<>>
<1>1. Production.granted = {} /\ Production.maxRisk = 1 /\ Production.grants = <<>>
  BY DEF Production, PlainProfile, Low
<1>2. /\ ProductionLockedDown.granted = {} /\ ProductionLockedDown.maxRisk = 1
      /\ ProductionLockedDown.grants = <<>>
  BY DEF ProductionLockedDown, PlainProfile, Low
<1>3. /\ ProductionGithubOnly.granted = {} /\ ProductionGithubOnly.maxRisk = 1
      /\ ProductionGithubOnly.grants = <<>>
  BY DEF ProductionGithubOnly, ProductionLockedDown, PlainProfile, Low
<1> QED
  BY <1>1, <1>2, <1>3

\* What the engine approves by itself, the profile neither denies nor keeps for
\* humans.
LEMMA ApprovedIsPermitted ==
    ASSUME NEW p \in Profiles, NEW s \in Steps, NEW k \in DOMAIN p.grants \cup {0},
           DecideWith(p, s, k) = "approved"
    PROVE  /\ s.permissions \cap (p.deny \cup p.human) = {}
           /\ p \in {Production, ProductionLockedDown, ProductionGithubOnly} =>
                s.permissions = {} /\ Assess(s) = Low
<1>1. DecideByRules(p, s) = "none"
  <2>1. DecideByRules(p, s) \in {"none", "denied", "needs_human"}
    BY RulesStop
  <2> QED
    BY <2>1 DEF DecideWith
<1>2. s.permissions \cap p.deny = {}
  BY <1>1 DEF DecideWith
<1>3. s.permissions \cap p.human = {}
  BY <1>1, <1>2 DEF DecideWith, Demands
<1>4. ASSUME p \in {Production, ProductionLockedDown, ProductionGithubOnly}
      PROVE  s.permissions = {} /\ Assess(s) = Low
  <2>1. p.granted = {} /\ p.maxRisk = 1 /\ p.grants = <<>>
    BY <1>4, ProductionGrantsNothing
  <2>2. k = 0
    BY <2>1
  <2>3. Demands(p, s, {}, 1) = "approved"
    BY <1>1, <1>2, <2>1, <2>2 DEF DecideWith
  <2>4. s.permissions = {} /\ ~(Assess(s) > 1)
    BY <2>3 DEF Demands
  <2>5. Assess(s) \in 1 .. 4
    BY PolicyAssumption DEF Assess, Critical, High
  <2> QED
    BY <2>4, <2>5 DEF Low
<1> QED
  BY <1>2, <1>3, <1>4

\* What the two production checks leave of a network step.
LEMMA NetworkIsConfined ==
    ASSUME NEW p, NEW s \in Steps, p.production, IsNetwork(s),
           ~AttestationBlocks(p, s), ~ProductionBlocks(p, s)
    PROVE  /\ HostOf(s) \in p.hosts
           /\ EgressMethods(s) \subseteq p.methods
           /\ s.runtime.mode = "enforced" => s.methods \subseteq s.runtime.methods
           /\ p.name = "production_github_only" => s.runtime.mode = "enforced"
           /\ s.reversibility # "irreversible" /\ HostOf(s) = s.host =>
                ~RollbackEgressBlocks(p, s)
<1>1. ~EgressBlocks(p, s)
  BY DEF ProductionBlocks
<1>2. /\ p.egress /\ HostOf(s) # "" /\ EgressMethods(s) # {}
      /\ \A m \in EgressMethods(s) : EgressAllows(p, HostOf(s), m)
      /\ s.reversibility \in {"reversible", "compensatable"} =>
           /\ s.rollbackMethods # {}
           /\ \A m \in s.rollbackMethods : EgressAllows(p, HostOf(s), m)
  BY <1>1 DEF EgressBlocks
<1>3. HostOf(s) \in p.hosts /\ EgressMethods(s) \subseteq p.methods
  BY <1>2 DEF EgressAllows
<1>4. /\ s.runtime.mode \in {"enforced", "in_memory"}
      /\ ~(p.name = "production_github_only" /\ s.runtime.mode = "in_memory")
      /\ s.runtime.mode = "enforced" => s.methods \cup s.rollbackMethods \subseteq s.runtime.methods
  BY DEF AttestationBlocks
<1>5. ASSUME s.reversibility # "irreversible", HostOf(s) = s.host
      PROVE  ~RollbackEgressBlocks(p, s)
  <2>1. s.reversibility \in {"reversible", "compensatable"}
    BY <1>5, PolicyAssumption
  <2> QED
    BY <1>2, <1>5, <2>1 DEF RollbackEgressBlocks
<1> QED
  BY <1>3, <1>4, <1>5

\* Whatever is under way was judged by the profile in force: blocked steps do
\* not run, and an approval comes from the rules and the grants alone.
THEOREM JudgedInvariance == PolicySpec => []JudgedInv
<1>1. PolicyInit => JudgedInv
  BY DEF PolicyInit, JudgedInv
<1>2. JudgedInv /\ [PolicyNext]_polVars => JudgedInv'
  <2> SUFFICES ASSUME JudgedInv, [PolicyNext]_polVars PROVE JudgedInv'
    OBVIOUS
  <2>1. CASE UNCHANGED polVars
    BY <2>1 DEF polVars, JudgedInv
  <2>2. ASSUME NEW s \in Steps, Propose(s) PROVE JudgedInv'
    <3> DEFINE blocked == AttestationBlocks(polProfile, s) \/ ProductionBlocks(polProfile, s)
               d == IF blocked THEN "blocked" ELSE Decide(polProfile, s)
    <3>1. /\ polProfile \in Profiles /\ polProfile' = polProfile /\ polStep' = s
          /\ polDecision' \in IF d = "needs_human" THEN HumanAnswers ELSE {d}
      BY <2>2 DEF Propose, JudgedInv
    <3>2. polDecision' \in {"approved", "human_approved"} => ~blocked
      BY <3>1 DEF HumanAnswers
    <3>3. polDecision' = "approved" => Decide(polProfile, s) = "approved"
      BY <3>1 DEF HumanAnswers
    <3>4. MatchingGrant(polProfile, s) \in DOMAIN polProfile.grants \cup {0}
      BY <3>1, MatchingIsAGrant
    <3> HIDE DEF d
    <3> QED
      BY <3>1, <3>2, <3>3, <3>4 DEF JudgedInv, Decide
  <2>3. CASE Verified
    BY <2>3 DEF Verified, JudgedInv
  <2>4. CASE Dropped
    BY <2>4 DEF Dropped, JudgedInv
  <2>5. CASE PolicyTick
    BY <2>5 DEF PolicyTick, JudgedInv
  <2> QED
    BY <2>1, <2>2, <2>3, <2>4, <2>5 DEF PolicyNext
<1> QED
  BY <1>1, <1>2, PTL DEF PolicySpec

\* A step that runs without a human asks for nothing that the profile denies or
\* keeps for humans; one that asks for more never gets through where less is
\* stopped; and a hardened profile confines what its network steps reach.
THEOREM Monotone == PolicySpec => []PolicyIsMonotone
<1>1. JudgedInv => PolicyIsMonotone
  <2> SUFFICES ASSUME JudgedInv PROVE PolicyIsMonotone
    OBVIOUS
  <2>1. ASSUME polDecision = "approved"
        PROVE  /\ polStep.permissions \cap (polProfile.deny \cup polProfile.human) = {}
               /\ polProfile \in {Production, ProductionLockedDown, ProductionGithubOnly} =>
                    polStep.permissions = {} /\ Assess(polStep) = Low
    <3>1. /\ polProfile \in Profiles /\ polStep \in Steps
          /\ \E k \in DOMAIN polProfile.grants \cup {0} :
               DecideWith(polProfile, polStep, k) = "approved"
      BY <2>1 DEF JudgedInv
    <3> QED
      BY <3>1, ApprovedIsPermitted
  <2>2. ASSUME polStep # NoStep, Decide(polProfile, polStep) # "approved",
               NEW t \in AsksMore(polStep)
        PROVE  Decide(polProfile, t) # "approved"
    <3>1. polProfile \in Profiles /\ polStep \in Steps
      BY <2>2 DEF JudgedInv
    <3>2. AsMuchAs(polStep, t)
      BY <2>2, <3>1, AskingMore
    <3>3. MatchingGrant(polProfile, polStep) \in DOMAIN polProfile.grants \cup {0}
      BY <3>1, MatchingIsAGrant
    <3> QED
      BY <2>2, <3>1, <3>2, <3>3, MoreIsStopped
  <2>3. ASSUME polDecision \in {"approved", "human_approved"}, polProfile.production,
               IsNetwork(polStep)
        PROVE  /\ HostOf(polStep) \in polProfile.hosts
               /\ EgressMethods(polStep) \subseteq polProfile.methods
               /\ polStep.runtime.mode = "enforced" =>
                    polStep.methods \subseteq polStep.runtime.methods
               /\ polProfile.name = "production_github_only" =>
                    polStep.runtime.mode = "enforced"
               /\ polStep.reversibility # "irreversible" /\ HostOf(polStep) = polStep.host =>
                    ~RollbackEgressBlocks(polProfile, polStep)
    <3>1. /\ polStep \in Steps /\ ~AttestationBlocks(polProfile, polStep)
          /\ ~ProductionBlocks(polProfile, polStep)
      BY <2>3 DEF JudgedInv
    <3> QED
      BY <2>3, <3>1, NetworkIsConfined
  <2> QED
    BY <2>1, <2>2, <2>3 DEF PolicyIsMonotone
<1> QED
  BY <1>1, JudgedInvariance, PTL

-----------------------------------------------------------------------------
(* The GitHub tools.                                                        *)

GitHubToolsSpec == GitHubToolsInit /\ [][GitHubToolsNext]_ghVars

GhTypeOK ==
    /\ ghAccess \in BOOLEAN /\ ghComment \in BOOLEAN
    /\ ghRaced \in BOOLEAN /\ ghSince \in BOOLEAN
    /\ ghHead \in Nat
    /\ ghPr \in [state : {"none", "open", "closed"}, kind : PrKinds]
    /\ ghCall = [tool |-> ghCall.tool, pc |-> ghCall.pc,
                 expected |-> ghCall.expected, seen |-> ghCall.seen]
    /\ ghUndo = [tool |-> ghUndo.tool, previous |-> ghUndo.previous,
                 auth |-> ghUndo.auth, left |-> ghUndo.left]
    /\ ghReport.ok \in BOOLEAN
    /\ At("open_pr", "post") => ghCall.seen \in PrKinds

\* Nothing is reported while a call is under way, and a rollback took a missing
\* branch or comment for a deleted one only after the token lost its access.  An
\* open request has its branch.
ReportInv ==
    /\ ghCall # NoGhCall => ghReport = NoReport
    /\ ghCall.tool \in {"undo_branch", "undo_comment"} /\ ghCall.pc = "confirm" => ~ghAccess
    /\ ghPr.state = "open" => ghHead # 0
    /\ GitHubReportsAreTrue

\* What a tool has checked when it sends its write.  There is a rollback token
\* only between two calls, and none while the record of a closed request or a
\* deleted branch stands.
TargetInv ==
    /\ ghCall.tool \in {"update_file", "update_by_sha"} /\ ghCall.pc = "put"
         => ghCall.seen = ghCall.expected
    /\ At("close_pr", "patch") /\ ~ghRaced => ghPr.kind # "other"
    /\ At("delete_branch", "delete") /\ ~ghRaced => ghHead = ghCall.expected
    /\ ghCall # NoGhCall => ghUndo = NoUndo
    /\ ghCall.tool \in {"close_pr", "delete_branch"} /\ ghCall.pc = "send" => ghHit = NoHit
    /\ ghHit.what \in {"pr", "branch"} =>
         ghUndo = NoUndo /\ ghCall.tool \in {"none", "close_pr", "delete_branch"}
    /\ ghHit.what \in {"none", "file", "pr", "branch", "undo"}
    /\ WritesHitTheirTarget

\* What a tool left is what its rollback finds, if nobody else stepped in.
LeftInv ==
    ~ghSince =>
        /\ ghUndo.tool = "create_branch" => ghHead = ghUndo.left
        /\ ghUndo.tool = "open_pr" => ghPr = ghUndo.left
        /\ ghUndo.tool = "update_file" => ghFile = NewContent
        /\ ghCall.tool = "undo_branch" => ghHead = ghCall.expected
        /\ ghCall.tool = "undo_pr" => ghPr = ghCall.expected
        /\ ghCall.tool = "undo_file" => ghFile = NewContent

GhInv == GhTypeOK /\ ReportInv /\ TargetInv /\ LeftInv

\* The record of a call, of a report and of a rollback token, field by field.
LEMMA Records ==
    /\ NoGhCall.tool = "none" /\ NoGhCall.pc = "idle"
    /\ NoGhCall = [tool |-> NoGhCall.tool, pc |-> NoGhCall.pc,
                   expected |-> NoGhCall.expected, seen |-> NoGhCall.seen]
    /\ NoReport.ok = FALSE /\ NoHit.what = "none" /\ NoHit.found = NoHit.expected
    /\ NoUndo.tool = "none" /\ NoUndo.auth = "none"
    /\ NoUndo = [tool |-> NoUndo.tool, previous |-> NoUndo.previous, auth |-> NoUndo.auth,
                 left |-> NoUndo.left]
BY DEF NoGhCall, NoReport, NoHit, NoUndo

\* A call that goes on: its next request, and still no report.
LEMMA SendFacts ==
    ASSUME GhTypeOK, ReportInv, ghCall # NoGhCall, NEW pc, NEW seen, Send(pc, seen)
    PROVE  /\ ghCall'.tool = ghCall.tool /\ ghCall'.expected = ghCall.expected
           /\ ghCall'.pc = pc /\ ghCall'.seen = seen
           /\ ghCall' = [tool |-> ghCall'.tool, pc |-> ghCall'.pc,
                         expected |-> ghCall'.expected, seen |-> ghCall'.seen]
           /\ ghReport' = NoReport
<1>1. ghReport = NoReport
  BY Records DEF ReportInv
<1> DEFINE t == ghCall.tool
           p == ghCall.pc
           x == ghCall.expected
           y == ghCall.seen
<1>2. ghCall = [tool |-> t, pc |-> p, expected |-> x, seen |-> y]
  BY DEF GhTypeOK
<1>3. ghCall' = [ghCall EXCEPT !.pc = pc, !.seen = seen] /\ ghReport' = ghReport
  BY DEF Send
<1> HIDE DEF t, p, x, y
<1>4. ghCall' = [tool |-> t, pc |-> pc, expected |-> x, seen |-> seen]
  BY <1>2, <1>3
<1>5. t = ghCall.tool /\ x = ghCall.expected
  BY <1>2
<1> QED
  BY <1>1, <1>3, <1>4, <1>5

\* A call that ends.
LEMMA FinishFacts ==
    ASSUME NEW ok, Finish(ok)
    PROVE  /\ ghCall' = NoGhCall
           /\ ghReport'.what = ghCall.tool /\ ghReport'.ok = ok
           /\ ghReport'.target = ghCall.expected
BY DEF Finish

\* A reading tool that ends.
LEMMA ObservedFacts ==
    ASSUME NEW x, Observed(x)
    PROVE  /\ ghCall' = NoGhCall
           /\ ghReport'.what = ghCall.tool /\ ghReport'.ok = TRUE
           /\ ghReport'.target = x
BY DEF Observed

\* A write whose answer arrives or not.
LEMMA AnswerFacts ==
    ASSUME \E arrives \in BOOLEAN : Finish(arrives)
    PROVE  /\ ghCall' = NoGhCall
           /\ ghReport'.what = ghCall.tool /\ ghReport'.ok \in BOOLEAN
           /\ ghReport'.target = ghCall.expected
<1>1. PICK arrives \in BOOLEAN : Finish(arrives)
  OBVIOUS
<1>2. ghReport'.ok = arrives
  BY <1>1, FinishFacts, Zenon
<1>3. ghReport'.ok \in BOOLEAN
  BY <1>2, Zenon
<1> QED
  BY <1>1, <1>3, FinishFacts

\* A call that raises.
LEMMA EscapeFacts ==
    ASSUME Escapes
    PROVE  ghCall' = NoGhCall /\ ghReport' = NoReport
BY DEF Escapes

\* The same for a write that leaves a rollback token.
LEMMA WrittenFacts ==
    ASSUME GhTypeOK, NEW previous, NEW left, Written(previous, left)
    PROVE  /\ ghCall' = NoGhCall /\ ghReport'.ok \in BOOLEAN
           /\ \/ ghReport' = NoReport
              \/ ghReport'.what = ghCall.tool /\ ghReport'.target = ghCall.expected
           /\ ghUndo' = [tool |-> ghUndo'.tool, previous |-> ghUndo'.previous,
                         auth |-> ghUndo'.auth, left |-> ghUndo'.left]
           /\ ghUndo' = ghUndo \/ (ghUndo'.tool = ghCall.tool /\ ghUndo'.left = left)
<1>1. \/ \E arrives \in BOOLEAN : Finish(arrives)
      \/ Escapes
  BY Zenon DEF Written
<1>2. ghCall' = NoGhCall /\ ghReport'.ok \in BOOLEAN
  <2>1. CASE Escapes
    <3>1. ghReport'.ok \in BOOLEAN
      BY <2>1, Zenon DEF Escapes, NoReport
    <3> QED
      BY <2>1, <3>1, EscapeFacts
  <2> QED
    BY <1>1, <2>1, AnswerFacts
<1>3. \/ ghReport' = NoReport
      \/ ghReport'.what = ghCall.tool /\ ghReport'.target = ghCall.expected
  BY <1>1, AnswerFacts, EscapeFacts
<1>4. \/ ghUndo' = ghUndo
      \/ ghUndo' = [tool |-> ghCall.tool, previous |-> previous,
                    auth |-> RememberCredential, left |-> left]
  BY Zenon DEF Written
<1>5. /\ ghUndo' = [tool |-> ghUndo'.tool, previous |-> ghUndo'.previous,
                    auth |-> ghUndo'.auth, left |-> ghUndo'.left]
      /\ ghUndo' = ghUndo \/ (ghUndo'.tool = ghCall.tool /\ ghUndo'.left = left)
  BY <1>4 DEF GhTypeOK
<1> QED
  BY <1>2, <1>3, <1>5

\* The requests of the tools.
LEMMA ToolRequests ==
    ASSUME GhInv,
           ReadOnly \/ ReadBranch \/ ReadPr \/ ReadFile \/ CheckCiStatus \/ CreateRef
           \/ ExistingRef \/ ReadPrevious \/ TrustSha \/ PutFile \/ PostPr \/ PostComment
           \/ LookUpPr \/ NoLookUp
           \/ CheckPr \/ PatchPr \/ ConfirmPr \/ CheckRef \/ DeleteRef \/ ConfirmRef
    PROVE  GhInv'
<1> USE Records, SendFacts, FinishFacts, ObservedFacts,
        AnswerFacts, WrittenFacts, EscapeFacts DEF GhInv, At, Quiet, ghRepo
<1>1. CASE ReadOnly
  <2>1. GhTypeOK'
    BY <1>1 DEF ReadOnly, GhTypeOK
  <2>2. ReportInv'
    BY <1>1 DEF ReadOnly, GhTypeOK, ReportInv, GitHubReportsAreTrue
  <2>3. TargetInv'
    BY <1>1 DEF ReadOnly, GhTypeOK, TargetInv, WritesHitTheirTarget
  <2>4. LeftInv'
    BY <1>1 DEF ReadOnly, GhTypeOK, TargetInv, LeftInv
  <2> QED
    BY <2>1, <2>2, <2>3, <2>4 DEF GhInv
<1>2. CASE ReadBranch
  <2>1. GhTypeOK'
    BY <1>2 DEF ReadBranch, GhTypeOK
  <2>2. ReportInv'
    BY <1>2 DEF ReadBranch, GhTypeOK, ReportInv, GitHubReportsAreTrue
  <2>3. TargetInv'
    BY <1>2 DEF ReadBranch, GhTypeOK, TargetInv, WritesHitTheirTarget
  <2>4. LeftInv'
    BY <1>2 DEF ReadBranch, GhTypeOK, TargetInv, LeftInv
  <2> QED
    BY <2>1, <2>2, <2>3, <2>4 DEF GhInv
<1>3. CASE ReadPr
  <2>1. GhTypeOK'
    BY <1>3 DEF ReadPr, GhTypeOK
  <2>2. ReportInv'
    BY <1>3 DEF ReadPr, GhTypeOK, ReportInv, GitHubReportsAreTrue
  <2>3. TargetInv'
    BY <1>3 DEF ReadPr, GhTypeOK, TargetInv, WritesHitTheirTarget
  <2>4. LeftInv'
    BY <1>3 DEF ReadPr, GhTypeOK, TargetInv, LeftInv
  <2> QED
    BY <2>1, <2>2, <2>3, <2>4 DEF GhInv
<1>4. CASE ReadFile
  <2>1. GhTypeOK'
    BY <1>4 DEF ReadFile, GhTypeOK
  <2>2. ReportInv'
    BY <1>4 DEF ReadFile, GhTypeOK, ReportInv, GitHubReportsAreTrue
  <2>3. TargetInv'
    BY <1>4 DEF ReadFile, GhTypeOK, TargetInv, WritesHitTheirTarget
  <2>4. LeftInv'
    BY <1>4 DEF ReadFile, GhTypeOK, TargetInv, LeftInv
  <2> QED
    BY <2>1, <2>2, <2>3, <2>4 DEF GhInv
<1>5. CASE CheckCiStatus
  <2>1. GhTypeOK'
    BY <1>5 DEF CheckCiStatus, GhTypeOK
  <2>2. ReportInv'
    BY <1>5 DEF CheckCiStatus, GhTypeOK, ReportInv, GitHubReportsAreTrue
  <2>3. TargetInv'
    BY <1>5 DEF CheckCiStatus, GhTypeOK, TargetInv, WritesHitTheirTarget
  <2>4. LeftInv'
    BY <1>5 DEF CheckCiStatus, GhTypeOK, TargetInv, LeftInv
  <2> QED
    BY <2>1, <2>2, <2>3, <2>4 DEF GhInv
<1>6. CASE CreateRef
  <2>1. GhTypeOK'
    <3>1. CASE ghHead' = 1 /\ Written(NoFile, 1)
      <4>1. ghReport'.ok \in BOOLEAN /\ ghCall' = NoGhCall
        BY <3>1, WrittenFacts
      <4> QED
        BY <1>6, <3>1, <4>1 DEF CreateRef, GhTypeOK
    <3>2. CASE Send("exists", "none") /\ UNCHANGED <<ghHead, ghUndo>>
      BY <1>6, <3>2 DEF CreateRef, GhTypeOK
    <3> QED
      BY <1>6, <3>1, <3>2 DEF CreateRef
  <2>2. ReportInv'
    BY <1>6 DEF CreateRef, GhTypeOK, ReportInv, GitHubReportsAreTrue
  <2>3. TargetInv'
    BY <1>6 DEF CreateRef, GhTypeOK, TargetInv, WritesHitTheirTarget
  <2>4. LeftInv'
    BY <1>6 DEF CreateRef, GhTypeOK, TargetInv, LeftInv
  <2> QED
    BY <2>1, <2>2, <2>3, <2>4 DEF GhInv
<1>7. CASE ExistingRef
  <2>1. GhTypeOK'
    BY <1>7 DEF ExistingRef, GhTypeOK
  <2>2. ReportInv'
    BY <1>7 DEF ExistingRef, GhTypeOK, ReportInv, GitHubReportsAreTrue
  <2>3. TargetInv'
    BY <1>7 DEF ExistingRef, GhTypeOK, TargetInv, WritesHitTheirTarget
  <2>4. LeftInv'
    <3>1. ghCall.tool = "create_branch" /\ UNCHANGED <<ghHead, ghPr, ghFile, ghSince>>
      BY <1>7 DEF ExistingRef
    <3>2. CASE ghHead # 0
      <4>1. /\ ghCall' = NoGhCall
            /\ ghUndo' = ghUndo \/ (ghUndo'.tool = "create_branch" /\ ghUndo'.left = ghHead)
        BY <1>7, <3>1, <3>2, WrittenFacts DEF ExistingRef, GhInv
      <4> QED
        BY <3>1, <4>1, Records DEF LeftInv, GhInv
    <3>3. CASE ghHead = 0
      <4>1. ghCall' = NoGhCall /\ ghUndo' = ghUndo
        BY <1>7, <3>3, FinishFacts DEF ExistingRef, GhInv
      <4> QED
        BY <3>1, <4>1, Records DEF LeftInv, GhInv
    <3> QED
      BY <3>2, <3>3
  <2> QED
    BY <2>1, <2>2, <2>3, <2>4 DEF GhInv
<1>8. CASE ReadPrevious
  <2>1. GhTypeOK'
    BY <1>8 DEF ReadPrevious, GhTypeOK
  <2>2. ReportInv'
    BY <1>8 DEF ReadPrevious, GhTypeOK, ReportInv, GitHubReportsAreTrue
  <2>3. TargetInv'
    <3>1. CASE ghFile = ghCall.expected /\ Send("put", ghFile)
      BY <1>8, <3>1 DEF ReadPrevious, GhTypeOK, TargetInv, WritesHitTheirTarget
    <3>2. CASE Finish(FALSE)
      BY <1>8, <3>2 DEF ReadPrevious, GhTypeOK, TargetInv, WritesHitTheirTarget
    <3> QED
      BY <1>8, <3>1, <3>2 DEF ReadPrevious
  <2>4. LeftInv'
    BY <1>8 DEF ReadPrevious, GhTypeOK, TargetInv, LeftInv
  <2> QED
    BY <2>1, <2>2, <2>3, <2>4 DEF GhInv
<1>9. CASE TrustSha
  <2>1. GhTypeOK'
    BY <1>9 DEF TrustSha, GhTypeOK
  <2>2. ReportInv'
    BY <1>9 DEF TrustSha, GhTypeOK, ReportInv, GitHubReportsAreTrue
  <2>3. TargetInv'
    BY <1>9 DEF TrustSha, GhTypeOK, TargetInv, WritesHitTheirTarget
  <2>4. LeftInv'
    BY <1>9 DEF TrustSha, GhTypeOK, TargetInv, LeftInv
  <2> QED
    BY <2>1, <2>2, <2>3, <2>4 DEF GhInv
<1>10. CASE PutFile
  <2>1. GhTypeOK'
    <3>1. CASE \E previous, left : Written(previous, left)
      <4>1. ghHead' \in Nat /\ UNCHANGED <<ghAccess, ghPr, ghComment, ghRaced, ghSince>>
        <5>1. ghHead' = ghHead \/ ghHead' = ghHead + 1
          BY <1>10, Zenon DEF PutFile
        <5>2. UNCHANGED <<ghAccess, ghPr, ghComment, ghRaced, ghSince>>
          BY <1>10, Zenon DEF PutFile
        <5> QED
          BY <5>1, <5>2 DEF GhTypeOK
      <4>2. ghReport'.ok \in BOOLEAN /\ ghCall' = NoGhCall
        BY <3>1, WrittenFacts
      <4> QED
        BY <3>1, <4>1, <4>2 DEF GhTypeOK
    <3>2. CASE Finish(FALSE) /\ UNCHANGED <<ghHead, ghUndo>>
      BY <1>10, <3>2 DEF PutFile, GhTypeOK
    <3> QED
      BY <1>10, <3>1, <3>2 DEF PutFile
  <2>2. ReportInv'
    <3>1. /\ ghPr' = ghPr /\ (ghHead' = ghHead \/ ghHead' = ghHead + 1)
          /\ ghCall' = NoGhCall /\ ghAccess' = ghAccess
          /\ ghCall.tool \in {"update_file", "update_by_sha"}
      BY <1>10 DEF PutFile
    <3>2. ghPr'.state = "open" => ghHead' # 0
      BY <3>1 DEF GhTypeOK, ReportInv
    <3>3. \/ ghReport'.ok = FALSE
          \/ ghReport' = NoReport
          \/ ghReport'.what = ghCall.tool /\ ghFile' = NewContent
      BY <1>10 DEF PutFile
    <3> QED
      BY <3>1, <3>2, <3>3 DEF ReportInv, GitHubReportsAreTrue
  <2>3. TargetInv'
    <3>1. ghHit.what \notin {"pr", "branch"} /\ ghCall' = NoGhCall
      BY <1>10 DEF PutFile, GhTypeOK, TargetInv
    <3>2. \/ ghHit' = [what |-> "file", found |-> ghCall.seen, expected |-> ghCall.expected]
          \/ ghHit' = ghHit
      BY <1>10 DEF PutFile
    <3>3. ghCall.seen = ghCall.expected
      BY <1>10 DEF PutFile, TargetInv
    <3> QED
      BY <1>10, <3>1, <3>2, <3>3 DEF PutFile, TargetInv, WritesHitTheirTarget
  <2>4. LeftInv'
    BY <1>10 DEF PutFile, GhTypeOK, TargetInv, LeftInv
  <2> QED
    BY <2>1, <2>2, <2>3, <2>4 DEF GhInv
<1>11. CASE PostPr
  <2>0. \/ /\ Finish(FALSE) /\ UNCHANGED <<ghPr, ghUndo>>
        \/ /\ ghHead # 0 /\ ghPr' = [state |-> "open", kind |-> ghCall.seen]
           /\ \E left : left = ghPr' /\ Written(NoFile, left)
    BY <1>11, Zenon DEF PostPr
  <2>1. GhTypeOK'
    <3>1. UNCHANGED <<ghAccess, ghHead, ghComment, ghRaced, ghSince>>
      BY <1>11 DEF PostPr
    <3>2. CASE Finish(FALSE) /\ UNCHANGED <<ghPr, ghUndo>>
      BY <3>1, <3>2 DEF GhTypeOK, At
    <3>3. ASSUME NEW left, Written(NoFile, left), ghPr' = [state |-> "open", kind |-> ghCall.seen]
          PROVE  GhTypeOK'
      <4>1. ghCall.seen \in PrKinds
        BY <1>11 DEF PostPr, GhTypeOK
      <4>2. ghPr' \in [state : {"none", "open", "closed"}, kind : PrKinds]
        BY <3>3, <4>1
      <4>3. ghReport'.ok \in BOOLEAN /\ ghCall' = NoGhCall
        BY <3>3, WrittenFacts
      <4> QED
        BY <3>1, <3>3, <4>2, <4>3 DEF GhTypeOK
    <3> QED
      BY <2>0, <3>2, <3>3
  <2>2. ReportInv'
    BY <1>11 DEF PostPr, GhTypeOK, ReportInv, GitHubReportsAreTrue
  <2>3. TargetInv'
    BY <1>11 DEF PostPr, GhTypeOK, TargetInv, WritesHitTheirTarget
  <2>4. LeftInv'
    <3>1. UNCHANGED <<ghHead, ghFile, ghSince>> /\ ghCall.tool = "open_pr" /\ ghUndo = NoUndo
      BY <1>11 DEF PostPr, TargetInv
    <3>2. CASE Finish(FALSE) /\ UNCHANGED <<ghPr, ghUndo>>
      BY <3>1, <3>2 DEF LeftInv
    <3>3. ASSUME NEW left, left = ghPr', Written(NoFile, left)
          PROVE  LeftInv'
      BY <3>1, <3>3 DEF LeftInv
    <3> QED
      BY <2>0, <3>2, <3>3
  <2> QED
    BY <2>1, <2>2, <2>3, <2>4 DEF GhInv
<1>12. CASE PostComment
  <2>1. GhTypeOK'
    BY <1>12 DEF PostComment, GhTypeOK
  <2>2. ReportInv'
    BY <1>12 DEF PostComment, GhTypeOK, ReportInv, GitHubReportsAreTrue
  <2>3. TargetInv'
    BY <1>12 DEF PostComment, GhTypeOK, TargetInv, WritesHitTheirTarget
  <2>4. LeftInv'
    BY <1>12 DEF PostComment, GhTypeOK, TargetInv, LeftInv
  <2> QED
    BY <2>1, <2>2, <2>3, <2>4 DEF GhInv
<1>13. CASE CheckPr
  <2>1. GhTypeOK'
    BY <1>13 DEF CheckPr, GhTypeOK
  <2>2. ReportInv'
    BY <1>13 DEF CheckPr, GhTypeOK, ReportInv, GitHubReportsAreTrue
  <2>3. TargetInv'
    BY <1>13 DEF CheckPr, GhTypeOK, TargetInv, WritesHitTheirTarget
  <2>4. LeftInv'
    BY <1>13 DEF CheckPr, GhTypeOK, TargetInv, LeftInv
  <2> QED
    BY <2>1, <2>2, <2>3, <2>4 DEF GhInv
<1>14. CASE PatchPr
  <2>1. GhTypeOK'
    BY <1>14 DEF PatchPr, GhTypeOK
  <2>2. ReportInv'
    BY <1>14 DEF PatchPr, GhTypeOK, ReportInv, GitHubReportsAreTrue
  <2>3. TargetInv'
    BY <1>14 DEF PatchPr, GhTypeOK, TargetInv, WritesHitTheirTarget
  <2>4. LeftInv'
    BY <1>14 DEF PatchPr, GhTypeOK, TargetInv, LeftInv
  <2> QED
    BY <2>1, <2>2, <2>3, <2>4 DEF GhInv
<1>15. CASE ConfirmPr
  <2>1. GhTypeOK'
    BY <1>15 DEF ConfirmPr, GhTypeOK
  <2>2. ReportInv'
    BY <1>15 DEF ConfirmPr, GhTypeOK, ReportInv, GitHubReportsAreTrue
  <2>3. TargetInv'
    BY <1>15 DEF ConfirmPr, GhTypeOK, TargetInv, WritesHitTheirTarget
  <2>4. LeftInv'
    BY <1>15 DEF ConfirmPr, GhTypeOK, TargetInv, LeftInv
  <2> QED
    BY <2>1, <2>2, <2>3, <2>4 DEF GhInv
<1>16. CASE CheckRef
  <2>1. GhTypeOK'
    BY <1>16 DEF CheckRef, GhTypeOK
  <2>2. ReportInv'
    BY <1>16 DEF CheckRef, GhTypeOK, ReportInv, GitHubReportsAreTrue
  <2>3. TargetInv'
    BY <1>16 DEF CheckRef, GhTypeOK, TargetInv, WritesHitTheirTarget
  <2>4. LeftInv'
    BY <1>16 DEF CheckRef, GhTypeOK, TargetInv, LeftInv
  <2> QED
    BY <2>1, <2>2, <2>3, <2>4 DEF GhInv
<1>17. CASE DeleteRef
  <2>1. GhTypeOK'
    BY <1>17 DEF DeleteRef, RemoveBranch, GhTypeOK
  <2>2. ReportInv'
    BY <1>17 DEF DeleteRef, RemoveBranch, GhTypeOK, ReportInv, GitHubReportsAreTrue
  <2>3. TargetInv'
    BY <1>17 DEF DeleteRef, RemoveBranch, GhTypeOK, TargetInv, WritesHitTheirTarget
  <2>4. LeftInv'
    BY <1>17 DEF DeleteRef, RemoveBranch, GhTypeOK, TargetInv, LeftInv
  <2> QED
    BY <2>1, <2>2, <2>3, <2>4 DEF GhInv
<1>18. CASE ConfirmRef
  <2>1. GhTypeOK'
    BY <1>18 DEF ConfirmRef, GhTypeOK
  <2>2. ReportInv'
    BY <1>18 DEF ConfirmRef, GhTypeOK, ReportInv, GitHubReportsAreTrue
  <2>3. TargetInv'
    BY <1>18 DEF ConfirmRef, GhTypeOK, TargetInv, WritesHitTheirTarget
  <2>4. LeftInv'
    BY <1>18 DEF ConfirmRef, GhTypeOK, TargetInv, LeftInv
  <2> QED
    BY <2>1, <2>2, <2>3, <2>4 DEF GhInv
<1>19. CASE LookUpPr
  <2>1. GhTypeOK'
    <3>1. /\ ghCall # NoGhCall
          /\ UNCHANGED <<ghAccess, ghComment, ghRaced, ghSince, ghHead, ghPr>>
      BY <1>19 DEF LookUpPr
    <3>2. CASE Written(NoFile, ghPr)
      <4>1. /\ ghCall' = NoGhCall /\ ghReport'.ok \in BOOLEAN
            /\ ghUndo' = [tool |-> ghUndo'.tool, previous |-> ghUndo'.previous,
                          auth |-> ghUndo'.auth, left |-> ghUndo'.left]
        BY <3>2, WrittenFacts DEF GhInv
      <4> QED
        BY <3>1, <4>1, Records DEF GhTypeOK, GhInv
    <3>3. CASE Send("post", "marked") /\ UNCHANGED ghUndo
      <4>1. /\ ghCall'.seen = "marked" /\ ghReport' = NoReport
            /\ ghCall' = [tool |-> ghCall'.tool, pc |-> ghCall'.pc,
                          expected |-> ghCall'.expected, seen |-> ghCall'.seen]
        BY <3>1, <3>3, SendFacts DEF GhInv
      <4> QED
        BY <3>1, <3>3, <4>1, Records DEF GhTypeOK, GhInv, PrKinds
    <3> QED
      BY <1>19, <3>2, <3>3 DEF LookUpPr
  <2>2. ReportInv'
    BY <1>19 DEF LookUpPr, GhTypeOK, ReportInv, GitHubReportsAreTrue
  <2>3. TargetInv'
    BY <1>19 DEF LookUpPr, GhTypeOK, TargetInv, WritesHitTheirTarget
  <2>4. LeftInv'
    <3>1. ghCall.tool = "open_pr" /\ UNCHANGED <<ghHead, ghPr, ghFile, ghSince>>
      BY <1>19 DEF LookUpPr
    <3>2. CASE Written(NoFile, ghPr)
      <4>1. /\ ghCall' = NoGhCall
            /\ ghUndo' = ghUndo \/ (ghUndo'.tool = "open_pr" /\ ghUndo'.left = ghPr)
        BY <3>1, <3>2, WrittenFacts DEF GhInv
      <4> QED
        BY <3>1, <4>1, Records DEF LeftInv, GhInv
    <3>3. CASE Send("post", "marked") /\ UNCHANGED ghUndo
      <4>1. ghCall'.tool = "open_pr" /\ ghUndo' = ghUndo
        BY <3>1, <3>3, SendFacts DEF GhInv
      <4> QED
        BY <3>1, <4>1 DEF LeftInv, GhInv
    <3> QED
      BY <1>19, <3>2, <3>3 DEF LookUpPr
  <2> QED
    BY <2>1, <2>2, <2>3, <2>4 DEF GhInv
<1>20. CASE NoLookUp
  <2>1. GhTypeOK'
    <3>1. ghCall'.seen \in PrKinds /\ ghReport' = NoReport
      BY <1>20 DEF NoLookUp, PrKinds
    <3>2. /\ UNCHANGED <<ghAccess, ghHead, ghPr, ghComment, ghUndo, ghRaced, ghSince>>
          /\ Send("post", "same") /\ ghCall # NoGhCall
      BY <1>20 DEF NoLookUp
    <3>3. ghReport'.ok \in BOOLEAN
      BY <3>1, Zenon DEF NoReport
    <3> QED
      BY <3>1, <3>2, <3>3 DEF GhTypeOK
  <2>2. ReportInv'
    BY <1>20 DEF NoLookUp, GhTypeOK, ReportInv, GitHubReportsAreTrue
  <2>3. TargetInv'
    BY <1>20 DEF NoLookUp, GhTypeOK, TargetInv, WritesHitTheirTarget
  <2>4. LeftInv'
    BY <1>20 DEF NoLookUp, GhTypeOK, TargetInv, LeftInv
  <2> QED
    BY <2>1, <2>2, <2>3, <2>4 DEF GhInv
<1> QED
  BY <1>1, <1>2, <1>3, <1>4, <1>5, <1>6, <1>7, <1>8, <1>9, <1>10, <1>11, <1>12, <1>13, <1>14, <1>15, <1>16, <1>17, <1>18,
     <1>19, <1>20

\* The rollbacks.
LEMMA UndoRequests ==
    ASSUME GhInv,
           UndoRequest \/ UndoNotFound \/ ReadCurrent \/ PutBack
    PROVE  GhInv'
<1> USE Records, SendFacts, FinishFacts, ObservedFacts,
        AnswerFacts, WrittenFacts, EscapeFacts DEF GhInv, At, Quiet, ghRepo
<1>1. CASE UndoRequest
  <2>1. GhTypeOK'
    <3>1. \E arrives \in BOOLEAN : Finish(arrives)
      BY <1>1, Zenon DEF UndoRequest
    <3>2. ghReport'.ok \in BOOLEAN /\ ghCall' = NoGhCall
      BY <3>1, AnswerFacts
    <3>3. /\ ghHead' \in Nat
          /\ ghPr' \in [state : {"none", "open", "closed"}, kind : PrKinds]
      BY <1>1 DEF UndoRequest, RemoveBranch, GhTypeOK
    <3>4. ghComment' \in BOOLEAN
      BY <1>1, Zenon DEF UndoRequest, GhTypeOK
    <3> QED
      BY <1>1, <3>2, <3>3, <3>4 DEF UndoRequest, GhTypeOK
  <2>2. ReportInv'
    BY <1>1 DEF UndoRequest, RemoveBranch, GhTypeOK, ReportInv, GitHubReportsAreTrue
  <2>3. TargetInv'
    <3>1. /\ ghCall' = NoGhCall /\ ghUndo' = ghUndo /\ ghUndo = NoUndo
          /\ ghSince' = ghSince /\ ghRaced' = ghRaced
      BY <1>1 DEF UndoRequest, TargetInv
    <3>2. \/ ghHit' = ghHit
          \/ ghHit' = NoHit
          \/ /\ ghHit'.what = "undo"
             /\ ghSince \/ ghHit'.found = ghHit'.expected
      BY <1>1 DEF UndoRequest, LeftInv
    <3> QED
      BY <3>1, <3>2 DEF TargetInv, WritesHitTheirTarget
  <2>4. LeftInv'
    BY <1>1 DEF UndoRequest, RemoveBranch, GhTypeOK, TargetInv, LeftInv
  <2> QED
    BY <2>1, <2>2, <2>3, <2>4 DEF GhInv
<1>2. CASE UndoNotFound
  <2>1. GhTypeOK'
    BY <1>2 DEF UndoNotFound, GhTypeOK
  <2>2. ReportInv'
    BY <1>2 DEF UndoNotFound, GhTypeOK, ReportInv, GitHubReportsAreTrue
  <2>3. TargetInv'
    BY <1>2 DEF UndoNotFound, GhTypeOK, TargetInv, WritesHitTheirTarget
  <2>4. LeftInv'
    BY <1>2 DEF UndoNotFound, GhTypeOK, TargetInv, LeftInv
  <2> QED
    BY <2>1, <2>2, <2>3, <2>4 DEF GhInv
<1>3. CASE ReadCurrent
  <2>1. GhTypeOK'
    BY <1>3 DEF ReadCurrent, GhTypeOK
  <2>2. ReportInv'
    BY <1>3 DEF ReadCurrent, GhTypeOK, ReportInv, GitHubReportsAreTrue
  <2>3. TargetInv'
    BY <1>3 DEF ReadCurrent, GhTypeOK, TargetInv, WritesHitTheirTarget
  <2>4. LeftInv'
    BY <1>3 DEF ReadCurrent, GhTypeOK, TargetInv, LeftInv
  <2> QED
    BY <2>1, <2>2, <2>3, <2>4 DEF GhInv
<1>4. CASE PutBack
  <2>1. GhTypeOK'
    <3>1. \E arrives \in BOOLEAN : Finish(arrives)
      BY <1>4, Zenon DEF PutBack
    <3>2. ghReport'.ok \in BOOLEAN /\ ghCall' = NoGhCall
      BY <3>1, AnswerFacts
    <3> QED
      <4>1. ghHead' \in Nat /\ UNCHANGED <<ghAccess, ghPr, ghComment, ghRaced, ghSince, ghUndo>>
        <5>1. ghHead' = ghHead \/ ghHead' = ghHead + 1
          BY <1>4, Zenon DEF PutBack
        <5>2. UNCHANGED <<ghAccess, ghPr, ghComment, ghRaced, ghSince, ghUndo>>
          BY <1>4, Zenon DEF PutBack
        <5> QED
          BY <5>1, <5>2 DEF GhTypeOK
      <4> QED
        BY <3>2, <4>1 DEF GhTypeOK
  <2>2. ReportInv'
    <3>1. /\ ghPr' = ghPr /\ (ghHead' = ghHead \/ ghHead' = ghHead + 1)
          /\ ghCall' = NoGhCall
      BY <1>4 DEF PutBack
    <3>2. ghPr'.state = "open" => ghHead' # 0
      BY <3>1 DEF GhTypeOK, ReportInv
    <3>3. \/ ghReport'.ok = FALSE
          \/ /\ ghReport'.what = "undo_file" /\ ghReport'.target = ghCall.expected
             /\ ghFile' = ghCall.expected
      BY <1>4 DEF PutBack
    <3> QED
      BY <3>1, <3>2, <3>3 DEF ReportInv, GitHubReportsAreTrue
  <2>3. TargetInv'
    <3>1. /\ ghCall' = NoGhCall /\ ghUndo' = ghUndo /\ ghUndo = NoUndo
          /\ ghSince' = ghSince /\ ghRaced' = ghRaced
      BY <1>4 DEF PutBack, TargetInv
    <3>2. \/ ghHit' = ghHit
          \/ /\ ghHit'.what = "undo"
             /\ ghSince \/ ghHit'.found = ghHit'.expected
      <4>1. ghCall.tool = "undo_file" /\ (ghSince \/ ghFile = NewContent)
        BY <1>4 DEF PutBack, LeftInv
      <4>2. \/ ghHit' = ghHit
            \/ ghHit' = [what |-> "undo", found |-> ghFile, expected |-> NewContent]
        BY <1>4 DEF PutBack
      <4> QED
        BY <4>1, <4>2
    <3> QED
      BY <3>1, <3>2 DEF TargetInv, WritesHitTheirTarget
  <2>4. LeftInv'
    BY <1>4 DEF PutBack, GhTypeOK, TargetInv, LeftInv
  <2> QED
    BY <2>1, <2>2, <2>3, <2>4 DEF GhInv
<1> QED
  BY <1>1, <1>2, <1>3, <1>4

\* A refused request: only a token without access reads "not found".
LEMMA FailStep == GhInv /\ RequestFails => GhInv'
<1> SUFFICES ASSUME GhInv, RequestFails PROVE GhInv'
  OBVIOUS
<1> USE Records, SendFacts, FinishFacts, ObservedFacts, EscapeFacts DEF GhInv, Quiet, ghRepo
<1>1. "not_found" \in Refusal => ~ghAccess
  BY DEF Refusal, RaiseForResponse
<1>2. ghCall # NoGhCall
  BY DEF RequestFails
<1>3. \/ ghCall.pc = "delete" /\ ~ghAccess /\ Send("confirm", ghCall.seen)
      \/ ghCall.tool = "get_branch" /\ ~ghAccess /\ Observed(0)
      \/ Finish(FALSE)
      \/ Escapes
  BY <1>1 DEF RequestFails
<1>4. GhTypeOK'
  BY <1>2, <1>3 DEF RequestFails, GhTypeOK, At
<1>5. ReportInv'
  BY <1>2, <1>3 DEF RequestFails, GhTypeOK, ReportInv, GitHubReportsAreTrue
<1>6. TargetInv'
  <2>1. CASE Send("confirm", ghCall.seen)
    BY <1>2, <2>1 DEF RequestFails, TargetInv, At, WritesHitTheirTarget
  <2>2. CASE ghCall' = NoGhCall
    BY <2>2 DEF RequestFails, TargetInv, At, WritesHitTheirTarget
  <2> QED
    BY <1>3, <2>1, <2>2
<1>7. LeftInv'
  <2>1. CASE Send("confirm", ghCall.seen)
    BY <1>2, <2>1 DEF RequestFails, LeftInv
  <2>2. CASE ghCall' = NoGhCall
    BY <2>2 DEF RequestFails, LeftInv
  <2> QED
    BY <1>3, <2>1, <2>2
<1> QED
  BY <1>4, <1>5, <1>6, <1>7

\* The start of a tool.
LEMMA StartStep ==
    ASSUME GhInv, NEW tool, NEW x, StartTool(tool, x),
           tool \notin {"none", "undo_branch", "undo_pr", "undo_file", "undo_comment"}
    PROVE  GhInv'
<1> USE Records DEF GhInv, StartTool, ghRepo
<1>1. GhTypeOK'
  <2>1. ghRaced' \in BOOLEAN /\ ghSince' \in BOOLEAN
    BY Zenon
  <2> QED
    BY <2>1 DEF GhTypeOK, At
<1>2. ReportInv'
  BY DEF ReportInv, GitHubReportsAreTrue
<1>3. TargetInv'
  BY DEF TargetInv, At, WritesHitTheirTarget
<1>4. LeftInv'
  BY DEF LeftInv
<1> QED
  BY <1>1, <1>2, <1>3, <1>4

\* The start of a rollback: there was a token, so no record of a closed request
\* or a deleted branch stands.
LEMMA UndoStep ==
    ASSUME GhInv, RollbackBranch \/ RollbackPr \/ RollbackComment \/ RollbackFile
    PROVE  GhInv'
<1> USE Records DEF GhInv, ghRepo, Quiet
<1>1. ghHit.what \in {"none", "file", "undo"} /\ ghCall = NoGhCall
  BY DEF TargetInv, RollbackBranch, RollbackPr, RollbackComment, RollbackFile, StartUndo
<1>2. /\ ghUndo' = NoUndo /\ ghRaced' = FALSE
      /\ UNCHANGED <<ghAccess, ghHead, ghFile, ghPr, ghComment, ghHit, ghSince>>
  BY DEF RollbackBranch, RollbackPr, RollbackComment, RollbackFile, StartUndo
<1>3. \/ /\ ghCall' = NoGhCall /\ ghReport'.ok = FALSE
      \/ /\ ghCall' = NoGhCall /\ ghReport'.ok = TRUE /\ ghReport'.what = "undo_nothing"
      \/ /\ ghReport' = NoReport
         /\ \E x : \/ ghCall' = [NoGhCall EXCEPT !.tool = "undo_branch", !.pc = "delete", !.expected = x]
                   \/ ghCall' = [NoGhCall EXCEPT !.tool = "undo_pr", !.pc = "patch", !.expected = x]
                   \/ ghCall' = [NoGhCall EXCEPT !.tool = "undo_comment", !.pc = "delete", !.expected = x]
                   \/ ghCall' = [NoGhCall EXCEPT !.tool = "undo_file", !.pc = "send", !.expected = x]
         /\ ghCall'.tool = "undo_branch" => ghUndo.tool = "create_branch" /\ ghCall'.expected = ghUndo.left
         /\ ghCall'.tool = "undo_pr" => ghUndo.tool = "open_pr" /\ ghCall'.expected = ghUndo.left
         /\ ghCall'.tool = "undo_file" => ghUndo.tool = "update_file"
  BY DEF RollbackBranch, RollbackPr, RollbackComment, RollbackFile, StartUndo, NoReport
<1>4. \/ /\ ghCall' = NoGhCall /\ ghReport'.ok = FALSE
      \/ /\ ghCall' = NoGhCall /\ ghReport'.ok = TRUE /\ ghReport'.what = "undo_nothing"
      \/ /\ ghReport' = NoReport
         /\ <<ghCall'.tool, ghCall'.pc>> \in {<<"undo_branch", "delete">>, <<"undo_pr", "patch">>,
                                              <<"undo_comment", "delete">>, <<"undo_file", "send">>}
         /\ ghCall' = [tool |-> ghCall'.tool, pc |-> ghCall'.pc,
                       expected |-> ghCall'.expected, seen |-> ghCall'.seen]
         /\ ghCall'.tool = "undo_branch" => ghUndo.tool = "create_branch" /\ ghCall'.expected = ghUndo.left
         /\ ghCall'.tool = "undo_pr" => ghUndo.tool = "open_pr" /\ ghCall'.expected = ghUndo.left
         /\ ghCall'.tool = "undo_file" => ghUndo.tool = "update_file"
  BY <1>3 DEF NoGhCall
<1>5. GhTypeOK'
  BY <1>2, <1>4 DEF GhTypeOK, At
<1>6. ReportInv'
  BY <1>2, <1>4 DEF ReportInv, GitHubReportsAreTrue
<1>7. TargetInv'
  BY <1>1, <1>2, <1>4 DEF TargetInv, At, WritesHitTheirTarget
<1>8. LeftInv'
  BY <1>2, <1>4 DEF LeftInv
<1> QED
  BY <1>5, <1>6, <1>7, <1>8

\* Somebody else steps in.
LEMMA MeddleStep == GhInv /\ Meddle => GhInv'
<1> SUFFICES ASSUME GhInv, Meddle PROVE GhInv'
  OBVIOUS
<1> USE Records DEF GhInv
<1>1. /\ ghReport' = NoReport /\ ghRaced' = TRUE /\ ghSince' = TRUE /\ UNCHANGED <<ghComment, ghCall, ghHit>>
      /\ ghAccess' \in BOOLEAN /\ (~ghAccess => ~ghAccess')
  <2>1. /\ ghReport' = NoReport /\ ghRaced' = TRUE /\ ghSince' = TRUE /\ UNCHANGED <<ghComment, ghCall, ghHit>>
        /\ ghAccess' = ghAccess \/ ghAccess' = FALSE
    BY DEF Meddle
  <2>2. ghAccess' \in BOOLEAN
    BY <2>1, Zenon DEF GhTypeOK
  <2> QED
    BY <2>1, <2>2
<1>2. ghHead' \in Nat /\ ghPr' \in [state : {"none", "open", "closed"}, kind : PrKinds]
  BY DEF Meddle, GhTypeOK, RemoveBranch
<1>3. \/ ghUndo' = ghUndo
      \/ ghUndo # NoUndo /\ ghUndo' = [ghUndo EXCEPT !.auth = "revoked"]
  BY DEF Meddle
<1>4. ghUndo' = [tool |-> ghUndo'.tool, previous |-> ghUndo'.previous, auth |-> ghUndo'.auth,
                 left |-> ghUndo'.left]
  BY <1>3 DEF GhTypeOK
<1>5. GhTypeOK'
  <2>1. ghRaced' \in BOOLEAN /\ ghSince' \in BOOLEAN
    BY <1>1, Zenon
  <2> QED
    BY <1>1, <1>2, <1>4, <2>1 DEF GhTypeOK, At
<1>6. ReportInv'
  <2>1. ghPr'.state = "open" => ghHead' # 0
    BY DEF Meddle, GhTypeOK, ReportInv, RemoveBranch
  <2> QED
    BY <1>1, <2>1 DEF ReportInv, GitHubReportsAreTrue, GhTypeOK
<1>7. TargetInv'
  BY <1>1, <1>3 DEF TargetInv, At, WritesHitTheirTarget
<1>8. LeftInv'
  BY <1>1 DEF LeftInv
<1> QED
  BY <1>5, <1>6, <1>7, <1>8

\* What the tools check before they write, and what they know when they report.
THEOREM GitHubToolsInvariance == GitHubToolsSpec => []GhInv
<1>1. GitHubToolsInit => GhInv
  <2> SUFFICES ASSUME GitHubToolsInit PROVE GhInv
    OBVIOUS
  <2> USE Records DEF GitHubToolsInit
  <2>1. GhTypeOK
    <3>1. /\ ghAccess \in BOOLEAN /\ ghComment \in BOOLEAN
          /\ ghRaced \in BOOLEAN /\ ghSince \in BOOLEAN
      BY Zenon
    <3>2. ghReport.ok \in BOOLEAN
      BY Zenon DEF NoReport
    <3> QED
      BY <3>1, <3>2 DEF GhTypeOK, At
  <2>2. ReportInv
    BY DEF ReportInv, GitHubReportsAreTrue
  <2>3. TargetInv
    BY DEF TargetInv, At, WritesHitTheirTarget
  <2>4. LeftInv
    BY DEF LeftInv
  <2> QED
    BY <2>1, <2>2, <2>3, <2>4 DEF GhInv
<1>2. GhInv /\ [GitHubToolsNext]_ghVars => GhInv'
  <2> SUFFICES ASSUME GhInv, [GitHubToolsNext]_ghVars PROVE GhInv'
    OBVIOUS
  <2>1. CASE UNCHANGED ghVars
    BY <2>1 DEF ghVars, GhInv, GhTypeOK, ReportInv, TargetInv, GitHubReportsAreTrue,
                WritesHitTheirTarget, LeftInv, At
  <2>2. CASE GitHubToolsNext
    <3>1. ASSUME NEW tool \in {"read", "get_branch", "get_pr", "get_file", "check_ci",
                               "create_branch", "update_file", "update_by_sha", "open_pr",
                               "comment", "close_pr", "delete_branch"},
                 NEW x \in Expectations(tool), StartTool(tool, x)
          PROVE  GhInv'
      <4>1. tool \notin {"none", "undo_branch", "undo_pr", "undo_file", "undo_comment"}
        OBVIOUS
      <4> QED
        BY <3>1, <4>1, StartStep
    <3> QED
      BY <2>2, <3>1, ToolRequests, UndoRequests, FailStep, UndoStep, MeddleStep
         DEF GitHubToolsNext
  <2> QED
    BY <2>1, <2>2
<1> QED
  BY <1>1, <1>2, PTL DEF GitHubToolsSpec

\* github_tools: what a tool or a rollback reports as done or seen is so, for
\* any number of calls and of steps by other people, unless one of them stepped
\* in since its last read or the token lost its access.
THEOREM ReportsHold == GitHubToolsSpec => []GitHubReportsAreTrue
<1>1. GhInv => GitHubReportsAreTrue
  BY DEF GhInv, ReportInv
<1> QED
  BY <1>1, GitHubToolsInvariance, PTL

\* github_tools: an update replaces what its caller expected; a tool closes or
\* deletes what its caller named unless somebody stepped in after its check, and a
\* rollback undoes what its tool left unless somebody stepped in since it started.
THEOREM WritesAreAimed == GitHubToolsSpec => []WritesHitTheirTarget
<1>1. GhInv => WritesHitTheirTarget
  BY DEF GhInv, TargetInv
<1> QED
  BY <1>1, GitHubToolsInvariance, PTL

-----------------------------------------------------------------------------
(* The file tools.                                                          *)

WorkspaceSpec == WorkspaceInit /\ [][WorkspaceNext]_wsVars

Tokens == [tool : {"safe_file_write", "patch_file"}, path : InsidePaths,
           previous : Contents \cup {Missing}, existed : BOOLEAN]

WsTypeOK ==
    /\ wsPc \in {"running", "rolling_back", "done", "raised"}
    /\ wsFiles \in [AnyPath -> Contents \cup {Missing}]
    /\ wsStep \in Calls \cup {NoCall}
    /\ wsStack \in Seq(Tokens)
    /\ wsOrphans \in BOOLEAN
    /\ wsBefore \in [AnyPath -> Contents \cup {Missing, Untouched}]
    /\ wsRead \subseteq InsidePaths
    /\ \A p \in OutsidePaths : wsBefore[p] = Untouched

\* A name leads to itself, or out of the workspace by a link put in its place.
LeadsTo(p) ==
    \/ wsLink[p] = p
    \/ p \in InsidePaths /\ wsLink[p] \in OutsidePaths /\ p \in wsSwapped

LinkInv ==
    /\ wsLink \in [AnyPath -> AnyPath]
    /\ \A p \in AnyPath : LeadsTo(p)
    /\ wsSwapped = {} => wsUndone \subseteq InsidePaths

\* The oldest token of a path holds the content from before the plan, and
\* every token tells a missing file from an empty one.
TokenOf(i) ==
    /\ ~wsStack[i].existed => wsStack[i].previous = Missing
    /\ wsBefore[wsStack[i].path] # Untouched
    /\ (\A j \in 1 .. Len(wsStack) : j < i => wsStack[j].path # wsStack[i].path)
         => wsStack[i].previous = Restored(wsBefore[wsStack[i].path])

\* A path that was written has a token left, or has its content back, or is
\* reported, or a link or an orphan spoils it.
BackOf(p) ==
    wsBefore[p] # Untouched =>
        \/ \E i \in 1 .. Len(wsStack) : wsStack[i].path = p
        \/ /\ wsPc # "running"
           /\ \/ wsOrphans \/ p \in wsReported \/ p \in wsSwapped
              \/ wsFiles[p] = Restored(wsBefore[p])

RunnerInv ==
    /\ wsRunner.policy = "container" =>
         wsRunner.runner \in {"gvisor", "podman", "docker", "unavailable"}
    /\ wsRunner.policy = "microvm" => wsRunner.runner \in {"firecracker", "unavailable"}
    /\ \A r \in wsRan :
         /\ r.cwd \in InsidePaths
         /\ r.policy # "microvm"
         /\ r.policy = "container" =>
              r.runner # "workspace" /\ r.runtimes \cap {"docker", "podman"} # {}

WorkspaceInv ==
    /\ WsTypeOK
    /\ LinkInv
    /\ \A i \in 1 .. Len(wsStack) : TokenOf(i)
    /\ \A p \in AnyPath : BackOf(p)
    /\ wsPc = "done" => wsStack = <<>>
    /\ RunnerInv

\* A path that resolves inside is a name inside.
LEMMA ResolvesInside ==
    ASSUME WorkspaceInv, NEW p \in AnyPath, wsLink[p] \in InsidePaths
    PROVE  p \in InsidePaths
BY WorkspaceAssumption DEF WorkspaceInv, LinkInv, LeadsTo

\* A push and a pop, element by element.
LEMMA PushFacts ==
    ASSUME NEW s \in Seq(Tokens), NEW t \in Tokens
    PROVE  /\ Append(s, t) \in Seq(Tokens)
           /\ Len(Append(s, t)) = Len(s) + 1
           /\ \A i \in 1 .. Len(s) : Append(s, t)[i] = s[i]
           /\ Append(s, t)[Len(s) + 1] = t
OBVIOUS

\* What is left of a stack after its last token.
LEMMA PopFacts ==
    ASSUME NEW s \in Seq(Tokens), s # <<>>
    PROVE  /\ SubSeq(s, 1, Len(s) - 1) \in Seq(Tokens)
           /\ Len(SubSeq(s, 1, Len(s) - 1)) = Len(s) - 1
           /\ \A i \in 1 .. Len(s) - 1 : SubSeq(s, 1, Len(s) - 1)[i] = s[i]
           /\ Len(s) \in Nat \ {0} /\ s[Len(s)] \in Tokens
<1>1. Len(s) \in Nat \ {0} /\ s[Len(s)] \in Tokens
  OBVIOUS
<1> DEFINE k == Len(s) - 1
<1>2. k \in Nat /\ \A i \in 1 .. k : i \in 1 .. Len(s)
  BY <1>1
<1>3. \A i \in 1 .. k : s[i] \in Tokens
  BY <1>1, <1>2
<1> HIDE DEF k
<1>4. /\ SubSeq(s, 1, k) \in Seq(Tokens)
      /\ Len(SubSeq(s, 1, k)) = IF 1 <= k THEN k - 1 + 1 ELSE 0
      /\ \A i \in 1 .. k - 1 + 1 : SubSeq(s, 1, k)[i] = s[1 + i - 1]
  <2>1. 1 \in Int /\ k \in Int
    BY <1>2
  <2> QED
    BY <1>3, <2>1, SubSeqProperties
<1>5. k - 1 + 1 = k /\ (~(1 <= k) => k = 0) /\ \A i \in 1 .. k : 1 + i - 1 = i
  BY <1>2
<1>6. Len(SubSeq(s, 1, k)) = k /\ \A i \in 1 .. k : SubSeq(s, 1, k)[i] = s[i]
  BY <1>4, <1>5, Zenon
<1> QED
  BY <1>1, <1>4, <1>6 DEF k

\* safe_file_write, patch_file: a write and the token it leaves.
LEMMA WriteStep ==
    ASSUME WorkspaceInv, wsPc = "running", wsStep \in Calls,
           wsStep.tool \in {"safe_file_write", "patch_file"}, wsStep.path \in InsidePaths,
           NEW token \in Tokens, token.path = wsStep.path,
           token.previous = ReadText(wsStep.path),
           ~token.existed => token.previous = Missing,
           Write(wsStep.path, token), wsStep' = NoCall,
           UNCHANGED <<wsLink, wsRunner, wsOrphans, wsReported, wsSwapped, wsUndone, wsRan>>
    PROVE  WorkspaceInv'
<1> DEFINE p == wsStep.path
           n == Len(wsStack)
<1>1. /\ wsStack' \in Seq(Tokens) /\ Len(wsStack') = n + 1 /\ n \in Nat
      /\ \A i \in 1 .. n : wsStack'[i] = wsStack[i]
      /\ wsStack'[n + 1] = token
  BY PushFacts DEF WorkspaceInv, WsTypeOK, Write
<1>2. /\ p \in AnyPath /\ wsStep.content \in Contents
      /\ wsFiles[p] \in Contents \cup {Missing} /\ wsFiles[p] # Untouched
  <2>1. p \in AnyPath
    BY DEF AnyPath
  <2>2. wsStep.content \in Contents
    BY WorkspaceAssumption DEF Calls, Texts
  <2>3. wsFiles[p] \in Contents \cup {Missing}
    BY <2>1 DEF WorkspaceInv, WsTypeOK
  <2> QED
    BY <2>1, <2>2, <2>3, WorkspaceAssumption DEF Missing, Untouched
<1>3. /\ wsBefore' \in [AnyPath -> Contents \cup {Missing, Untouched}]
      /\ wsBefore'[p] = IF wsBefore[p] = Untouched THEN wsFiles[p] ELSE wsBefore[p]
      /\ wsBefore'[p] # Untouched
      /\ \A q \in AnyPath : q # p => wsBefore'[q] = wsBefore[q]
  BY <1>2 DEF WorkspaceInv, WsTypeOK, Write
<1>4. wsFiles' \in [AnyPath -> Contents \cup {Missing}]
  BY <1>2 DEF WorkspaceInv, WsTypeOK, Write
<1>5. WsTypeOK'
  <2>1. \A q \in OutsidePaths : wsBefore'[q] = Untouched
    BY <1>3, WorkspaceAssumption DEF WorkspaceInv, WsTypeOK, AnyPath
  <2> QED
    BY <1>1, <1>3, <1>4, <2>1 DEF WorkspaceInv, WsTypeOK, Write
<1>6. ASSUME NEW i \in 1 .. Len(wsStack') PROVE TokenOf(i)'
  <2>1. CASE i = n + 1
    <3>1. wsStack'[i] = token
      BY <1>1, <2>1
    <3>2. ASSUME \A j \in 1 .. Len(wsStack') : j < i => wsStack'[j].path # wsStack'[i].path
          PROVE  wsBefore[p] = Untouched
      <4>1. \A j \in 1 .. n : wsStack[j].path # p
        BY <1>1, <2>1, <3>1, <3>2
      <4> QED
        BY <4>1, <1>2 DEF WorkspaceInv, BackOf
    <3>3. wsBefore[p] = Untouched => token.previous = Restored(wsBefore'[p])
      BY <1>3 DEF ReadText, Restored
    <3> QED
      BY <3>1, <3>2, <3>3, <1>3 DEF TokenOf
  <2>2. CASE i \in 1 .. n
    <3>1. wsStack'[i] = wsStack[i] /\ TokenOf(i) /\ wsStack[i].path \in AnyPath
      <4>1. wsStack[i] \in Tokens
        BY <2>2 DEF WorkspaceInv, WsTypeOK
      <4>2. wsStack[i].path \in AnyPath
        BY <4>1 DEF Tokens, AnyPath
      <4> QED
        BY <1>1, <2>2, <4>2 DEF WorkspaceInv
    <3>2. wsBefore'[wsStack[i].path] = wsBefore[wsStack[i].path]
      BY <1>3, <3>1 DEF TokenOf
    <3>3. ASSUME \A j \in 1 .. Len(wsStack') : j < i => wsStack'[j].path # wsStack'[i].path
          PROVE  \A j \in 1 .. n : j < i => wsStack[j].path # wsStack[i].path
      BY <1>1, <2>2, <3>1, <3>3
    <3> QED
      BY <3>1, <3>2, <3>3 DEF TokenOf, Restored
  <2> QED
    BY <1>1, <2>1, <2>2
<1>7. ASSUME NEW q \in AnyPath PROVE BackOf(q)'
  <2>1. CASE q = p
    <3>1. n + 1 \in 1 .. Len(wsStack') /\ wsStack'[n + 1].path = q
      BY <1>1, <2>1
    <3> QED
      BY <3>1 DEF BackOf
  <2>2. CASE q # p
    <3>1. wsBefore[q] # Untouched => \E i \in 1 .. n : wsStack[i].path = q
      BY DEF WorkspaceInv, BackOf
    <3>2. \A i \in 1 .. n : i \in 1 .. Len(wsStack') /\ wsStack'[i] = wsStack[i]
      BY <1>1
    <3> QED
      BY <3>1, <3>2, <1>3, <2>2 DEF BackOf
  <2> QED
    BY <2>1, <2>2
<1>8. wsPc' = "running" /\ RunnerInv' /\ LinkInv'
  BY DEF WorkspaceInv, RunnerInv, LinkInv, LeadsTo, Write
<1> QED
  BY <1>5, <1>6, <1>7, <1>8 DEF WorkspaceInv

\* The rollback puts the content of its token back.
LEMMA PopStep == WorkspaceInv /\ RollbackOne => WorkspaceInv'
<1> SUFFICES ASSUME WorkspaceInv, RollbackOne PROVE WorkspaceInv'
  OBVIOUS
<1>1. CASE wsStack = <<>>
  <2>1. wsPc = "rolling_back" /\ wsPc' = "done"
        /\ UNCHANGED <<wsFiles, wsLink, wsStep, wsStack, wsRunner, wsOrphans, wsReported,
                       wsSwapped, wsUndone, wsBefore, wsRead, wsRan>>
    BY <1>1 DEF RollbackOne
  <2> QED
    BY <1>1, <2>1 DEF WorkspaceInv, WsTypeOK, LinkInv, LeadsTo, TokenOf, BackOf, RunnerInv
<1>2. CASE wsStack # <<>>
  <2> DEFINE n == Len(wsStack)
             token == wsStack[n]
             p == token.path
             at == wsLink[p]
  <2>1. /\ wsStack' \in Seq(Tokens) /\ Len(wsStack') = n - 1
        /\ \A i \in 1 .. n - 1 : wsStack'[i] = wsStack[i]
        /\ n \in Nat \ {0} /\ token \in Tokens
    BY <1>2, PopFacts DEF WorkspaceInv, WsTypeOK, RollbackOne
  <2>2. /\ p \in InsidePaths /\ p \in AnyPath
        /\ token.previous \in Contents \cup {Missing} /\ TokenOf(n)
    BY <2>1 DEF Tokens, AnyPath, WorkspaceInv
  <2>3. /\ wsPc = "rolling_back"
        /\ UNCHANGED <<wsPc, wsStep, wsRunner, wsOrphans, wsSwapped, wsBefore, wsRead, wsRan>>
    BY <1>2 DEF RollbackOne
  <2>4. \/ PutBackFile(p, token.previous) /\ UNCHANGED wsReported
        \/ PutBackRaises(p)
    BY <1>2, <2>2 DEF RollbackOne, RestorePatch, RestoreWrite, TokenOf
  <2>11. /\ at \in AnyPath
         /\ at = p \/ (at \in OutsidePaths /\ p \in wsSwapped)
    BY <2>2 DEF WorkspaceInv, LinkInv, LeadsTo
  <2> HIDE DEF token, p, at
  <2>12. /\ wsLink' = wsLink \/ wsLink' = [wsLink EXCEPT ![p] = p]
         /\ wsUndone' = wsUndone \/ wsUndone' = wsUndone \cup {p}
               \/ wsUndone' = wsUndone \cup {at}
         /\ wsReported \subseteq wsReported'
    BY <2>4 DEF PutBackFile, PutBackRaises, at
  <2>13. LinkInv'
    <3>1. wsLink' \in [AnyPath -> AnyPath] /\ \A q \in AnyPath : wsLink'[q] = wsLink[q] \/ wsLink'[q] = q
      BY <2>2, <2>12 DEF WorkspaceInv, LinkInv
    <3>2. \A q \in AnyPath : LeadsTo(q)'
      BY <2>3, <3>1 DEF WorkspaceInv, LinkInv, LeadsTo
    <3>3. wsSwapped' = {} => wsUndone' \subseteq InsidePaths
      BY <2>2, <2>3, <2>11, <2>12 DEF WorkspaceInv, LinkInv
    <3> QED
      BY <3>1, <3>2, <3>3 DEF LinkInv
  <2>5. /\ wsFiles' \in [AnyPath -> Contents \cup {Missing}]
        /\ \/ p \in wsReported' \/ p \in wsSwapped
           \/ wsFiles'[p] = token.previous
        /\ \A q \in InsidePaths : q # p => wsFiles'[q] = wsFiles[q]
    <3>1. wsFiles \in [AnyPath -> Contents \cup {Missing}]
      BY DEF WorkspaceInv, WsTypeOK
    <3>2. \A q \in InsidePaths : q \in AnyPath /\ (q # p => q # at)
      BY <2>11, WorkspaceAssumption DEF AnyPath
    <3>3. CASE PutBackRaises(p)
      <4>1. p \in wsReported'
        BY <3>3 DEF PutBackRaises
      <4>2. wsFiles' = wsFiles \/ wsFiles' = [wsFiles EXCEPT ![at] = EmptyText]
        BY <3>3 DEF PutBackRaises, at
      <4> QED
        BY <2>11, <3>1, <3>2, <4>1, <4>2, WorkspaceAssumption
    <3>4. CASE PutBackFile(p, token.previous)
      <4>1. \/ wsFiles' = [wsFiles EXCEPT ![p] = token.previous]
            \/ wsFiles' = [wsFiles EXCEPT ![at] = token.previous]
        BY <3>4 DEF PutBackFile, at
      <4> QED
        BY <2>2, <2>11, <3>1, <3>2, <4>1
    <3> QED
      BY <2>4, <3>3, <3>4
  <2>6. WsTypeOK'
    BY <2>1, <2>3, <2>5 DEF WorkspaceInv, WsTypeOK
  <2>7. ASSUME NEW i \in 1 .. Len(wsStack') PROVE TokenOf(i)'
    <3>1. i \in 1 .. n /\ wsStack'[i] = wsStack[i] /\ TokenOf(i)
      BY <2>1 DEF WorkspaceInv
    <3>2. ASSUME \A j \in 1 .. Len(wsStack') : j < i => wsStack'[j].path # wsStack'[i].path
          PROVE  \A j \in 1 .. n : j < i => wsStack[j].path # wsStack[i].path
      BY <2>1, <3>1, <3>2
    <3> QED
      BY <3>1, <3>2, <2>3 DEF TokenOf, Restored
  <2>8. ASSUME NEW q \in AnyPath, wsBefore[q] # Untouched PROVE BackOf(q)'
    <3>0. q \in InsidePaths
      BY <2>8 DEF WorkspaceInv, WsTypeOK, AnyPath
    <3>1. CASE \E i \in 1 .. n - 1 : wsStack[i].path = q
      <4>1. \E i \in 1 .. Len(wsStack') : wsStack'[i].path = q
        BY <2>1, <3>1
      <4> QED
        BY <4>1 DEF BackOf
    <3>2. CASE ~(\E i \in 1 .. n - 1 : wsStack[i].path = q) /\ q = p
      <4>1. \A j \in 1 .. Len(wsStack) : j < n => wsStack[j].path # wsStack[n].path
        BY <2>1, <3>2 DEF p, token
      <4>2. token.previous = Restored(wsBefore[p])
        BY <2>2, <4>1 DEF TokenOf, p, token
      <4> QED
        BY <4>2, <2>3, <2>5, <3>2 DEF BackOf, Restored
    <3>3. CASE ~(\E i \in 1 .. n - 1 : wsStack[i].path = q) /\ q # p
      <4>1. ~(\E i \in 1 .. n : wsStack[i].path = q)
        BY <2>1, <3>3 DEF p, token
      <4>2. wsOrphans \/ q \in wsReported \/ q \in wsSwapped \/ wsFiles[q] = Restored(wsBefore[q])
        BY <4>1, <2>8 DEF WorkspaceInv, BackOf
      <4> QED
        BY <4>2, <2>3, <2>5, <2>12, <3>0, <3>3 DEF BackOf, Restored
    <3> QED
      BY <3>1, <3>2, <3>3
  <2>9. RunnerInv'
    BY <2>3 DEF WorkspaceInv, RunnerInv
  <2>10. \A q \in AnyPath : BackOf(q)'
    BY <2>8, <2>3 DEF BackOf
  <2> QED
    BY <2>3, <2>6, <2>7, <2>9, <2>10, <2>13 DEF WorkspaceInv
<1> QED
  BY <1>1, <1>2

\* A step that leaves stack and history alone: either files may change, because
\* the plan still runs or a command outlived it, or the plan may stop.
LEMMA SurroundingsStep ==
    ASSUME WorkspaceInv, UNCHANGED <<wsStack, wsBefore, wsReported>>,
           wsPc = "running" \/ UNCHANGED wsPc,
           wsPc = "running" \/ wsOrphans \/ UNCHANGED wsFiles,
           wsOrphans => wsOrphans', LinkInv', wsSwapped \subseteq wsSwapped',
           wsPc' \in {"running", "rolling_back", "raised"} \/ UNCHANGED wsPc,
           wsFiles' \in [AnyPath -> Contents \cup {Missing}],
           wsStep' \in Calls \cup {NoCall}, wsOrphans' \in BOOLEAN,
           wsRead' \subseteq InsidePaths, RunnerInv'
    PROVE  WorkspaceInv'
<1>1. WsTypeOK'
  BY DEF WorkspaceInv, WsTypeOK
<1>2. \A i \in 1 .. Len(wsStack') : TokenOf(i)'
  BY DEF WorkspaceInv, TokenOf, Restored
<1>3. ASSUME NEW p \in AnyPath PROVE BackOf(p)'
  <2>1. BackOf(p)
    BY DEF WorkspaceInv
  <2> QED
    BY <2>1 DEF BackOf, WorkspaceInv, WsTypeOK, Restored
<1>4. wsPc' = "done" => wsStack' = <<>>
  BY DEF WorkspaceInv
<1> QED
  BY <1>1, <1>2, <1>3, <1>4 DEF WorkspaceInv

\* Whatever others do to files, a name leads where the invariant says.
LEMMA ScribbleFacts ==
    ASSUME WorkspaceInv, NEW paths \in SUBSET AnyPath, Scribble(paths), UNCHANGED wsUndone
    PROVE  /\ wsFiles' \in [AnyPath -> Contents \cup {Missing}]
           /\ LinkInv' /\ wsSwapped \subseteq wsSwapped'
<1>1. /\ wsFiles \in [AnyPath -> Contents \cup {Missing}]
      /\ wsLink \in [AnyPath -> AnyPath]
      /\ \A p \in AnyPath : LeadsTo(p)
      /\ wsSwapped = {} => wsUndone \subseteq InsidePaths
  BY DEF WorkspaceInv, WsTypeOK, LinkInv
<1>2. CASE UNCHANGED <<wsFiles, wsLink, wsSwapped>>
  BY <1>1, <1>2 DEF LinkInv, LeadsTo
<1>3. ASSUME NEW p \in paths, NEW c \in Contents \cup {Missing},
             wsFiles' = [wsFiles EXCEPT ![p] = c], wsLink' = [wsLink EXCEPT ![p] = p],
             UNCHANGED wsSwapped
      PROVE  wsFiles' \in [AnyPath -> Contents \cup {Missing}] /\ LinkInv'
  <2>1. wsLink' \in [AnyPath -> AnyPath] /\ \A q \in AnyPath : wsLink'[q] = wsLink[q] \/ wsLink'[q] = q
    BY <1>1, <1>3
  <2>2. \A q \in AnyPath : LeadsTo(q)'
    BY <1>1, <1>3, <2>1 DEF LeadsTo
  <2> QED
    BY <1>1, <1>3, <2>1, <2>2 DEF LinkInv
<1>4. ASSUME NEW p \in InsidePaths, NEW o \in OutsidePaths,
             wsLink' = [wsLink EXCEPT ![p] = o], wsSwapped' = wsSwapped \cup {p},
             UNCHANGED wsFiles
      PROVE  wsFiles' \in [AnyPath -> Contents \cup {Missing}] /\ LinkInv'
  <2>1. p \in AnyPath /\ o \in AnyPath
    BY DEF AnyPath
  <2>2. wsLink' \in [AnyPath -> AnyPath] /\ wsLink'[p] = o
        /\ \A q \in AnyPath : q # p => wsLink'[q] = wsLink[q]
    BY <1>1, <1>4, <2>1
  <2>3. \A q \in AnyPath : LeadsTo(q)'
    BY <1>1, <1>4, <2>2 DEF LeadsTo
  <2>4. wsSwapped' # {}
    BY <1>4
  <2> QED
    BY <1>1, <1>4, <2>2, <2>3, <2>4 DEF LinkInv
<1>5. wsSwapped \subseteq wsSwapped'
  BY DEF Scribble
<1> QED
  BY <1>2, <1>3, <1>4, <1>5 DEF Scribble

\* A command changes files, may end the plan and may outlive it.
LEMMA CommandFacts ==
    ASSUME WorkspaceInv, NEW paths \in SUBSET AnyPath, CommandEffect(paths), UNCHANGED wsUndone
    PROVE  /\ wsFiles' \in [AnyPath -> Contents \cup {Missing}]
           /\ LinkInv' /\ wsSwapped \subseteq wsSwapped'
           /\ UNCHANGED wsPc \/ wsPc' \in {"rolling_back", "raised"}
           /\ wsOrphans' \in BOOLEAN /\ (wsOrphans => wsOrphans')
<1>1. Scribble(paths) /\ (UNCHANGED wsPc \/ wsPc' \in {"rolling_back", "raised"})
  BY DEF CommandEffect
<1>2. wsOrphans' = wsOrphans \/ wsOrphans' = TRUE
  BY DEF CommandEffect
<1>3. wsOrphans' \in BOOLEAN /\ (wsOrphans => wsOrphans')
  BY <1>2, Zenon DEF WorkspaceInv, WsTypeOK
<1> QED
  BY <1>1, <1>3, ScribbleFacts

\* The execution of an approved step.
LEMMA ExecuteStep == WorkspaceInv /\ Execute => WorkspaceInv'
<1> SUFFICES ASSUME WorkspaceInv, Execute PROVE WorkspaceInv'
  OBVIOUS
<1>1. /\ wsPc = "running" /\ wsStep \in Calls /\ wsStep' = NoCall
      /\ UNCHANGED <<wsLink, wsRunner, wsOrphans, wsReported, wsSwapped, wsUndone, wsRan>>
  BY DEF Execute, WorkspaceInv, WsTypeOK
<1>2. RunnerInv' /\ LinkInv'
  BY <1>1 DEF WorkspaceInv, RunnerInv, LinkInv, LeadsTo
<1>3. CASE Fail \/ Raise
  BY <1>1, <1>2, <1>3, SurroundingsStep DEF Fail, Raise, WorkspaceInv, WsTypeOK
<1>4. ASSUME NEW paths, paths \subseteq InsidePaths, Observe(paths) PROVE WorkspaceInv'
  BY <1>1, <1>2, <1>4, SurroundingsStep DEF Observe, WorkspaceInv, WsTypeOK
<1>5. wsStep.path \in AnyPath
  BY <1>1 DEF Calls
<1>6. ReadText(wsStep.path) \in Contents \cup {Missing}
      /\ (wsFiles[wsStep.path] = Missing => ReadText(wsStep.path) = Missing)
  BY <1>5, WorkspaceAssumption DEF WorkspaceInv, WsTypeOK, ReadText
<1>11. ASSUME WriteRaises(wsStep.path) PROVE WorkspaceInv'
  <2>1. /\ wsFiles' = [wsFiles EXCEPT ![wsStep.path] = EmptyText] /\ wsPc' = "raised"
        /\ UNCHANGED <<wsStack, wsBefore, wsRead>>
    BY <1>11 DEF WriteRaises
  <2>2. wsFiles' \in [AnyPath -> Contents \cup {Missing}]
    BY <2>1, WorkspaceAssumption DEF WorkspaceInv, WsTypeOK
  <2>3. wsRead' \subseteq InsidePaths /\ wsOrphans' \in BOOLEAN
    BY <1>1, <2>1 DEF WorkspaceInv, WsTypeOK
  <2> QED
    BY <1>1, <1>2, <2>1, <2>2, <2>3, SurroundingsStep
<1>7. ASSUME wsStep.tool = "safe_file_write", ExecuteWrite, ~Raise, ~WriteRaises(wsStep.path)
      PROVE  WorkspaceInv'
  <2> DEFINE token == [tool |-> wsStep.tool, path |-> wsStep.path,
                       previous |-> ReadText(wsStep.path), existed |-> TRUE]
  <2>1. wsStep.path \in InsidePaths /\ Write(wsStep.path, token)
    BY <1>5, <1>7, ResolvesInside DEF ExecuteWrite, ResolvePath
  <2>2. token \in Tokens
    BY <1>6, <1>7, <2>1 DEF Tokens
  <2>3. token.path = wsStep.path /\ token.previous = ReadText(wsStep.path) /\ token.existed
    OBVIOUS
  <2> HIDE DEF token
  <2> QED
    BY <1>1, <1>7, <2>1, <2>2, <2>3, WriteStep
<1>8. ASSUME wsStep.tool = "patch_file", ExecutePatch, ~Fail, ~Raise, ~WriteRaises(wsStep.path)
      PROVE  WorkspaceInv'
  <2> DEFINE token == [tool |-> wsStep.tool, path |-> wsStep.path,
                       previous |-> ReadText(wsStep.path),
                       existed |-> wsFiles[wsStep.path] # Missing]
  <2>1. wsStep.path \in InsidePaths /\ Write(wsStep.path, token)
    BY <1>5, <1>8, ResolvesInside DEF ExecutePatch, DryRunPatch, ResolveWorkspacePath
  <2>2. token \in Tokens
    BY <1>6, <1>8, <2>1 DEF Tokens
  <2>3. /\ token.path = wsStep.path /\ token.previous = ReadText(wsStep.path)
        /\ ~token.existed => token.previous = Missing
    BY <1>6
  <2> HIDE DEF token
  <2> QED
    BY <1>1, <1>8, <2>1, <2>2, <2>3, WriteStep
<1>9. ASSUME ExecuteRead, ~Fail, ~Raise PROVE WorkspaceInv'
  <2>1. Observe({wsStep.path}) /\ wsStep.path \in InsidePaths
    BY <1>5, <1>9, ResolvesInside DEF ExecuteRead, DryRunRead, ResolveWorkspacePath
  <2> QED
    BY <1>4, <2>1
<1>10. ASSUME ExecuteList, ~Fail PROVE WorkspaceInv'
  BY <1>4, <1>10 DEF ExecuteList
<1> QED
  BY <1>3, <1>7, <1>8, <1>9, <1>10, <1>11 DEF Execute

\* sandbox_command: a runner starts a command inside, and the one that was asked for.
LEMMA SandboxStep ==
    ASSUME WorkspaceInv, NEW cwd \in AnyPath, RunSandboxed(cwd)
    PROVE  WorkspaceInv'
<1>1. /\ wsPc = "running"
      /\ UNCHANGED <<wsStep, wsStack, wsRunner, wsReported, wsUndone, wsBefore, wsRead>>
      /\ wsStep \in Calls \cup {NoCall} /\ wsRead \subseteq InsidePaths
  BY DEF RunSandboxed, WorkspaceInv, WsTypeOK
<1> DEFINE Starts == \/ RunWorkspace(cwd) \/ RunDocker(cwd) \/ RunGvisor(cwd) \/ RunPodman(cwd)
                     \/ RunFirecracker(cwd)
           entry == [policy |-> wsRunner.policy, runner |-> wsRunner.runner,
                     runtimes |-> wsRuntimes, cwd |-> cwd]
<1>2. CASE Starts
  <2>1. wsRan' = wsRan \cup {entry}
    BY <1>2 DEF RunSandboxed
  <2>5. \E paths \in SUBSET AnyPath : CommandEffect(paths)
    BY <1>2 DEF RunSandboxed, AnyPath
  <2>6. cwd \in InsidePaths
    BY <1>2, ResolvesInside DEF RunWorkspace, RunDocker, RunGvisor, RunPodman, RunFirecracker,
                                ResolvePath
  <2>2. /\ entry.cwd \in InsidePaths /\ entry.policy # "microvm"
        /\ entry.policy = "container" =>
             entry.runner # "workspace" /\ entry.runtimes \cap {"docker", "podman"} # {}
    BY <1>2, <2>6 DEF WorkspaceInv, RunnerInv, RunWorkspace, RunDocker, RunGvisor, RunPodman,
                RunFirecracker, DockerAvailable, GvisorAvailable, PodmanAvailable
  <2>3. RunnerInv'
    BY <1>1, <2>1, <2>2 DEF WorkspaceInv, RunnerInv
  <2>4. PICK paths \in SUBSET AnyPath : CommandEffect(paths)
    BY <2>5
  <2> QED
    BY <1>1, <2>3, <2>4, CommandFacts, SurroundingsStep
<1>3. CASE ~Starts
  <2>1. wsPc' = "raised" /\ UNCHANGED <<wsFiles, wsLink, wsSwapped, wsOrphans, wsRan>>
    BY <1>3 DEF RunSandboxed
  <2>2. RunnerInv' /\ LinkInv'
    BY <1>1, <2>1 DEF WorkspaceInv, RunnerInv, LinkInv, LeadsTo
  <2> QED
    BY <1>1, <2>1, <2>2, SurroundingsStep DEF WorkspaceInv, WsTypeOK
<1> QED
  BY <1>2, <1>3

\* resolve_sandbox_runner falls back on no weaker kind of runner.
LEMMA ResolvedRunner ==
    ASSUME NEW policy \in {"workspace", "container", "microvm"}, NEW runtimes,
           NEW prefer \in Preferences
    PROVE  /\ policy = "container" => ResolveRunner(policy, runtimes, prefer) \in
                {"gvisor", "podman", "docker", "unavailable"}
           /\ policy = "microvm" => ResolveRunner(policy, runtimes, prefer) \in
                {"firecracker", "unavailable"}
<1> DEFINE available == {i \in DOMAIN prefer : RunnerAvailable(prefer[i], runtimes)}
           first == CHOOSE i \in available : \A j \in available : i <= j
<1>1. DOMAIN prefer = 1 .. 3
  BY DEF Preferences
<1>2. available \subseteq Nat
  BY <1>1
<1>3. ASSUME available # {} PROVE prefer[first] \in {"gvisor", "podman", "docker"}
  <2>1. \E i \in available : \A j \in available : i <= j
    BY <1>2, <1>3, LeastElement
  <2>2. first \in available
    BY <2>1
  <2>3. RunnerAvailable(prefer[first], runtimes)
    BY <2>2
  <2> QED
    BY <2>3 DEF RunnerAvailable
<1>4. policy = "microvm" => ResolveRunner(policy, runtimes, prefer) \in {"firecracker", "unavailable"}
  BY DEF ResolveRunner
<1>5. ASSUME policy = "container"
      PROVE  ResolveRunner(policy, runtimes, prefer) =
               IF available # {} THEN prefer[first] ELSE "unavailable"
  BY <1>5 DEF ResolveRunner
<1> HIDE DEF available, first
<1> QED
  BY <1>3, <1>4, <1>5

\* What the tools keep while they run a plan and take it back.
THEOREM WorkspaceInvariance == WorkspaceSpec => []WorkspaceInv
<1>1. WorkspaceInit => WorkspaceInv
  <2> SUFFICES ASSUME WorkspaceInit PROVE WorkspaceInv
    OBVIOUS
  <2>1. WsTypeOK
    <3>1. wsOrphans \in BOOLEAN
      BY Zenon DEF WorkspaceInit
    <3>2. wsBefore = [p \in AnyPath |-> Untouched]
      BY DEF WorkspaceInit
    <3>3. /\ wsBefore \in [AnyPath -> Contents \cup {Missing, Untouched}]
          /\ \A p \in OutsidePaths : wsBefore[p] = Untouched
      BY <3>2 DEF AnyPath
    <3> QED
      BY <3>1, <3>3 DEF WorkspaceInit, WsTypeOK
  <2>2. Len(wsStack) = 0 /\ wsStack = <<>> /\ \A p \in AnyPath : wsBefore[p] = Untouched
    BY DEF WorkspaceInit
  <2>3. RunnerInv
    <3>1. PICK policy \in {"workspace", "container", "microvm"}, prefer \in Preferences :
            wsRunner = [policy |-> policy, runner |-> ResolveRunner(policy, wsRuntimes, prefer)]
      BY DEF WorkspaceInit
    <3>2. wsRunner.policy = policy /\ wsRunner.runner = ResolveRunner(policy, wsRuntimes, prefer)
      BY <3>1
    <3>3. wsRan = {}
      BY DEF WorkspaceInit
    <3> QED
      BY <3>2, <3>3, ResolvedRunner DEF RunnerInv
  <2> QED
    <3>1. LinkInv
      <4>1. wsLink = [p \in AnyPath |-> p] /\ wsUndone = {}
        BY DEF WorkspaceInit
      <4>2. \A p \in AnyPath : wsLink[p] = p
        BY <4>1
      <4> QED
        BY <4>1, <4>2 DEF LinkInv, LeadsTo
    <3> QED
      BY <2>1, <2>2, <2>3, <3>1 DEF WorkspaceInv, TokenOf, BackOf
<1>2. WorkspaceInv /\ [WorkspaceNext]_wsVars => WorkspaceInv'
  <2> SUFFICES ASSUME WorkspaceInv, [WorkspaceNext]_wsVars PROVE WorkspaceInv'
    OBVIOUS
  <2>1. WsTypeOK /\ RunnerInv /\ LinkInv
    BY DEF WorkspaceInv
  <2>2. CASE UNCHANGED wsVars
    BY <2>2 DEF wsVars, WorkspaceInv, WsTypeOK, LinkInv, LeadsTo, TokenOf, BackOf, RunnerInv,
                Restored
  <2>3. ASSUME NEW c \in Calls, DryRun(c) PROVE WorkspaceInv'
    <3>1. /\ wsPc = "running" /\ wsPc' \in {"running", "rolling_back", "raised"}
          /\ wsStep' \in Calls \cup {NoCall}
          /\ UNCHANGED <<wsFiles, wsLink, wsStack, wsRunner, wsOrphans, wsReported,
                         wsSwapped, wsUndone, wsBefore, wsRead, wsRan>>
      BY <2>3 DEF DryRun
    <3> QED
      BY <2>1, <3>1, SurroundingsStep DEF WsTypeOK, RunnerInv, LinkInv, LeadsTo
  <2>4. CASE RunTests
    <3>1. /\ wsPc = "running" /\ CommandEffect(AnyPath)
          /\ UNCHANGED <<wsStep, wsStack, wsRunner, wsReported, wsUndone, wsBefore, wsRead, wsRan>>
      BY <2>4 DEF RunTests
    <3>2. RunnerInv' /\ wsStep' \in Calls \cup {NoCall} /\ wsRead' \subseteq InsidePaths
      BY <2>1, <3>1 DEF RunnerInv, WsTypeOK
    <3> QED
      BY <2>1, <3>1, <3>2, CommandFacts, SurroundingsStep
  <2>5. CASE PeopleEdit
    <3>1. /\ wsPc = "running" /\ Scribble(AnyPath)
          /\ UNCHANGED <<wsPc, wsStep, wsStack, wsRunner, wsOrphans, wsReported, wsUndone,
                         wsBefore, wsRead, wsRan>>
      BY <2>5 DEF PeopleEdit, Scribble
    <3>2. /\ wsFiles' \in [AnyPath -> Contents \cup {Missing}]
          /\ LinkInv' /\ wsSwapped \subseteq wsSwapped'
      BY <3>1, ScribbleFacts
    <3> QED
      BY <2>1, <3>1, <3>2, SurroundingsStep DEF WsTypeOK, RunnerInv
  <2>6. CASE LateWrite
    <3>1. /\ wsOrphans /\ Scribble(AnyPath)
          /\ UNCHANGED <<wsPc, wsStep, wsStack, wsRunner, wsOrphans, wsReported, wsUndone,
                         wsBefore, wsRead, wsRan>>
      BY <2>6 DEF LateWrite
    <3>2. /\ wsFiles' \in [AnyPath -> Contents \cup {Missing}]
          /\ LinkInv' /\ wsSwapped \subseteq wsSwapped'
      BY <3>1, ScribbleFacts
    <3> QED
      BY <2>1, <3>1, <3>2, SurroundingsStep DEF WsTypeOK, RunnerInv
  <2> QED
    BY <2>2, <2>3, <2>4, <2>5, <2>6, ExecuteStep, PopStep, SandboxStep DEF WorkspaceNext
<1> QED
  BY <1>1, <1>2, PTL DEF WorkspaceSpec

\* dev_tools, sandbox: a plan stays in its workspace and what its rollback cannot
\* take back there is reported or spoilt by a link or an orphan, for any paths,
\* contents and number of calls and edits.
THEOREM PlansStayInside == WorkspaceSpec => []WorkspaceConfines
<1>1. WorkspaceInv => WorkspaceConfines
  <2> SUFFICES ASSUME WorkspaceInv PROVE WorkspaceConfines
    OBVIOUS
  <2>1. ASSUME wsPc = "done", ~wsOrphans, NEW p \in InsidePaths \ (wsReported \cup wsSwapped),
               wsBefore[p] # Untouched
        PROVE  wsFiles[p] = Restored(wsBefore[p])
    <3>1. Len(wsStack) = 0
      BY <2>1 DEF WorkspaceInv
    <3>2. BackOf(p)
      BY DEF WorkspaceInv, AnyPath
    <3> QED
      BY <2>1, <3>1, <3>2 DEF BackOf
  <2>2. \A p \in OutsidePaths : wsBefore[p] = Untouched /\ p \notin wsRead
    BY WorkspaceAssumption DEF WorkspaceInv, WsTypeOK
  <2> QED
    BY <2>1, <2>2 DEF WorkspaceConfines, WorkspaceInv, RunnerInv, LinkInv
<1> QED
  BY <1>1, WorkspaceInvariance, PTL

-----------------------------------------------------------------------------
(* The evidence of the production smoke.                                    *)

SmokeSpec == SmokeInit /\ [][SmokeNext]_smVars

CleanChecks == {"pr_closed", "branch_deleted", "source_repo_unchanged"}
Triggers == {"none", "local", "workflow_dispatch"}
Branches == {"none", "base", "ours", "theirs"}
Requests == {"none", "open", "closed"}
Results == {"none", "passed", "failed"}
Evidences == [run : Nat, commit : Nat, trigger : Triggers, status : Results,
              cleanup : Results, checks : SUBSET RequiredChecks]
Truths == [code : Nat, readBack : BOOLEAN, left : BOOLEAN, raced : BOOLEAN]

IsSmokeRun(run) ==
    /\ run.sha \in Nat /\ run.trigger \in Triggers /\ run.checks \in SUBSET RequiredChecks
    /\ run = [pc |-> run.pc, sha |-> run.sha, tree |-> run.tree, trigger |-> run.trigger,
              checks |-> run.checks, baseBefore |-> run.baseBefore, bound |-> run.bound,
              prSeen |-> run.prSeen, branchSeen |-> run.branchSeen]

SmokeTypeOK ==
    /\ smMain \in Nat /\ smBase \in Nat \ {0} /\ smAccess \in BOOLEAN
    /\ smRuns \in Nat
    /\ IsSmokeRun(smRun)
    /\ smBranch \in Branches /\ smPr \in Requests
    /\ smArtifacts \in [SmokeIds -> Evidences]
    /\ smTruth \in [SmokeIds -> Truths]
    /\ smOut \in Evidences
    /\ smRelease \in [commit : Nat, run : Nat]

\* The run under way has no evidence yet; its checks are no better than what it
\* has done, and what it saw in its last look has changed since only if
\* somebody raced it.
RunInv ==
    smRun # NoRun =>
        /\ smRun.pc # "none" /\ smRuns \in SmokeIds /\ smArtifacts[smRuns] = NoEvidence
        /\ smRun.trigger = "workflow_dispatch" => smRun.tree = smTruth[smRuns].code
        /\ smRun.trigger = "workflow_dispatch" /\ smRun.pc # "repository" =>
              smRun.tree = smRun.sha
        /\ smRun.pc # "repository" => smRun.baseBefore # 0
        /\ "read_back_verified" \in smRun.checks => smTruth[smRuns].readBack
        /\ smRun.checks \cap CleanChecks = {}
        /\ smRun.pc \in {"seeBranch", "seeBase"} /\ smRun.prSeen = "closed" =>
              smTruth[smRuns].raced \/ smPr # "open"
        /\ smRun.pc = "seeBase" /\ ~smRun.branchSeen =>
              smTruth[smRuns].raced \/ ~smAccess \/ smBranch = "none"

\* The evidence of run r.
ArtifactOf(r) ==
    LET e == smArtifacts[r]
    IN  /\ e # NoEvidence => e.run = r /\ r <= smRuns
        /\ e.cleanup = "passed" => smTruth[r].raced \/ ~smTruth[r].left
        /\ "read_back_verified" \in e.checks => smTruth[r].readBack
        /\ e.trigger = "workflow_dispatch" /\ e.status = "passed" =>
              smTruth[r].code = e.commit

\* The file of the release checkout is the evidence of some run, and a release
\* rests on such evidence.
ReleaseInv ==
    /\ smOut # NoEvidence => smOut.run \in SmokeIds /\ smArtifacts[smOut.run] = smOut
    /\ smRelease # NoRelease =>
          /\ smRelease.run \in SmokeIds /\ smArtifacts[smRelease.run].cleanup = "passed"
          /\ "read_back_verified" \in smArtifacts[smRelease.run].checks
          /\ smTruth[smRelease.run].code = smRelease.commit

SmokeInv ==
    /\ SmokeTypeOK /\ RunInv /\ ReleaseInv
    /\ \A r \in SmokeIds : ArtifactOf(r)

\* Every step of a run, and of people while it is under way, changes the truth
\* about that run alone, and never which code it runs.
OnlyOfThisRun ==
    /\ smTruth' \in [SmokeIds -> Truths]
    /\ \A r \in SmokeIds \ {smRuns} : smTruth'[r] = smTruth[r]
    /\ smTruth'[smRuns].code = smTruth[smRuns].code

\* A run that goes on writes no evidence, so nothing is said about it yet.
LEMMA GoesOnStep ==
    ASSUME SmokeInv, smRun # NoRun, SmokeTypeOK', RunInv', OnlyOfThisRun,
           UNCHANGED <<smRuns, smArtifacts, smOut, smRelease>>
    PROVE  SmokeInv'
<1> USE DEF SmokeInv
<1>1. smRuns \in SmokeIds /\ smArtifacts[smRuns] = NoEvidence
  BY DEF RunInv
<1>2. \A r \in SmokeIds : ArtifactOf(r)'
  <2> TAKE r \in SmokeIds
  <2>1. CASE r = smRuns
    BY <1>1, <2>1 DEF ArtifactOf, NoEvidence
  <2>2. CASE r # smRuns
    <3>1. smTruth'[r] = smTruth[r]
      BY <2>2 DEF OnlyOfThisRun
    <3> QED
      BY <3>1 DEF ArtifactOf
  <2> QED
    BY <2>1, <2>2
<1>3. ReleaseInv'
  <2>1. smRelease # NoRelease => smRelease.run # smRuns
    BY <1>1 DEF ReleaseInv, NoEvidence
  <2>2. smRelease # NoRelease => smTruth'[smRelease.run] = smTruth[smRelease.run]
    BY <2>1 DEF ReleaseInv, OnlyOfThisRun
  <2> QED
    BY <2>2 DEF ReleaseInv
<1> QED
  BY <1>2, <1>3

\* What a step makes of the run, field by field.
LEMMA RunExcept ==
    ASSUME IsSmokeRun(smRun), NEW pc, NEW y
    PROVE  /\ smRun' = [smRun EXCEPT !.pc = pc] =>
                smRun' =
                   [pc |-> pc, sha |-> smRun.sha, tree |-> smRun.tree, trigger |-> smRun.trigger,
                    checks |-> smRun.checks, baseBefore |-> smRun.baseBefore, bound |-> smRun.bound,
                    prSeen |-> smRun.prSeen, branchSeen |-> smRun.branchSeen]
           /\ smRun' = [smRun EXCEPT !.pc = pc, !.bound = y] =>
                smRun' =
                   [pc |-> pc, sha |-> smRun.sha, tree |-> smRun.tree, trigger |-> smRun.trigger,
                    checks |-> smRun.checks, baseBefore |-> smRun.baseBefore, bound |-> y,
                    prSeen |-> smRun.prSeen, branchSeen |-> smRun.branchSeen]
           /\ smRun' = [smRun EXCEPT !.pc = pc, !.prSeen = y] =>
                smRun' =
                   [pc |-> pc, sha |-> smRun.sha, tree |-> smRun.tree, trigger |-> smRun.trigger,
                    checks |-> smRun.checks, baseBefore |-> smRun.baseBefore, bound |-> smRun.bound,
                    prSeen |-> y, branchSeen |-> smRun.branchSeen]
           /\ smRun' = [smRun EXCEPT !.pc = pc, !.branchSeen = y] =>
                smRun' =
                   [pc |-> pc, sha |-> smRun.sha, tree |-> smRun.tree, trigger |-> smRun.trigger,
                    checks |-> smRun.checks, baseBefore |-> smRun.baseBefore, bound |-> smRun.bound,
                    prSeen |-> smRun.prSeen, branchSeen |-> y]
           /\ smRun' = [smRun EXCEPT !.pc = pc, !.checks = y] =>
                smRun' =
                   [pc |-> pc, sha |-> smRun.sha, tree |-> smRun.tree, trigger |-> smRun.trigger,
                    checks |-> y, baseBefore |-> smRun.baseBefore, bound |-> smRun.bound,
                    prSeen |-> smRun.prSeen, branchSeen |-> smRun.branchSeen]
           /\ smRun' = [smRun EXCEPT !.tree = y] =>
                smRun' =
                   [pc |-> smRun.pc, sha |-> smRun.sha, tree |-> y, trigger |-> smRun.trigger,
                    checks |-> smRun.checks, baseBefore |-> smRun.baseBefore, bound |-> smRun.bound,
                    prSeen |-> smRun.prSeen, branchSeen |-> smRun.branchSeen]
<1> DEFINE a == smRun.pc
           b == smRun.sha
           c == smRun.tree
           d == smRun.trigger
           e == smRun.checks
           f == smRun.baseBefore
           g == smRun.bound
           h == smRun.prSeen
           i == smRun.branchSeen
<1>1. smRun = [pc |-> a, sha |-> b, tree |-> c, trigger |-> d, checks |-> e,
               baseBefore |-> f, bound |-> g, prSeen |-> h, branchSeen |-> i]
  BY DEF IsSmokeRun
<1> HIDE DEF a, b, c, d, e, f, g, h, i
<1>2. smRun' = [smRun EXCEPT !.pc = pc] =>
        smRun' = [pc |-> pc, sha |-> b, tree |-> c, trigger |-> d,
                  checks |-> e, baseBefore |-> f, bound |-> g, prSeen |-> h, branchSeen |-> i]
  BY <1>1
<1>3. smRun' = [smRun EXCEPT !.pc = pc, !.bound = y] =>
        smRun' = [pc |-> pc, sha |-> b, tree |-> c, trigger |-> d,
                  checks |-> e, baseBefore |-> f, bound |-> y, prSeen |-> h, branchSeen |-> i]
  BY <1>1
<1>4. smRun' = [smRun EXCEPT !.pc = pc, !.prSeen = y] =>
        smRun' = [pc |-> pc, sha |-> b, tree |-> c, trigger |-> d,
                  checks |-> e, baseBefore |-> f, bound |-> g, prSeen |-> y, branchSeen |-> i]
  BY <1>1
<1>5. smRun' = [smRun EXCEPT !.pc = pc, !.branchSeen = y] =>
        smRun' = [pc |-> pc, sha |-> b, tree |-> c, trigger |-> d,
                  checks |-> e, baseBefore |-> f, bound |-> g, prSeen |-> h, branchSeen |-> y]
  BY <1>1
<1>6. smRun' = [smRun EXCEPT !.pc = pc, !.checks = y] =>
        smRun' = [pc |-> pc, sha |-> b, tree |-> c, trigger |-> d,
                  checks |-> y, baseBefore |-> f, bound |-> g, prSeen |-> h, branchSeen |-> i]
  BY <1>1
<1>7. smRun' = [smRun EXCEPT !.tree = y] =>
        smRun' = [pc |-> a, sha |-> b, tree |-> y, trigger |-> d,
                  checks |-> e, baseBefore |-> f, bound |-> g, prSeen |-> h, branchSeen |-> i]
  BY <1>1
<1> QED
  BY <1>2, <1>3, <1>4, <1>5, <1>6, <1>7 DEF a, b, c, d, e, f, g, h, i

\* The same for the first look.
LEMMA RunLooked ==
    ASSUME IsSmokeRun(smRun), NEW checks, NEW base,
           smRun' = [smRun EXCEPT !.pc = "plan", !.checks = checks, !.baseBefore = base]
    PROVE  smRun' = [pc |-> "plan", sha |-> smRun.sha, tree |-> smRun.tree,
                     trigger |-> smRun.trigger, checks |-> checks, baseBefore |-> base,
                     bound |-> smRun.bound, prSeen |-> smRun.prSeen,
                     branchSeen |-> smRun.branchSeen]
<1> DEFINE a == smRun.pc
           b == smRun.sha
           c == smRun.tree
           d == smRun.trigger
           e == smRun.checks
           f == smRun.baseBefore
           g == smRun.bound
           h == smRun.prSeen
           i == smRun.branchSeen
<1>1. smRun = [pc |-> a, sha |-> b, tree |-> c, trigger |-> d, checks |-> e,
               baseBefore |-> f, bound |-> g, prSeen |-> h, branchSeen |-> i]
  BY DEF IsSmokeRun
<1> HIDE DEF a, b, c, d, e, f, g, h, i
<1>2. smRun' = [pc |-> "plan", sha |-> b, tree |-> c, trigger |-> d, checks |-> checks,
                baseBefore |-> base, bound |-> g, prSeen |-> h, branchSeen |-> i]
  BY <1>1
<1> QED
  BY <1>2 DEF b, c, d, g, h, i

\* What there is when no run is under way.
LEMMA NoRunTyped == IsSmokeRun(NoRun)
<1>1. NoRun.sha \in Nat /\ NoRun.trigger \in Triggers /\ NoRun.checks \in SUBSET RequiredChecks
  BY DEF NoRun, Triggers
<1>2. NoRun = [pc |-> NoRun.pc, sha |-> NoRun.sha, tree |-> NoRun.tree,
               trigger |-> NoRun.trigger, checks |-> NoRun.checks,
               baseBefore |-> NoRun.baseBefore, bound |-> NoRun.bound,
               prSeen |-> NoRun.prSeen, branchSeen |-> NoRun.branchSeen]
  BY DEF NoRun
<1> QED
  BY <1>1, <1>2 DEF IsSmokeRun

\* _write_evidence: the evidence claims no more than what the run has done.
LEMMA EvidenceStep ==
    ASSUME SmokeInv, smRun # NoRun, NEW checks \in SUBSET RequiredChecks,
           NEW status \in {"passed", "failed"}, WriteEvidence(checks, status),
           OnlyOfThisRun, OthersStay, smBranch' \in Branches, smPr' \in Requests,
           CleanChecks \subseteq checks => smTruth'[smRuns].raced \/ ~smTruth'[smRuns].left,
           "read_back_verified" \in checks => smTruth'[smRuns].readBack,
           status = "passed" => smRun.pc # "repository"
    PROVE  SmokeInv'
<1> USE DEF SmokeInv
<1> DEFINE e == [run |-> smRuns, commit |-> smRun.sha, trigger |-> smRun.trigger,
                 status |-> status,
                 cleanup |-> IF CleanChecks \subseteq checks THEN "passed" ELSE "failed",
                 checks |-> checks]
<1>1. /\ smArtifacts' = [smArtifacts EXCEPT ![smRuns] = e]
      /\ smOut' = IF smRun.trigger = "local" THEN e ELSE smOut
      /\ smRun' = NoRun
  BY DEF WriteEvidence, CleanChecks
<1>2. smRuns \in SmokeIds /\ smArtifacts[smRuns] = NoEvidence
  BY DEF RunInv
<1>3. UNCHANGED <<smMain, smBase, smAccess, smRuns, smRelease>>
  BY DEF OthersStay
<1>4. e \in Evidences /\ e # NoEvidence
  <2>1. e.run \in Nat /\ e.commit \in Nat /\ e.trigger \in Triggers
    BY DEF SmokeTypeOK, IsSmokeRun
  <2>2. e.status \in Results /\ e.cleanup \in Results
    BY DEF Results
  <2>3. e.status # NoEvidence.status
    BY DEF NoEvidence
  <2> QED
    BY <2>1, <2>2, <2>3 DEF Evidences
<1>5. smArtifacts' \in [SmokeIds -> Evidences] /\ smOut' \in Evidences
      /\ smArtifacts'[smRuns] = e
      /\ \A r \in SmokeIds \ {smRuns} : smArtifacts'[r] = smArtifacts[r]
  BY <1>1, <1>2, <1>4 DEF SmokeTypeOK
<1>6. SmokeTypeOK'
  BY <1>1, <1>3, <1>5, NoRunTyped DEF SmokeTypeOK, OnlyOfThisRun
<1>7. RunInv'
  BY <1>1 DEF RunInv
<1>8. \A r \in SmokeIds : ArtifactOf(r)'
  <2> TAKE r \in SmokeIds
  <2>1. CASE r = smRuns
    <3>1. smArtifacts'[r] = e
      BY <1>5, <2>1
    <3>2. e.cleanup = "passed" => smTruth'[r].raced \/ ~smTruth'[r].left
      BY <2>1
    <3>3. "read_back_verified" \in e.checks => smTruth'[r].readBack
      BY <2>1
    <3>4. e.trigger = "workflow_dispatch" /\ e.status = "passed" =>
             smTruth'[r].code = e.commit
      BY <2>1 DEF RunInv, OnlyOfThisRun
    <3>5. e.run = r /\ r <= smRuns'
      BY <1>3, <2>1 DEF SmokeTypeOK
    <3> QED
      BY <3>1, <3>2, <3>3, <3>4, <3>5 DEF ArtifactOf
  <2>2. CASE r # smRuns
    <3>1. smTruth'[r] = smTruth[r] /\ smArtifacts'[r] = smArtifacts[r]
      BY <1>5, <2>2 DEF OnlyOfThisRun
    <3> QED
      BY <1>3, <3>1 DEF ArtifactOf
  <2> QED
    BY <2>1, <2>2
<1>9. ReleaseInv'
  <2>1. smRelease # NoRelease => smRelease.run # smRuns
    BY <1>2 DEF ReleaseInv, NoEvidence
  <2>2. smRelease # NoRelease =>
          /\ smTruth'[smRelease.run] = smTruth[smRelease.run]
          /\ smArtifacts'[smRelease.run] = smArtifacts[smRelease.run]
    BY <1>5, <2>1 DEF ReleaseInv, OnlyOfThisRun
  <2>3. smOut # NoEvidence => smOut.run # smRuns
    BY <1>2 DEF ReleaseInv
  <2>4. smOut' # NoEvidence => smOut'.run \in SmokeIds /\ smArtifacts'[smOut'.run] = smOut'
    <3>1. CASE smOut' = e
      BY <1>2, <1>5, <3>1
    <3>2. CASE smOut' = smOut
      BY <1>5, <2>3, <3>2 DEF ReleaseInv
    <3> QED
      BY <1>1, <3>1, <3>2
  <2> QED
    BY <1>3, <2>2, <2>4 DEF ReleaseInv
<1> QED
  BY <1>6, <1>7, <1>8, <1>9

\* Evidence with the checks made before the last look never says that the run
\* has cleaned up.
LEMMA GivesUpStep ==
    ASSUME SmokeInv, smRun # NoRun, GivesUp, OthersStay,
           smBranch' \in Branches, smPr' \in Requests,
           UNCHANGED smTruth \/ (OnlyOfThisRun
                                 /\ smTruth'[smRuns].readBack = smTruth[smRuns].readBack)
    PROVE  SmokeInv'
<1>1. smRun.checks \in SUBSET RequiredChecks
  BY DEF SmokeInv, SmokeTypeOK, IsSmokeRun
<1>2. ~(CleanChecks \subseteq smRun.checks)
  BY DEF SmokeInv, RunInv, CleanChecks
<1>3. OnlyOfThisRun /\ smTruth'[smRuns].readBack = smTruth[smRuns].readBack
  BY DEF OnlyOfThisRun, SmokeInv, SmokeTypeOK
<1>4. "read_back_verified" \in smRun.checks => smTruth'[smRuns].readBack
  BY <1>3 DEF SmokeInv, RunInv
<1>5. WriteEvidence(smRun.checks, "failed")
  BY DEF GivesUp
<1> QED
  BY <1>1, <1>2, <1>3, <1>4, <1>5, EvidenceStep

\* A run that goes on, with nothing else changed but, in the test repository,
\* its own branch and pull request.
LEMMA RunStep ==
    ASSUME SmokeInv, smRun # NoRun, IsSmokeRun(smRun'), UNCHANGED <<smArtifacts, smOut>>,
           OthersStay, smBranch' \in Branches, smPr' \in Requests, UNCHANGED smTruth, RunInv'
    PROVE  SmokeInv'
<1>1. OnlyOfThisRun
  BY DEF OnlyOfThisRun, SmokeInv, SmokeTypeOK
<1>2. UNCHANGED <<smMain, smBase, smAccess, smRuns, smRelease>>
  BY DEF OthersStay
<1>3. SmokeTypeOK'
  BY <1>2 DEF SmokeInv, SmokeTypeOK
<1> QED
  BY <1>1, <1>2, <1>3, GoesOnStep

\* The same before the last look: what will be seen then does not matter yet.
LEMMA EarlyStep ==
    ASSUME SmokeInv, smRun # NoRun, IsSmokeRun(smRun'), UNCHANGED <<smArtifacts, smOut>>,
           OthersStay, smBranch' \in Branches, smPr' \in Requests, UNCHANGED smTruth,
           smRun'.pc \notin {"none", "repository", "seeBranch", "seeBase"},
           smRun.pc # "repository",
           smRun'.checks \subseteq smRun.checks \cup {"pr_opened"},
           smRun'.sha = smRun.sha, smRun'.tree = smRun.tree,
           smRun'.trigger = smRun.trigger, smRun'.baseBefore = smRun.baseBefore
    PROVE  SmokeInv'
<1>1. UNCHANGED smRuns
  BY DEF OthersStay
<1>2. /\ smRun'.checks \cap CleanChecks = {}
      /\ "read_back_verified" \in smRun'.checks => "read_back_verified" \in smRun.checks
  BY DEF SmokeInv, RunInv, CleanChecks
<1>3. RunInv'
  BY <1>1, <1>2 DEF SmokeInv, RunInv
<1> QED
  BY <1>3, RunStep

\* github_get_repository and the base branch: the checkout is the commit.
LEMMA LookFirstStep == SmokeInv /\ LookFirst => SmokeInv'
<1> SUFFICES ASSUME SmokeInv, LookFirst PROVE SmokeInv'
  OBVIOUS
<1>1. SmAt("repository") /\ OthersStay /\ UNCHANGED <<smBranch, smPr, smTruth>>
  BY DEF LookFirst
<1>2. smRun # NoRun /\ smRun.pc = "repository" /\ IsSmokeRun(smRun)
  BY <1>1 DEF SmAt, NoRun, SmokeInv, SmokeTypeOK
<1>3. smBranch' \in Branches /\ smPr' \in Requests
  BY <1>1 DEF SmokeInv, SmokeTypeOK
<1>4. CASE /\ smRun.tree = smRun.sha
           /\ GoesOn([smRun EXCEPT !.pc = "plan", !.checks = {"private_repo_used"},
                                   !.baseBefore = smBase])
  <2>1. UNCHANGED <<smArtifacts, smOut, smRuns>>
    BY <1>1, <1>4 DEF GoesOn, OthersStay
  <2>2. smRun' = [pc |-> "plan", sha |-> smRun.sha, tree |-> smRun.tree,
                  trigger |-> smRun.trigger, checks |-> {"private_repo_used"},
                  baseBefore |-> smBase, bound |-> smRun.bound,
                  prSeen |-> smRun.prSeen, branchSeen |-> smRun.branchSeen]
    <3>1. smRun' = [smRun EXCEPT !.pc = "plan", !.checks = {"private_repo_used"},
                                 !.baseBefore = smBase]
      BY <1>4 DEF GoesOn
    <3> QED
      BY <1>2, <3>1, RunLooked
  <2>3. /\ smRun'.pc = "plan" /\ smRun'.checks = {"private_repo_used"}
        /\ smRun'.baseBefore = smBase /\ smRun'.sha = smRun.sha
        /\ smRun'.tree = smRun.tree /\ smRun'.trigger = smRun.trigger
    BY <2>2
  <2>4. IsSmokeRun(smRun')
    <3>1. smRun'.sha \in Nat /\ smRun'.trigger \in Triggers /\ smRun'.checks \in SUBSET RequiredChecks
      BY <1>2, <2>3 DEF IsSmokeRun, RequiredChecks
    <3> QED
      BY <2>2, <3>1 DEF IsSmokeRun
  <2>5. smRun'.checks \cap CleanChecks = {} /\ "read_back_verified" \notin smRun'.checks
    BY <2>3 DEF CleanChecks
  <2>6. RunInv'
    BY <1>1, <1>2, <1>4, <2>1, <2>3, <2>5 DEF SmokeInv, SmokeTypeOK, RunInv
  <2> QED
    BY <1>1, <1>2, <1>3, <2>1, <2>4, <2>6, RunStep
<1> QED
  BY <1>1, <1>2, <1>3, <1>4, GivesUpStep DEF LookFirst

\* The steps from the plan to the confirmation of the deletion.
LEMMA MiddleSteps ==
    ASSUME SmokeInv,
           WritePlan \/ BindCleanup \/ CloseSmokePr \/ CompareHead \/ DeleteSmokeBranch
             \/ ConfirmDeletion
    PROVE  SmokeInv'
<1>1. OthersStay /\ UNCHANGED smTruth
  BY DEF WritePlan, BindCleanup, CloseSmokePr, CompareHead, DeleteSmokeBranch,
         ConfirmDeletion
<1>2. smRun # NoRun /\ smRun.pc # "repository"
  BY DEF WritePlan, BindCleanup, CloseSmokePr, CompareHead, DeleteSmokeBranch,
         ConfirmDeletion, SmAt, NoRun
<1>3. smBranch' \in Branches /\ smPr' \in Requests
  <2>1. smBranch \in Branches /\ smPr \in Requests
    BY DEF SmokeInv, SmokeTypeOK
  <2>2. /\ smBranch' \in {smBranch, "none", "base", "ours"}
        /\ smPr' \in {smPr, "none", "open", "closed"}
    BY Zenon DEF WritePlan, BindCleanup, CloseSmokePr, CompareHead, DeleteSmokeBranch,
                 ConfirmDeletion
  <2> QED
    BY <2>1, <2>2 DEF Branches, Requests
<1>4. IsSmokeRun(smRun)
  BY DEF SmokeInv, SmokeTypeOK
<1>5. CASE GivesUp
  BY <1>1, <1>2, <1>3, <1>5, GivesUpStep
<1>6. ASSUME NEW pc \in {"close", "compare", "delete", "confirm", "seePr"}, NEW bound,
             \/ GoesOn([smRun EXCEPT !.pc = pc])
             \/ GoesOn([smRun EXCEPT !.pc = pc, !.bound = bound])
      PROVE  SmokeInv'
  <2>1. UNCHANGED <<smArtifacts, smOut>>
    BY <1>6 DEF GoesOn
  <2>2. \/ smRun' = [pc |-> pc, sha |-> smRun.sha, tree |-> smRun.tree,
                     trigger |-> smRun.trigger, checks |-> smRun.checks,
                     baseBefore |-> smRun.baseBefore, bound |-> smRun.bound,
                     prSeen |-> smRun.prSeen, branchSeen |-> smRun.branchSeen]
        \/ smRun' = [pc |-> pc, sha |-> smRun.sha, tree |-> smRun.tree,
                     trigger |-> smRun.trigger, checks |-> smRun.checks,
                     baseBefore |-> smRun.baseBefore, bound |-> bound,
                     prSeen |-> smRun.prSeen, branchSeen |-> smRun.branchSeen]
    BY <1>4, <1>6, RunExcept DEF GoesOn
  <2>3. /\ smRun'.pc = pc /\ smRun'.checks = smRun.checks
        /\ smRun'.baseBefore = smRun.baseBefore /\ smRun'.sha = smRun.sha
        /\ smRun'.tree = smRun.tree /\ smRun'.trigger = smRun.trigger
    BY <2>2
  <2>4. IsSmokeRun(smRun')
    BY <1>4, <2>2 DEF IsSmokeRun
  <2> QED
    BY <1>1, <1>2, <1>3, <2>1, <2>3, <2>4, EarlyStep
<1>7. CASE GoesOn([smRun EXCEPT !.pc = "readback", !.checks = @ \cup {"pr_opened"}])
  <2>1. UNCHANGED <<smArtifacts, smOut>>
    BY <1>7 DEF GoesOn
  <2>2. smRun' = [pc |-> "readback", sha |-> smRun.sha, tree |-> smRun.tree,
                  trigger |-> smRun.trigger, checks |-> smRun.checks \cup {"pr_opened"},
                  baseBefore |-> smRun.baseBefore, bound |-> smRun.bound,
                  prSeen |-> smRun.prSeen, branchSeen |-> smRun.branchSeen]
    BY <1>4, <1>7, RunExcept DEF GoesOn
  <2>3. /\ smRun'.pc = "readback" /\ smRun'.checks = smRun.checks \cup {"pr_opened"}
        /\ smRun'.baseBefore = smRun.baseBefore /\ smRun'.sha = smRun.sha
        /\ smRun'.tree = smRun.tree /\ smRun'.trigger = smRun.trigger
    BY <2>2
  <2>4. IsSmokeRun(smRun')
    <3>1. smRun'.sha \in Nat /\ smRun'.trigger \in Triggers /\ smRun'.checks \in SUBSET RequiredChecks
      BY <1>4, <2>3 DEF IsSmokeRun, RequiredChecks
    <3> QED
      BY <2>2, <3>1 DEF IsSmokeRun
  <2> QED
    BY <1>1, <1>2, <1>3, <2>1, <2>3, <2>4, EarlyStep
<1> QED
  BY <1>5, <1>6, <1>7
  DEF WritePlan, BindCleanup, CloseSmokePr, CompareHead, DeleteSmokeBranch, ConfirmDeletion

\* The read-back: the check and the truth in one step.
LEMMA ReadBackStep == SmokeInv /\ ReadBack => SmokeInv'
<1> SUFFICES ASSUME SmokeInv, ReadBack PROVE SmokeInv'
  OBVIOUS
<1>1. SmAt("readback") /\ OthersStay /\ UNCHANGED <<smBranch, smPr>>
  BY DEF ReadBack
<1>2. smRun # NoRun /\ smRun.pc = "readback" /\ IsSmokeRun(smRun)
  BY <1>1 DEF SmAt, NoRun, SmokeInv, SmokeTypeOK
<1>3. smBranch' \in Branches /\ smPr' \in Requests
  BY <1>1 DEF SmokeInv, SmokeTypeOK
<1>4. CASE /\ GoesOn([smRun EXCEPT !.pc = "bind", !.checks = @ \cup {"read_back_verified"}])
           /\ smTruth' = [smTruth EXCEPT ![smRuns].readBack = TRUE]
  <2>1. UNCHANGED <<smArtifacts, smOut, smRuns, smMain, smBase, smAccess, smRelease>>
    BY <1>1, <1>4 DEF GoesOn, OthersStay
  <2>2. smRun' = [pc |-> "bind", sha |-> smRun.sha, tree |-> smRun.tree,
                  trigger |-> smRun.trigger,
                  checks |-> smRun.checks \cup {"read_back_verified"},
                  baseBefore |-> smRun.baseBefore, bound |-> smRun.bound,
                  prSeen |-> smRun.prSeen, branchSeen |-> smRun.branchSeen]
    BY <1>2, <1>4, RunExcept DEF GoesOn
  <2>3. /\ smRun'.pc = "bind" /\ smRun'.checks = smRun.checks \cup {"read_back_verified"}
        /\ smRun'.baseBefore = smRun.baseBefore /\ smRun'.sha = smRun.sha
        /\ smRun'.tree = smRun.tree /\ smRun'.trigger = smRun.trigger
    BY <2>2
  <2>4. IsSmokeRun(smRun')
    <3>1. /\ smRun'.sha \in Nat /\ smRun'.trigger \in Triggers
          /\ smRun'.checks \in SUBSET RequiredChecks
      BY <1>2, <2>3 DEF IsSmokeRun, RequiredChecks
    <3> QED
      BY <2>2, <3>1 DEF IsSmokeRun
  <2>5. smRuns \in SmokeIds /\ smTruth \in [SmokeIds -> Truths]
    BY <1>2 DEF SmokeInv, RunInv, SmokeTypeOK
  <2>6. OnlyOfThisRun /\ smTruth'[smRuns].readBack
    BY <1>4, <2>5 DEF OnlyOfThisRun, Truths
  <2>7. SmokeTypeOK'
    BY <1>3, <2>1, <2>4, <2>6 DEF SmokeInv, SmokeTypeOK, OnlyOfThisRun
  <2>8. smRun'.checks \cap CleanChecks = {}
    BY <1>2, <2>3 DEF SmokeInv, RunInv, CleanChecks
  <2>9. RunInv'
    BY <1>2, <2>1, <2>3, <2>6, <2>8 DEF SmokeInv, RunInv, OnlyOfThisRun
  <2> QED
    BY <1>2, <2>1, <2>6, <2>7, <2>9, GoesOnStep
<1> QED
  BY <1>1, <1>2, <1>3, <1>4, GivesUpStep DEF ReadBack

\* The last look at the pull request and at the work branch.
LEMMA SeeStep == SmokeInv /\ (SeePr \/ SeeBranch) => SmokeInv'
<1> SUFFICES ASSUME SmokeInv, SeePr \/ SeeBranch PROVE SmokeInv'
  OBVIOUS
<1>1. OthersStay /\ UNCHANGED <<smBranch, smPr, smTruth>>
  BY DEF SeePr, SeeBranch
<1>2. smRun # NoRun /\ smRun.pc \in {"seePr", "seeBranch"} /\ IsSmokeRun(smRun)
  BY DEF SeePr, SeeBranch, SmAt, NoRun, SmokeInv, SmokeTypeOK
<1>3. smBranch' \in Branches /\ smPr' \in Requests
  BY <1>1 DEF SmokeInv, SmokeTypeOK
<1>4. CASE GoesOn([smRun EXCEPT !.pc = "seeBranch", !.prSeen = smPr])
  <2>1. UNCHANGED <<smArtifacts, smOut, smRuns>>
    BY <1>1, <1>4 DEF GoesOn, OthersStay
  <2>2. smRun' = [pc |-> "seeBranch", sha |-> smRun.sha, tree |-> smRun.tree,
                  trigger |-> smRun.trigger, checks |-> smRun.checks,
                  baseBefore |-> smRun.baseBefore, bound |-> smRun.bound,
                  prSeen |-> smPr, branchSeen |-> smRun.branchSeen]
    BY <1>2, <1>4, RunExcept DEF GoesOn
  <2>3. /\ smRun'.pc = "seeBranch" /\ smRun'.checks = smRun.checks
        /\ smRun'.baseBefore = smRun.baseBefore /\ smRun'.sha = smRun.sha
        /\ smRun'.tree = smRun.tree /\ smRun'.trigger = smRun.trigger
        /\ smRun'.prSeen = smPr
    BY <2>2
  <2>4. IsSmokeRun(smRun')
    BY <1>2, <2>2 DEF IsSmokeRun
  <2>5. RunInv'
    BY <1>1, <1>2, <2>1, <2>3 DEF SmokeInv, RunInv
  <2> QED
    BY <1>1, <1>2, <1>3, <2>1, <2>4, <2>5, RunStep
<1>5. CASE SmAt("seeBranch") /\ GoesOn([smRun EXCEPT !.pc = "seeBase",
                                   !.branchSeen = smAccess /\ smBranch # "none"])
  <2>1. UNCHANGED <<smArtifacts, smOut, smRuns, smAccess>>
    BY <1>1, <1>5 DEF GoesOn, OthersStay
  <2>2. smRun' = [pc |-> "seeBase", sha |-> smRun.sha, tree |-> smRun.tree,
                  trigger |-> smRun.trigger, checks |-> smRun.checks,
                  baseBefore |-> smRun.baseBefore, bound |-> smRun.bound,
                  prSeen |-> smRun.prSeen, branchSeen |-> (smAccess /\ smBranch # "none")]
    <3>1. PICK y : y = (smAccess /\ smBranch # "none")
      OBVIOUS
    <3>2. smRun' = [smRun EXCEPT !.pc = "seeBase", !.branchSeen = y]
      BY <1>5, <3>1 DEF GoesOn
    <3>3. smRun' = [pc |-> "seeBase", sha |-> smRun.sha, tree |-> smRun.tree,
                    trigger |-> smRun.trigger, checks |-> smRun.checks,
                    baseBefore |-> smRun.baseBefore, bound |-> smRun.bound,
                    prSeen |-> smRun.prSeen, branchSeen |-> y]
      BY <1>2, <3>2, RunExcept
    <3> QED
      BY <3>1, <3>3
  <2>3. /\ smRun'.pc = "seeBase" /\ smRun'.checks = smRun.checks
        /\ smRun'.baseBefore = smRun.baseBefore /\ smRun'.sha = smRun.sha
        /\ smRun'.tree = smRun.tree /\ smRun'.trigger = smRun.trigger
        /\ smRun'.prSeen = smRun.prSeen
        /\ smRun'.branchSeen = (smAccess /\ smBranch # "none")
    BY <2>2
  <2>4. IsSmokeRun(smRun')
    BY <1>2, <2>2 DEF IsSmokeRun
  <2>5. RunInv'
    BY <1>1, <1>2, <1>5, <2>1, <2>3 DEF SmokeInv, RunInv, SmAt
  <2> QED
    BY <1>1, <1>2, <1>3, <2>1, <2>4, <2>5, RunStep
<1> QED
  BY <1>1, <1>2, <1>3, <1>4, <1>5, GivesUpStep DEF SeePr, SeeBranch

\* The last look at the base branch: the evidence says the run has cleaned up
\* only if it saw no branch and no open request through a token that still had
\* access, for the base branch it read at last is the one it started from.
LEMMA SeeBaseStep == SmokeInv /\ SeeBase => SmokeInv'
<1> SUFFICES ASSUME SmokeInv, SeeBase PROVE SmokeInv'
  OBVIOUS
<1> DEFINE baseAfter == IF smAccess THEN smBase ELSE 0
           checks == smRun.checks
               \cup (IF smRun.prSeen = "closed" THEN {"pr_closed"} ELSE {})
               \cup (IF smRun.branchSeen THEN {} ELSE {"branch_deleted"})
               \cup (IF smRun.tree = smRun.sha /\ baseAfter = smRun.baseBefore
                     THEN {"source_repo_unchanged"} ELSE {})
<1>1. /\ smRun.pc = "seeBase" /\ OthersStay /\ UNCHANGED <<smBranch, smPr>>
      /\ \/ CleanChecks \subseteq checks
              /\ WriteEvidence(checks \cup {"goal_evaluation_succeeded"}, "passed")
         \/ WriteEvidence(checks, "failed")
         \/ GivesUp
      /\ smTruth' = [smTruth EXCEPT ![smRuns].left = smBranch # "none" \/ smPr = "open"]
  BY DEF SeeBase, SmAt, CleanChecks
<1>2. smRun # NoRun /\ IsSmokeRun(smRun)
  BY <1>1 DEF NoRun, SmokeInv, SmokeTypeOK
<1>3. smBranch' \in Branches /\ smPr' \in Requests
  BY <1>1 DEF SmokeInv, SmokeTypeOK
<1>4. smRuns \in SmokeIds /\ smTruth \in [SmokeIds -> Truths]
  BY <1>2 DEF SmokeInv, RunInv, SmokeTypeOK
<1>5. /\ OnlyOfThisRun
      /\ smTruth'[smRuns].readBack = smTruth[smRuns].readBack
      /\ smTruth'[smRuns].raced = smTruth[smRuns].raced
      /\ smTruth'[smRuns].left = (smBranch # "none" \/ smPr = "open")
  BY <1>1, <1>4 DEF OnlyOfThisRun, Truths
<1>6. CleanChecks \subseteq checks => smTruth'[smRuns].raced \/ ~smTruth'[smRuns].left
  <2> SUFFICES ASSUME CleanChecks \subseteq checks, ~smTruth'[smRuns].raced
               PROVE  smBranch = "none" /\ smPr # "open"
    BY <1>5
  <2>1. smRun.checks \cap CleanChecks = {}
    BY <1>2 DEF SmokeInv, RunInv
  <2>2. smRun.prSeen = "closed" /\ ~smRun.branchSeen /\ baseAfter = smRun.baseBefore
    BY <2>1 DEF CleanChecks
  <2>3. smAccess
    BY <1>1, <1>2, <2>2 DEF SmokeInv, RunInv
  <2> QED
    BY <1>1, <1>2, <1>5, <2>2, <2>3 DEF SmokeInv, RunInv
<1>7. checks \in SUBSET RequiredChecks
      /\ checks \cup {"goal_evaluation_succeeded"} \in SUBSET RequiredChecks
  BY <1>2 DEF IsSmokeRun, RequiredChecks
<1>8. /\ "read_back_verified" \in checks => smTruth'[smRuns].readBack
      /\ "read_back_verified" \in checks \cup {"goal_evaluation_succeeded"} =>
            smTruth'[smRuns].readBack
  BY <1>2, <1>5 DEF SmokeInv, RunInv
<1>9. CleanChecks \subseteq checks \cup {"goal_evaluation_succeeded"} =>
         CleanChecks \subseteq checks
  BY DEF CleanChecks
<1> HIDE DEF checks
<1>10. CASE WriteEvidence(checks, "failed")
  BY <1>1, <1>2, <1>3, <1>5, <1>6, <1>7, <1>8, <1>10, EvidenceStep
<1>11. CASE WriteEvidence(checks \cup {"goal_evaluation_succeeded"}, "passed")
  <2> DEFINE all == checks \cup {"goal_evaluation_succeeded"}
  <2>1. /\ all \in SUBSET RequiredChecks /\ WriteEvidence(all, "passed")
        /\ CleanChecks \subseteq all => smTruth'[smRuns].raced \/ ~smTruth'[smRuns].left
        /\ "read_back_verified" \in all => smTruth'[smRuns].readBack
    BY <1>6, <1>7, <1>8, <1>9, <1>11
  <2> HIDE DEF all
  <2> QED
    BY <1>1, <1>2, <1>3, <1>5, <2>1, EvidenceStep
<1>12. CASE GivesUp
  BY <1>1, <1>2, <1>3, <1>5, <1>12, GivesUpStep
<1> QED
  BY <1>1, <1>10, <1>11, <1>12

\* The start of a run: nothing is known about it yet, and the branch and the
\* pull request it will work on are new.
LEMMA StartSmokeStep ==
    ASSUME SmokeInv, NEW sha \in 1 .. MaxCommits,
           NEW trigger \in {"local", "workflow_dispatch"}, StartSmoke(sha, trigger)
    PROVE  SmokeInv'
<1> USE SmokeAssumption
<1>1. /\ smRun = NoRun /\ smRuns < MaxSmokeRuns /\ smRuns' = smRuns + 1
      /\ smRun' = [NoRun EXCEPT !.pc = "repository", !.sha = sha, !.tree = smMain,
                                !.trigger = trigger]
      /\ smBranch' = "none" /\ smPr' = "none"
      /\ smTruth' = [smTruth EXCEPT ![smRuns + 1].code = smMain]
      /\ UNCHANGED <<smMain, smBase, smAccess, smArtifacts, smOut, smRelease>>
  BY DEF StartSmoke
<1>2. smRuns + 1 \in SmokeIds /\ smMain \in Nat /\ smTruth \in [SmokeIds -> Truths]
  BY <1>1 DEF SmokeInv, SmokeTypeOK, SmokeIds
<1>3. /\ smTruth' \in [SmokeIds -> Truths] /\ smTruth'[smRuns + 1].code = smMain
      /\ \A r \in SmokeIds \ {smRuns + 1} : smTruth'[r] = smTruth[r]
  BY <1>1, <1>2 DEF Truths
<1>4. smRun' = [pc |-> "repository", sha |-> sha, tree |-> smMain, trigger |-> trigger,
                checks |-> {}, baseBefore |-> 0, bound |-> "none", prSeen |-> "none",
                branchSeen |-> FALSE]
  BY <1>1 DEF NoRun
<1>5. /\ smRun'.pc = "repository" /\ smRun'.tree = smMain /\ smRun'.checks = {}
      /\ IsSmokeRun(smRun')
  <2>1. sha \in Nat /\ trigger \in Triggers
    BY DEF Triggers
  <2> QED
    BY <1>4, <2>1 DEF IsSmokeRun
<1>6. smArtifacts[smRuns + 1] = NoEvidence
  BY <1>2 DEF SmokeInv, ArtifactOf, SmokeTypeOK
<1>7. SmokeTypeOK'
  BY <1>1, <1>3, <1>5 DEF SmokeInv, SmokeTypeOK, Branches, Requests
<1>8. RunInv'
  <2>1. smRuns' \in SmokeIds /\ smArtifacts'[smRuns'] = NoEvidence
        /\ smTruth'[smRuns'].code = smMain
    BY <1>1, <1>2, <1>3, <1>6
  <2> QED
    BY <1>1, <1>5, <2>1 DEF RunInv
<1>9. \A r \in SmokeIds : ArtifactOf(r)'
  <2> TAKE r \in SmokeIds
  <2>1. CASE r = smRuns + 1
    BY <1>1, <1>6, <2>1 DEF ArtifactOf, NoEvidence
  <2>2. CASE r # smRuns + 1
    <3>1. smTruth'[r] = smTruth[r] /\ smArtifacts'[r] = smArtifacts[r] /\ ArtifactOf(r)
      BY <1>1, <1>3, <2>2 DEF SmokeInv
    <3>2. r <= smRuns => r <= smRuns'
      BY <1>1 DEF SmokeInv, SmokeTypeOK, SmokeIds
    <3> QED
      BY <3>1, <3>2 DEF ArtifactOf
  <2> QED
    BY <2>1, <2>2
<1>10. ReleaseInv'
  <2>1. smRelease # NoRelease => smRelease.run # smRuns + 1
    BY <1>6 DEF SmokeInv, ReleaseInv, NoEvidence
  <2> QED
    BY <1>1, <1>3, <2>1 DEF SmokeInv, ReleaseInv
<1> QED
  BY <1>7, <1>8, <1>9, <1>10 DEF SmokeInv

\* Everybody else while a run is under way: a change of the branch or of the pull
\* request after the run has looked is a race.
LEMMA StrangerStep == SmokeInv /\ Stranger => SmokeInv'
<1> SUFFICES ASSUME SmokeInv, Stranger PROVE SmokeInv'
  OBVIOUS
<1> DEFINE raced == \/ smTruth[smRuns].raced
                    \/ (smPr' # smPr /\ smRun.pc \in {"seeBranch", "seeBase"})
                    \/ (smBranch' # smBranch /\ smRun.pc = "seeBase")
<1>1. /\ smRun # NoRun
      /\ smTruth' = [smTruth EXCEPT ![smRuns].raced = raced]
      /\ UNCHANGED <<smMain, smRun, smRuns, smArtifacts, smOut, smRelease>>
  BY DEF Stranger
<1>2. /\ smBase' = smBase \/ smBase' = smBase + 1
      /\ smAccess' = smAccess \/ smAccess' = FALSE
      /\ smBranch' \in {smBranch, "none", "theirs"} /\ smPr' \in {smPr, "open", "closed"}
  BY Zenon DEF Stranger
<1>3. smRuns \in SmokeIds /\ smTruth \in [SmokeIds -> Truths]
  BY <1>1 DEF SmokeInv, RunInv, SmokeTypeOK
<1>4. raced \in BOOLEAN
  BY <1>3 DEF Truths
<1>5. /\ OnlyOfThisRun /\ smTruth'[smRuns].raced = raced
      /\ smTruth'[smRuns].readBack = smTruth[smRuns].readBack
  <2> HIDE DEF raced
  <2> QED
    BY <1>1, <1>3, <1>4 DEF OnlyOfThisRun, Truths
<1>6. SmokeTypeOK'
  <2>1. smBase' \in Nat \ {0}
    BY <1>2 DEF SmokeInv, SmokeTypeOK
  <2>2. smAccess' \in BOOLEAN
    BY <1>2, Zenon DEF SmokeInv, SmokeTypeOK
  <2>3. smBranch' \in Branches /\ smPr' \in Requests
    BY <1>2 DEF SmokeInv, SmokeTypeOK, Branches, Requests
  <2> QED
    BY <1>1, <1>5, <2>1, <2>2, <2>3 DEF SmokeInv, SmokeTypeOK, OnlyOfThisRun
<1>7. RunInv'
  <2>1. smTruth'[smRuns].code = smTruth[smRuns].code
    BY <1>5 DEF OnlyOfThisRun
  <2>2. ~smAccess => ~smAccess'
    BY <1>2
  <2> QED
    BY <1>1, <1>5, <2>1, <2>2 DEF SmokeInv, RunInv
<1> QED
  BY <1>1, <1>5, <1>6, <1>7, GoesOnStep

\* Another commit checked out under a run started by hand: the evidence of such
\* a run is not accepted, and the run itself notices.
LEMMA CheckOutStep == SmokeInv /\ CheckOut => SmokeInv'
<1> SUFFICES ASSUME SmokeInv, CheckOut PROVE SmokeInv'
  OBVIOUS
<1>1. /\ smRun.trigger = "local" /\ smRun' = [smRun EXCEPT !.tree = smMain]
      /\ UNCHANGED <<smMain, smRuns, smArtifacts, smOut, smRelease, smTruth>>
      /\ UNCHANGED <<smBase, smAccess, smBranch, smPr>>
  BY DEF CheckOut, smRepo
<1>2. smRun # NoRun /\ IsSmokeRun(smRun)
  BY <1>1 DEF NoRun, SmokeInv, SmokeTypeOK
<1>3. smRun' = [pc |-> smRun.pc, sha |-> smRun.sha, tree |-> smMain,
                trigger |-> smRun.trigger, checks |-> smRun.checks,
                baseBefore |-> smRun.baseBefore, bound |-> smRun.bound,
                prSeen |-> smRun.prSeen, branchSeen |-> smRun.branchSeen]
  BY <1>1, <1>2, RunExcept
<1>4. /\ smRun'.pc = smRun.pc /\ smRun'.checks = smRun.checks
      /\ smRun'.baseBefore = smRun.baseBefore /\ smRun'.trigger = smRun.trigger
      /\ smRun'.prSeen = smRun.prSeen /\ smRun'.branchSeen = smRun.branchSeen
  BY <1>3
<1>5. IsSmokeRun(smRun')
  BY <1>2, <1>3 DEF IsSmokeRun
<1>6. SmokeTypeOK' /\ OnlyOfThisRun
  BY <1>1, <1>5 DEF SmokeInv, SmokeTypeOK, OnlyOfThisRun
<1>7. RunInv'
  BY <1>1, <1>2, <1>4 DEF SmokeInv, RunInv
<1> QED
  BY <1>1, <1>2, <1>6, <1>7, GoesOnStep

\* A cancelled run, a commit to Leos, the download of evidence and the readiness
\* check: none of them changes what is known about a run.
LEMMA ReleaseStep ==
    ASSUME SmokeInv,
           Killed \/ CommitLeos \/ CheckReadiness \/ \E r \in SmokeIds : DownloadEvidence(r)
    PROVE  SmokeInv'
<1>1. CASE Killed
  <2>1. smRun' = NoRun /\ UNCHANGED <<smMain, smBase, smAccess, smBranch, smPr, smRuns,
                                      smArtifacts, smOut, smRelease, smTruth>>
    BY <1>1 DEF Killed, OthersStay
  <2> QED
    BY <2>1, NoRunTyped DEF SmokeInv, SmokeTypeOK, RunInv, ReleaseInv, ArtifactOf
<1>2. CASE CommitLeos
  <2>1. smMain' = smMain + 1 /\ UNCHANGED <<smBase, smAccess, smBranch, smPr, smRun, smRuns,
                                            smArtifacts, smOut, smRelease, smTruth>>
    BY <1>2 DEF CommitLeos, smRepo
  <2> QED
    BY <2>1 DEF SmokeInv, SmokeTypeOK, RunInv, ReleaseInv, ArtifactOf
<1>3. ASSUME NEW r \in SmokeIds, DownloadEvidence(r) PROVE SmokeInv'
  <2>1. /\ smArtifacts[r].status = "passed" /\ smOut' = smArtifacts[r]
        /\ UNCHANGED <<smMain, smBase, smAccess, smBranch, smPr, smRun, smRuns,
                       smArtifacts, smRelease, smTruth>>
    BY <1>3 DEF DownloadEvidence, smRepo
  <2>2. smArtifacts[r] # NoEvidence
    BY <2>1 DEF NoEvidence
  <2>3. smOut'.run = r /\ smOut' \in Evidences
    BY <2>1, <2>2 DEF SmokeInv, ArtifactOf, SmokeTypeOK
  <2> QED
    BY <2>1, <2>3 DEF SmokeInv, SmokeTypeOK, RunInv, ReleaseInv, ArtifactOf
<1>4. CASE CheckReadiness
  <2>1. /\ AcceptsEvidence(smOut, smMain)
        /\ smRelease' = [commit |-> smMain, run |-> smOut.run]
        /\ UNCHANGED <<smMain, smBase, smAccess, smBranch, smPr, smRun, smRuns,
                       smArtifacts, smOut, smTruth>>
    BY <1>4 DEF CheckReadiness, smRepo
  <2>2. smOut # NoEvidence
    BY <2>1 DEF AcceptsEvidence, NoEvidence
  <2>3. smOut.run \in SmokeIds /\ smArtifacts[smOut.run] = smOut
    BY <2>2 DEF SmokeInv, ReleaseInv
  <2>4. smTruth[smOut.run].code = smMain /\ "read_back_verified" \in smOut.checks
    BY <2>1, <2>3 DEF AcceptsEvidence, SmokeInv, ArtifactOf, RequiredChecks
  <2>5. ReleaseInv'
    BY <2>1, <2>3, <2>4 DEF AcceptsEvidence, SmokeInv, ReleaseInv
  <2>6. SmokeTypeOK'
    BY <2>1 DEF SmokeInv, SmokeTypeOK, Evidences
  <2> QED
    BY <2>1, <2>5, <2>6 DEF SmokeInv, RunInv, ArtifactOf
<1> QED
  BY <1>1, <1>2, <1>3, <1>4

\* The invariant of the production smoke.
THEOREM SmokeInvariance == SmokeSpec => []SmokeInv
<1>1. SmokeInit => SmokeInv
  <2> SUFFICES ASSUME SmokeInit PROVE SmokeInv
    OBVIOUS
  <2>1. NoEvidence \in Evidences
    BY DEF NoEvidence, Evidences, Triggers, Results
  <2>2. NoTruth \in Truths
    <3>1. PICK no \in BOOLEAN : no = FALSE
      BY Zenon
    <3>2. NoTruth = [code |-> 0, readBack |-> no, left |-> no, raced |-> no]
      BY <3>1 DEF NoTruth
    <3> QED
      BY <3>2 DEF Truths
  <2>3. smAccess \in BOOLEAN
    BY Zenon DEF SmokeInit
  <2>4. SmokeTypeOK
    BY <2>1, <2>2, <2>3, NoRunTyped DEF SmokeInit, SmokeTypeOK, NoRelease, Branches, Requests
  <2>5. \A r \in SmokeIds : ArtifactOf(r)
    BY DEF SmokeInit, ArtifactOf, NoEvidence
  <2> QED
    BY <2>4, <2>5 DEF SmokeInit, SmokeInv, RunInv, ReleaseInv
<1>2. SmokeInv /\ [SmokeNext]_smVars => SmokeInv'
  <2>1. SmokeInv /\ UNCHANGED smVars => SmokeInv'
    BY DEF smVars, SmokeInv, SmokeTypeOK, RunInv, ReleaseInv, ArtifactOf
  <2> QED
    BY <2>1, StartSmokeStep, LookFirstStep, MiddleSteps, ReadBackStep, SeeStep, SeeBaseStep,
       ReleaseStep, CheckOutStep, StrangerStep DEF SmokeNext
<1> QED
  BY <1>1, <1>2, PTL DEF SmokeSpec

-----------------------------------------------------------------------------
(* The evidence of the queue smoke.                                         *)

QueueSmokeSpec == QueueSmokeInit /\ [][QueueSmokeNext]_qsVars

QsWho == QsWorkers \cup {"victim", "rescuer", "outsider"}
QsSessions == QsWorkers \cup {"victim", "rescuer", "outsider", "reaper"}

QsRow == [status : {"ABSENT", "QUEUED", "RUNNING", "SUCCEEDED", "TIMED_OUT"},
          key : {IdemKey, QsNull}, maxAttempts : Nat, attempts : Nat,
          lockedBy : QsWho \cup {QsNull}, enqueuedAt : Int,
          leaseExpiresAt : Int \cup {QsNull}, finished : BOOLEAN]
QsClaim == [task : AllTasks \cup {QsNull}, worker : QsWho \cup {QsNull}, ts : Int, at : Int]

QsTypeOK ==
    /\ qsRows \in [AllTasks -> QsRow]
    /\ qsClaiming \in [QsSessions -> QsClaim]
    /\ qsReaping \in [QsSessions -> Int \cup {QsNull}]
    /\ qsNow \in Nat
    /\ qsHistory \in [AllTasks -> Seq(QsWho)]
    /\ qsClaims \in [AllTasks -> Nat]
    /\ qsOutside \in Nat

\* A claim in flight has its row for itself, and the row is still QUEUED.
QsClaimOf(s) ==
    qsClaiming[s].task # QsNull =>
        /\ qsRows[qsClaiming[s].task].status = "QUEUED"
        /\ qsClaiming[s].worker = s
        /\ \A u \in QsSessions \ {s} : qsClaiming[u].task # qsClaiming[s].task

\* The attempts of a row are its claims; a claim a worker has noted is one of
\* them; a task is in the hands of the last one who claimed it.
QsTaskOf(t) ==
    /\ qsRows[t].attempts = Len(qsHistory[t])
    /\ qsClaims[t] > 0 => \E k \in 1 .. Len(qsHistory[t]) : qsHistory[t][k] \in QsWorkers
    /\ qsRows[t].status = "ABSENT" => qsHistory[t] = <<>>
    /\ qsRows[t].status = "RUNNING" =>
          qsHistory[t] # <<>> /\ qsHistory[t][Len(qsHistory[t])] = qsRows[t].lockedBy

QsTableInv ==
    /\ QsTypeOK
    /\ \A s \in QsSessions : QsClaimOf(s)
    /\ \A t \in AllTasks : QsTaskOf(t)

FirstPcs == {"start", "consume", "victim"}
HeldPcs == {"sleep", "reap", "reap2", "rescue", "rescue2", "finish", "key", "key2", "count"}
UnrescuedPcs == FirstPcs \cup {"look", "sleep", "reap", "reap2", "rescue", "rescue2", "finish"}
BulkChecks == {"all_tasks_completed", "exactly_once_execution", "no_double_claim"}
Rescued == "reaped_task_completed_by_other_worker"

\* Who can have claimed the victim's task first: the workers of the first
\* stage are done before it is in the table, the rescuer only comes when it
\* has been claimed, and the outsider counts the tasks he takes.
QsHandsInv ==
    /\ qsHistory[VictimTask] # <<>> =>
          /\ qsHistory[VictimTask][1] \in {"victim", "outsider"}
          /\ qsHistory[VictimTask][1] = "outsider" => qsOutside > 0
    /\ qsClaiming["outsider"].task # QsNull => qsOutside > 0
    /\ qsClaiming["rescuer"].task # QsNull => qsHistory[VictimTask] # <<>>
    /\ \A w \in QsWorkers : qsClaiming[w].task # QsNull =>
          qsWorker[w].pc = "claiming" /\ qsRows[VictimTask].status = "ABSENT"
    /\ qsPc \in FirstPcs => qsRows[VictimTask].status = "ABSENT"
    /\ qsPc = "victim" => \A w \in QsWorkers : qsClaiming[w].task = QsNull

\* What the table holds when run_smoke is at pc with these checks made.
QsStage(pc, checks) ==
    /\ pc = "start" => \A t \in AllTasks : qsRows[t].status = "ABSENT"
    /\ pc \in HeldPcs => qsHistory[VictimTask] # <<>>
    /\ Rescued \in checks =>
          /\ qsRows[VictimTask].status = "SUCCEEDED"
          /\ qsHistory[VictimTask] = <<qsHistory[VictimTask][1], "rescuer">>
    /\ BulkChecks \subseteq checks => \A t \in BulkTasks :
          /\ qsRows[t].status = "SUCCEEDED"
          /\ \E w \in QsWorkers : qsHistory[t] = <<w>>

\* Where run_smoke is, and what its evidence and the release say.
QsControlInv ==
    /\ qsEvidence = [commit |-> qsEvidence.commit, status |-> qsEvidence.status,
                     checks |-> qsEvidence.checks]
    /\ qsPc = "start" => qsReleased = 0
    /\ qsPc = "consume" => qsEvidence.checks = {"postgres_available"}
    /\ qsPc \in UnrescuedPcs => Rescued \notin qsEvidence.checks
    /\ qsReleased # 0 =>
          /\ qsPc = "over" /\ qsReleased = qsEvidence.commit
          /\ RequiredQueueChecks \subseteq qsEvidence.checks

QsWorkerInv ==
    /\ qsWorker \in [QsWorkers -> [pc : {"idle", "claiming", "working", "reported", "killed"},
                                   task : AllTasks \cup {QsNull}, polls : Nat]]
    /\ \A w \in QsWorkers : qsWorker[w].pc = "working" => qsWorker[w].task \in AllTasks

QsInv == /\ QsTableInv /\ QsHandsInv /\ QsStage(qsPc, qsEvidence.checks)
         /\ QsControlInv /\ QsWorkerInv

-----------------------------------------------------------------------------
\* What a statement may do to a row: claim it, end it, or put it into the queue.
QsRowStep(t) ==
    \/ qsRows'[t] = qsRows[t] /\ qsHistory'[t] = qsHistory[t]
    \/ /\ qsRows[t].status = "QUEUED" /\ qsRows'[t].status = "RUNNING"
       /\ qsRows'[t].lockedBy \in QsWho
       /\ qsHistory'[t] = Append(qsHistory[t], qsRows'[t].lockedBy)
    \/ /\ qsRows[t].status = "RUNNING"
       /\ qsRows'[t].status \in {"QUEUED", "SUCCEEDED", "TIMED_OUT"}
       /\ qsHistory'[t] = qsHistory[t]
    \/ /\ qsRows[t].status = "ABSENT" /\ qsRows'[t].status = "QUEUED"
       /\ qsHistory'[t] = qsHistory[t]

\* No row enters the table.
QsKeeps == \A t \in AllTasks : qsRows[t].status = "ABSENT" => qsRows'[t].status = "ABSENT"

\* Nobody but s has another claim in flight than before.
QsClaimsOf(s) == \A v \in QsSessions \ {s} : qsClaiming'[v] = qsClaiming[v]

\* The first entry of a history stays.
LEMMA AppendOne ==
    ASSUME NEW h \in Seq(QsWho), NEW x \in QsWho
    PROVE  /\ Append(h, x) # <<>>
           /\ h = <<>> => Append(h, x)[1] = x
           /\ h # <<>> => Append(h, x)[1] = h[1]
<1>1. /\ Append(h, x) \in Seq(QsWho) /\ Len(Append(h, x)) = Len(h) + 1
      /\ \A k \in 1 .. Len(h) : Append(h, x)[k] = h[k]
      /\ Append(h, x)[Len(h) + 1] = x /\ Len(h) \in Nat
  BY AppendProperties
<1>2. h # <<>> => Len(h) >= 1
  BY EmptySeq
<1>3. Len(<<>>) = 0
  OBVIOUS
<1>4. Append(h, x) # <<>>
  BY <1>1, <1>3
<1>5. h = <<>> => Append(h, x)[1] = x
  BY <1>1, <1>3
<1> QED
  BY <1>1, <1>2, <1>4, <1>5

\* No step of a row changes what the table holds at this stage.
LEMMA StageStep ==
    ASSUME QsTypeOK, NEW pc, NEW checks, QsStage(pc, checks),
           \A t \in AllTasks : QsRowStep(t),
           pc = "start" => QsKeeps
    PROVE  QsStage(pc, checks)'
<1>1. VictimTask \in AllTasks /\ \A t \in BulkTasks : t \in AllTasks
  BY DEF AllTasks
<1>2. \A t \in AllTasks : qsRows[t].status = "SUCCEEDED" =>
         qsRows'[t].status = "SUCCEEDED" /\ qsHistory'[t] = qsHistory[t]
  BY DEF QsRowStep
<1>3. pc = "start" => \A t \in AllTasks : qsRows'[t].status = "ABSENT"
  BY DEF QsStage, QsKeeps
<1>4. pc \in HeldPcs => qsHistory'[VictimTask] # <<>>
  <2> SUFFICES ASSUME pc \in HeldPcs PROVE qsHistory'[VictimTask] # <<>>
    OBVIOUS
  <2>1. qsHistory[VictimTask] # <<>> /\ qsHistory[VictimTask] \in Seq(QsWho)
    BY <1>1 DEF QsStage, QsTypeOK
  <2>2. CASE qsHistory'[VictimTask] = qsHistory[VictimTask]
    BY <2>1, <2>2
  <2>3. CASE /\ qsRows'[VictimTask].lockedBy \in QsWho
             /\ qsHistory'[VictimTask] = Append(qsHistory[VictimTask], qsRows'[VictimTask].lockedBy)
    BY <2>1, <2>3, AppendOne
  <2> QED
    BY <1>1, <2>2, <2>3 DEF QsRowStep
<1>5. Rescued \in checks =>
        /\ qsRows'[VictimTask].status = "SUCCEEDED"
        /\ qsHistory'[VictimTask] = <<qsHistory'[VictimTask][1], "rescuer">>
  BY <1>1, <1>2 DEF QsStage
<1>6. BulkChecks \subseteq checks => \A t \in BulkTasks :
        /\ qsRows'[t].status = "SUCCEEDED"
        /\ \E w \in QsWorkers : qsHistory'[t] = <<w>>
  BY <1>1, <1>2 DEF QsStage
<1> QED
  BY <1>3, <1>4, <1>5, <1>6 DEF QsStage

\* Who has claimed the victim's task first, after a step that does not put it
\* into the table.
LEMMA HandsStep ==
    ASSUME QsInv, qsOutside' \in Nat, qsOutside' >= qsOutside, QsKeeps,
           \/ qsHistory'[VictimTask] = qsHistory[VictimTask]
           \/ \E x \in QsWho :
                /\ qsHistory'[VictimTask] = Append(qsHistory[VictimTask], x)
                /\ \/ x = "victim"
                   \/ x = "outsider" /\ qsOutside' > 0
                   \/ qsHistory[VictimTask] # <<>>,
           \A s \in QsSessions : qsClaiming'[s].task # QsNull =>
              \/ qsClaiming[s].task # QsNull
              \/ s = "victim"
              \/ s = "outsider" /\ qsOutside' > 0
              \/ s = "rescuer" /\ qsHistory[VictimTask] # <<>>
              \/ s \in QsWorkers /\ qsPc = "consume",
           \A w \in QsWorkers : qsClaiming'[w].task # QsNull =>
              \/ qsClaiming[w].task # QsNull /\ qsWorker'[w] = qsWorker[w]
              \/ qsWorker'[w].pc = "claiming",
           qsPc' \in FirstPcs => qsPc \in FirstPcs,
           qsPc' = "victim" => qsPc = "victim" \/ \A w \in QsWorkers : qsClaiming'[w].task = QsNull
    PROVE  QsHandsInv'
<1> USE QueueSmokeAssumption
<1>1. /\ QsHandsInv /\ VictimTask \in AllTasks /\ qsHistory[VictimTask] \in Seq(QsWho)
      /\ qsOutside \in Nat /\ "outsider" \in QsSessions /\ "rescuer" \in QsSessions
      /\ \A w \in QsWorkers : w \in QsSessions /\ w \notin {"victim", "rescuer", "outsider"}
  BY DEF QsInv, QsTableInv, QsTypeOK, AllTasks, QsSessions
<1>2. /\ qsHistory[VictimTask] # <<>> => qsHistory'[VictimTask] # <<>>
      /\ qsHistory'[VictimTask] # <<>> =>
           /\ qsHistory'[VictimTask][1] \in {"victim", "outsider"}
           /\ qsHistory'[VictimTask][1] = "outsider" => qsOutside' > 0
  <2>1. /\ qsHistory[VictimTask] # <<>> =>
             /\ qsHistory[VictimTask][1] \in {"victim", "outsider"}
             /\ qsHistory[VictimTask][1] = "outsider" => qsOutside > 0
        /\ qsOutside > 0 => qsOutside' > 0
    BY <1>1 DEF QsHandsInv
  <2>2. CASE qsHistory'[VictimTask] = qsHistory[VictimTask]
    BY <2>1, <2>2
  <2>3. CASE \E x \in QsWho :
               /\ qsHistory'[VictimTask] = Append(qsHistory[VictimTask], x)
               /\ \/ x = "victim"
                  \/ x = "outsider" /\ qsOutside' > 0
                  \/ qsHistory[VictimTask] # <<>>
    <3>1. PICK x \in QsWho :
               /\ qsHistory'[VictimTask] = Append(qsHistory[VictimTask], x)
               /\ \/ x = "victim"
                  \/ x = "outsider" /\ qsOutside' > 0
                  \/ qsHistory[VictimTask] # <<>>
      BY <2>3
    <3>2. /\ qsHistory'[VictimTask] # <<>>
          /\ qsHistory[VictimTask] = <<>> => qsHistory'[VictimTask][1] = x
          /\ qsHistory[VictimTask] # <<>> =>
               qsHistory'[VictimTask][1] = qsHistory[VictimTask][1]
      BY <1>1, <3>1, AppendOne
    <3>3. CASE qsHistory[VictimTask] = <<>>
      BY <3>1, <3>2, <3>3
    <3>4. CASE qsHistory[VictimTask] # <<>>
      BY <2>1, <3>2, <3>4
    <3> QED
      BY <3>3, <3>4
  <2> QED
    BY <2>2, <2>3
<1>3. qsClaiming'["outsider"].task # QsNull => qsOutside' > 0
  <2>1. qsClaiming["outsider"].task # QsNull => qsOutside > 0
    BY <1>1 DEF QsHandsInv
  <2> QED
    BY <1>1, <2>1
<1>4. qsClaiming'["rescuer"].task # QsNull => qsHistory'[VictimTask] # <<>>
  <2>1. qsClaiming["rescuer"].task # QsNull => qsHistory[VictimTask] # <<>>
    BY <1>1 DEF QsHandsInv
  <2> QED
    BY <1>1, <1>2, <2>1
<1>5. \A w \in QsWorkers : qsClaiming'[w].task # QsNull =>
         \/ qsClaiming[w].task # QsNull
         \/ qsPc = "consume"
  BY <1>1
<1>6. qsPc \in FirstPcs => qsRows'[VictimTask].status = "ABSENT"
  BY <1>1 DEF QsHandsInv, QsKeeps
<1>7. \A w \in QsWorkers : qsClaiming'[w].task # QsNull =>
         qsWorker'[w].pc = "claiming" /\ qsRows'[VictimTask].status = "ABSENT"
  <2>1. \A w \in QsWorkers : qsClaiming[w].task # QsNull =>
          qsWorker[w].pc = "claiming" /\ qsRows'[VictimTask].status = "ABSENT"
    BY <1>1 DEF QsHandsInv, QsKeeps
  <2> QED
    BY <1>5, <1>6, <2>1 DEF FirstPcs
<1>8. qsPc' = "victim" => \A w \in QsWorkers : qsClaiming'[w].task = QsNull
  BY <1>1, <1>5 DEF QsHandsInv
<1> QED
  BY <1>2, <1>3, <1>4, <1>6, <1>7, <1>8 DEF QsHandsInv

\* claim, at its commit, of session s with this lease.
LEMMA ClaimCommits ==
    ASSUME QsTableInv, NEW s \in QsWho, NEW lease \in Nat,
           Queue(lease)!claim(s), Noted(qsClaiming[s].task, s),
           \/ UNCHANGED qsClaims
           \/ /\ s \in QsWorkers
              /\ qsClaims' = [qsClaims EXCEPT ![qsClaiming[s].task] = @ + 1],
           qsOutside' \in Nat
    PROVE  /\ QsTableInv' /\ QsKeeps
           /\ qsClaiming[s].task \in AllTasks /\ qsClaiming[s].task # QsNull
           /\ qsRows[qsClaiming[s].task].status = "QUEUED"
           /\ qsHistory'[qsClaiming[s].task] = Append(qsHistory[qsClaiming[s].task], s)
           /\ \A t \in AllTasks \ {qsClaiming[s].task} : qsHistory'[t] = qsHistory[t]
           /\ qsClaiming'[s].task = QsNull /\ QsClaimsOf(s)
           /\ \A t \in AllTasks : QsRowStep(t)
<1> USE QueueSmokeAssumption
<1> DEFINE u == qsClaiming[s].task
           row == [qsRows[u] EXCEPT !.status = "RUNNING", !.lockedBy = qsClaiming[s].worker,
                                    !.attempts = @ + 1,
                                    !.leaseExpiresAt = qsClaiming[s].ts + lease]
<1>1. /\ u # QsNull /\ qsRows' = [qsRows EXCEPT ![u] = row]
      /\ qsClaiming' = [qsClaiming EXCEPT ![s] = [task |-> QsNull, worker |-> QsNull,
                                                  ts |-> 0, at |-> 0]]
      /\ UNCHANGED <<qsReaping, qsNow>>
  BY DEF Queue!claim, Queue!NoClaim
<1>2. s \in QsSessions /\ QsTypeOK
  BY DEF QsTableInv, QsWho, QsSessions
<1>3. /\ u \in AllTasks /\ qsRows[u] \in QsRow /\ qsClaiming[s].ts \in Int
      /\ qsRows[u].status = "QUEUED" /\ qsClaiming[s].worker = s
  BY <1>1, <1>2 DEF QsTableInv, QsTypeOK, QsClaim, QsClaimOf
<1>4. /\ row \in QsRow /\ row.status = "RUNNING" /\ row.lockedBy = s
      /\ row.attempts = qsRows[u].attempts + 1 /\ row.leaseExpiresAt = qsClaiming[s].ts + lease
  <2> DEFINE n == qsRows[u].attempts + 1
             x == qsClaiming[s].ts + lease
  <2>1. n \in Nat /\ x \in Int
    BY <1>3 DEF QsRow
  <2>2. row = [qsRows[u] EXCEPT !.status = "RUNNING", !.lockedBy = s, !.attempts = n,
                                !.leaseExpiresAt = x]
    BY <1>3
  <2> HIDE DEF n, x, row, u
  <2>3. /\ row \in QsRow /\ row.status = "RUNNING" /\ row.lockedBy = s
        /\ row.attempts = n /\ row.leaseExpiresAt = x
    BY <1>3, <2>1, <2>2 DEF QsRow
  <2> QED
    BY <2>3 DEF n, x, u
<1> HIDE DEF row, u
<1>5. /\ qsRows' \in [AllTasks -> QsRow] /\ qsRows'[u] = row
      /\ \A t \in AllTasks \ {u} : qsRows'[t] = qsRows[t]
  BY <1>1, <1>2, <1>3, <1>4 DEF QsTypeOK
<1>6. /\ qsHistory' \in [AllTasks -> Seq(QsWho)] /\ qsHistory'[u] = Append(qsHistory[u], s)
      /\ \A t \in AllTasks \ {u} : qsHistory'[t] = qsHistory[t]
  BY <1>2, <1>3 DEF QsTypeOK, Noted, u
<1>7. qsClaims' \in [AllTasks -> Nat] /\ \A t \in AllTasks :
         \/ qsClaims'[t] = qsClaims[t]
         \/ t = u /\ s \in QsWorkers
  BY <1>2, <1>3 DEF QsTypeOK, u
<1>8. /\ qsClaiming' \in [QsSessions -> QsClaim] /\ qsClaiming'[s].task = QsNull
      /\ \A v \in QsSessions \ {s} : qsClaiming'[v] = qsClaiming[v]
  BY <1>1, <1>2 DEF QsTypeOK, QsClaim
<1>9. QsTypeOK'
  BY <1>1, <1>2, <1>5, <1>6, <1>7, <1>8 DEF QsTypeOK
<1>10. \A v \in QsSessions : QsClaimOf(v)'
  <2> SUFFICES ASSUME NEW v \in QsSessions, qsClaiming'[v].task # QsNull
               PROVE  /\ qsRows'[qsClaiming'[v].task].status = "QUEUED"
                      /\ qsClaiming'[v].worker = v
                      /\ \A x \in QsSessions \ {v} :
                            qsClaiming'[x].task # qsClaiming'[v].task
    BY DEF QsClaimOf
  <2>1. v # s /\ qsClaiming'[v] = qsClaiming[v]
    BY <1>8
  <2>2. QsClaimOf(v) /\ qsClaiming[v].task # QsNull /\ qsClaiming[v].task # u
    BY <1>2, <1>1, <2>1 DEF QsTableInv, QsClaimOf, u
  <2>3. qsClaiming[v].task \in AllTasks
    BY <1>2, <2>2 DEF QsTypeOK, QsClaim
  <2>4. qsRows'[qsClaiming[v].task] = qsRows[qsClaiming[v].task]
    BY <1>5, <2>2, <2>3
  <2> QED
    BY <1>8, <2>1, <2>2, <2>4 DEF QsClaimOf
<1>11. \A t \in AllTasks : QsTaskOf(t)'
  <2> TAKE t \in AllTasks
  <2>1. QsTaskOf(t) /\ qsHistory[t] \in Seq(QsWho)
    BY <1>2 DEF QsTableInv, QsTypeOK
  <2>2. CASE t # u
    <3>1. /\ qsRows'[t] = qsRows[t] /\ qsHistory'[t] = qsHistory[t]
          /\ qsClaims'[t] = qsClaims[t]
      BY <1>5, <1>6, <1>7, <2>2
    <3> QED
      BY <2>1, <3>1 DEF QsTaskOf
  <2>3. CASE t = u
    <3>1. /\ Len(qsHistory'[t]) = Len(qsHistory[t]) + 1
          /\ qsHistory'[t][Len(qsHistory[t]) + 1] = s
          /\ \A k \in 1 .. Len(qsHistory[t]) : qsHistory'[t][k] = qsHistory[t][k]
          /\ Len(qsHistory[t]) \in Nat
      <4>1. qsHistory'[t] = Append(qsHistory[t], s)
        BY <1>6, <2>3
      <4> QED
        BY <2>1, <4>1, AppendProperties
    <3>2. qsRows'[t].attempts = Len(qsHistory'[t])
      BY <1>4, <1>5, <2>1, <2>3, <3>1 DEF QsTaskOf
    <3>3. qsClaims'[t] > 0 =>
            \E k \in 1 .. Len(qsHistory'[t]) : qsHistory'[t][k] \in QsWorkers
      <4>1. CASE s \in QsWorkers
        BY <3>1, <4>1
      <4>2. CASE qsClaims'[t] = qsClaims[t]
        <5>1. qsClaims[t] > 0 =>
                \E k \in 1 .. Len(qsHistory[t]) : qsHistory[t][k] \in QsWorkers
          BY <2>1 DEF QsTaskOf
        <5>2. \A k \in 1 .. Len(qsHistory[t]) :
                k \in 1 .. Len(qsHistory'[t]) /\ qsHistory'[t][k] = qsHistory[t][k]
          BY <3>1
        <5> QED
          BY <4>2, <5>1, <5>2
      <4> QED
        BY <1>7, <4>1, <4>2
    <3>4. qsHistory'[t] # <<>> /\ qsHistory'[t][Len(qsHistory'[t])] = qsRows'[t].lockedBy
      <4>1. Append(qsHistory[t], s) # <<>>
        BY <2>1, AppendOne
      <4> QED
        BY <1>4, <1>5, <1>6, <2>3, <3>1, <4>1
    <3>5. qsRows'[t].status = "RUNNING"
      BY <1>4, <1>5, <2>3
    <3> QED
      BY <3>2, <3>3, <3>4, <3>5 DEF QsTaskOf
  <2> QED
    BY <2>2, <2>3
<1>12. (\A t \in AllTasks : QsRowStep(t)) /\ QsKeeps
  BY <1>3, <1>4, <1>5, <1>6 DEF QsRowStep, QsKeeps
<1> QED
  BY <1>1, <1>3, <1>6, <1>8, <1>9, <1>10, <1>11, <1>12 DEF QsTableInv, QsClaimsOf, u

\* The sub-select of claim takes a row that is QUEUED and that nobody else has
\* taken.
LEMMA ClaimSelects ==
    ASSUME QsTableInv, NEW s \in QsWho, NEW lease, Queue(lease)!ClaimSelect(s, s),
           UNCHANGED <<qsHistory, qsClaims>>, qsOutside' \in Nat
    PROVE  QsTableInv' /\ UNCHANGED qsRows /\ QsClaimsOf(s)
<1>1. PICK t \in AllTasks, ts \in Queue(lease)!Clock :
         /\ qsRows[t].status = "QUEUED" /\ Queue(lease)!Unlocked(t)
         /\ qsClaiming' = [qsClaiming EXCEPT ![s] =
                             [task |-> t, worker |-> s, ts |-> ts, at |-> qsNow]]
  BY DEF Queue!ClaimSelect
<1>2. UNCHANGED <<qsRows, qsReaping, qsNow>> /\ s \in QsSessions /\ QsTypeOK
  BY DEF Queue!ClaimSelect, QsTableInv, QsWho, QsSessions
<1>3. ts \in Int /\ qsNow \in Int
  BY <1>2 DEF Queue!Clock, QsTypeOK
<1>4. \A v \in QsSessions : qsClaiming[v].task # t
  BY <1>1 DEF Queue!Unlocked, QsSessions
<1>5. /\ qsClaiming' \in [QsSessions -> QsClaim]
      /\ qsClaiming'[s].task = t /\ qsClaiming'[s].worker = s /\ qsClaiming'[s].ts = ts
      /\ \A v \in QsSessions \ {s} : qsClaiming'[v] = qsClaiming[v]
  BY <1>1, <1>2, <1>3 DEF QsTypeOK, QsClaim
<1>6. QsTypeOK'
  BY <1>2, <1>5 DEF QsTypeOK
<1>7. \A v \in QsSessions : QsClaimOf(v)'
  <2> SUFFICES ASSUME NEW v \in QsSessions PROVE QsClaimOf(v)'
    OBVIOUS
  <2>1. QsClaimOf(v)
    BY DEF QsTableInv
  <2>2. CASE v = s
    BY <1>1, <1>2, <1>3, <1>4, <1>5, <2>2 DEF QsClaimOf
  <2>3. CASE v # s
    BY <1>2, <1>4, <1>5, <2>1, <2>3 DEF QsClaimOf
  <2> QED
    BY <2>2, <2>3
<1>8. \A v \in AllTasks : QsTaskOf(v)'
  BY <1>2 DEF QsTableInv, QsTaskOf
<1> QED
  BY <1>2, <1>5, <1>6, <1>7, <1>8 DEF QsTableInv, QsClaimsOf

\* A lost connection lets go of the row.
LEMMA Disconnects ==
    ASSUME QsTableInv, NEW s \in QsWho, NEW lease, Queue(lease)!Disconnect(s),
           UNCHANGED <<qsHistory, qsClaims>>, qsOutside' \in Nat
    PROVE  QsTableInv' /\ UNCHANGED qsRows /\ qsClaiming'[s].task = QsNull /\ QsClaimsOf(s)
<1>1. /\ qsClaiming' = [qsClaiming EXCEPT ![s] = [task |-> QsNull, worker |-> QsNull,
                                                  ts |-> 0, at |-> 0]]
      /\ qsReaping' = [qsReaping EXCEPT ![s] = QsNull]
      /\ UNCHANGED <<qsRows, qsNow>>
  BY DEF Queue!Disconnect, Queue!NoClaim
<1>2. s \in QsSessions /\ QsTypeOK
  BY DEF QsTableInv, QsWho, QsSessions
<1>3. /\ qsClaiming' \in [QsSessions -> QsClaim] /\ qsClaiming'[s].task = QsNull
      /\ \A v \in QsSessions \ {s} : qsClaiming'[v] = qsClaiming[v]
  BY <1>1, <1>2 DEF QsTypeOK, QsClaim
<1>4. QsTypeOK'
  BY <1>1, <1>2, <1>3 DEF QsTypeOK
<1>5. \A v \in QsSessions : QsClaimOf(v)'
  BY <1>1, <1>2, <1>3 DEF QsTableInv, QsClaimOf
<1>6. \A v \in AllTasks : QsTaskOf(v)'
  BY <1>1 DEF QsTableInv, QsTaskOf
<1> QED
  BY <1>1, <1>3, <1>4, <1>5, <1>6 DEF QsTableInv, QsClaimsOf

\* A statement that writes rows no claim has taken and that counts no attempt.
LEMMA RowsWritten ==
    ASSUME QsTableInv, qsRows' \in [AllTasks -> QsRow],
           UNCHANGED <<qsClaiming, qsNow, qsHistory, qsClaims>>, qsOutside' \in Nat,
           qsReaping' \in [QsSessions -> Int \cup {QsNull}],
           \A t \in AllTasks :
              /\ qsRows'[t].attempts = qsRows[t].attempts
              /\ qsRows[t].status = "QUEUED" => qsRows'[t] = qsRows[t]
              /\ qsRows'[t] = qsRows[t] \/ qsRows'[t].status \notin {"RUNNING", "ABSENT"}
    PROVE  QsTableInv'
<1>1. QsTypeOK'
  BY DEF QsTableInv, QsTypeOK
<1>2. \A s \in QsSessions : qsClaiming[s].task # QsNull => qsClaiming[s].task \in AllTasks
  BY DEF QsTableInv, QsTypeOK, QsClaim
<1>3. \A s \in QsSessions : QsClaimOf(s)'
  BY <1>2 DEF QsTableInv, QsClaimOf
<1>4. \A t \in AllTasks : QsTaskOf(t)'
  BY DEF QsTableInv, QsTaskOf
<1> QED
  BY <1>1, <1>3, <1>4 DEF QsTableInv

\* complete, by whoever holds the task.
LEMMA Completes ==
    ASSUME QsTableInv, NEW u \in AllTasks, NEW w, NEW lease, Queue(lease)!complete(u, w),
           UNCHANGED <<qsHistory, qsClaims>>, qsOutside' \in Nat
    PROVE  /\ QsTableInv' /\ UNCHANGED qsClaiming /\ QsKeeps
           /\ qsRows[u].status = "RUNNING" /\ qsRows[u].lockedBy = w
           /\ qsRows'[u].status = "SUCCEEDED" /\ qsRows'[u].attempts = qsRows[u].attempts
           /\ \A t \in AllTasks : QsRowStep(t)
<1> DEFINE row == [qsRows[u] EXCEPT !.status = "SUCCEEDED", !.finished = TRUE,
                                    !.lockedBy = QsNull, !.leaseExpiresAt = QsNull]
<1>1. /\ qsRows[u].status = "RUNNING" /\ qsRows[u].lockedBy = w
      /\ qsRows' = [qsRows EXCEPT ![u] = row]
      /\ UNCHANGED <<qsClaiming, qsReaping, qsNow>>
  BY DEF Queue!complete, Queue!finish, Queue!Holds
<1>2. qsRows \in [AllTasks -> QsRow] /\ qsReaping \in [QsSessions -> Int \cup {QsNull}]
  BY DEF QsTableInv, QsTypeOK
<1>3. row \in QsRow /\ row.status = "SUCCEEDED" /\ row.attempts = qsRows[u].attempts
  <2>1. qsRows[u] \in QsRow
    BY <1>2
  <2> QED
    BY <2>1 DEF QsRow
<1> HIDE DEF row
<1>4. /\ qsRows' \in [AllTasks -> QsRow] /\ qsRows'[u] = row
      /\ \A t \in AllTasks \ {u} : qsRows'[t] = qsRows[t]
  BY <1>1, <1>2, <1>3
<1>5. QsTableInv'
  <2>1. \A t \in AllTasks :
           /\ qsRows'[t].attempts = qsRows[t].attempts
           /\ qsRows[t].status = "QUEUED" => qsRows'[t] = qsRows[t]
           /\ qsRows'[t] = qsRows[t] \/ qsRows'[t].status \notin {"RUNNING", "ABSENT"}
    BY <1>1, <1>3, <1>4
  <2> QED
    BY <1>1, <1>2, <1>4, <2>1, RowsWritten
<1>6. (\A t \in AllTasks : QsRowStep(t)) /\ QsKeeps
  BY <1>1, <1>3, <1>4 DEF QsRowStep, QsKeeps
<1> QED
  BY <1>1, <1>3, <1>4, <1>5, <1>6

\* enqueue of a task that is not in the table.
LEMMA Enqueues ==
    ASSUME QsTableInv, NEW u \in AllTasks, NEW k \in {IdemKey, QsNull}, NEW m \in Nat,
           NEW lease, Queue(lease)!enqueue(u, k, m),
           UNCHANGED <<qsHistory, qsClaims>>, qsOutside' \in Nat
    PROVE  /\ QsTableInv' /\ UNCHANGED qsClaiming
           /\ \A t \in AllTasks \ {u} : qsRows'[t] = qsRows[t]
           /\ qsRows[u].status = "ABSENT" /\ qsRows'[u].status = "QUEUED"
           /\ \A t \in AllTasks : QsRowStep(t)
<1>1. /\ qsRows[u].status = "ABSENT" /\ UNCHANGED <<qsClaiming, qsReaping, qsNow>>
      /\ \E ts \in Queue(lease)!Clock :
           qsRows' = [qsRows EXCEPT ![u] = [Queue(lease)!NoRow EXCEPT
             !.status = "QUEUED", !.key = k, !.maxAttempts = m, !.enqueuedAt = ts]]
  BY DEF Queue!enqueue, Queue!Exists
<1>2. PICK ts \in Queue(lease)!Clock :
           qsRows' = [qsRows EXCEPT ![u] = [Queue(lease)!NoRow EXCEPT
             !.status = "QUEUED", !.key = k, !.maxAttempts = m, !.enqueuedAt = ts]]
  BY <1>1
<1>3. qsRows \in [AllTasks -> QsRow] /\ qsReaping \in [QsSessions -> Int \cup {QsNull}]
  BY DEF QsTableInv, QsTypeOK
<1>4. ts \in Int
  BY DEF Queue!Clock, QsTableInv, QsTypeOK
<1>5. PICK row : row = [Queue(lease)!NoRow EXCEPT
             !.status = "QUEUED", !.key = k, !.maxAttempts = m, !.enqueuedAt = ts]
  OBVIOUS
<1>6. PICK no \in BOOLEAN : no = FALSE
  BY Zenon
<1>7. row = [status |-> "QUEUED", key |-> k, maxAttempts |-> m, attempts |-> 0,
             lockedBy |-> QsNull, enqueuedAt |-> ts, leaseExpiresAt |-> QsNull,
             finished |-> no]
  BY <1>5, <1>6 DEF Queue!NoRow
<1>8. row \in QsRow /\ row.status = "QUEUED" /\ row.attempts = 0
  BY <1>4, <1>7 DEF QsRow
<1>9. /\ qsRows' \in [AllTasks -> QsRow] /\ qsRows'[u] = row
      /\ \A t \in AllTasks \ {u} : qsRows'[t] = qsRows[t]
  BY <1>2, <1>3, <1>5, <1>8
<1>10. qsRows[u].attempts = 0
  BY <1>1 DEF QsTableInv, QsTaskOf
<1>11. QsTableInv'
  <2>1. \A t \in AllTasks :
           /\ qsRows'[t].attempts = qsRows[t].attempts
           /\ qsRows[t].status = "QUEUED" => qsRows'[t] = qsRows[t]
           /\ qsRows'[t] = qsRows[t] \/ qsRows'[t].status \notin {"RUNNING", "ABSENT"}
    BY <1>1, <1>8, <1>9, <1>10
  <2> QED
    BY <1>1, <1>3, <1>9, <2>1, RowsWritten
<1>12. \A t \in AllTasks : QsRowStep(t)
  BY <1>1, <1>8, <1>9 DEF QsRowStep
<1> QED
  BY <1>1, <1>8, <1>9, <1>11, <1>12

\* The first statement of a reap of session s: what has expired is in the queue
\* again.
LEMMA ReapsFirst ==
    ASSUME QsTableInv, NEW s \in QsSessions, NEW lease, Queue(lease)!ReapRequeue(s),
           UNCHANGED <<qsHistory, qsClaims>>, qsOutside' \in Nat
    PROVE  /\ QsTableInv' /\ UNCHANGED qsClaiming /\ QsKeeps
           /\ \A t \in AllTasks : QsRowStep(t)
<1>1. PICK ts \in Queue(lease)!Clock :
         /\ qsReaping' = [qsReaping EXCEPT ![s] = ts]
         /\ qsRows' = [t \in AllTasks |->
              IF Queue(lease)!Expired(t, ts) /\ qsRows[t].attempts < qsRows[t].maxAttempts
              THEN [qsRows[t] EXCEPT !.status = "QUEUED", !.lockedBy = QsNull,
                                     !.leaseExpiresAt = QsNull]
              ELSE qsRows[t]]
  BY DEF Queue!ReapRequeue
<1>2. ts \in Int /\ UNCHANGED <<qsClaiming, qsNow>> /\ QsTypeOK
  <2>1. QsTypeOK
    BY DEF QsTableInv
  <2>2. UNCHANGED <<qsClaiming, qsNow>>
    BY DEF Queue!ReapRequeue
  <2>3. ts \in Int
    BY <2>1 DEF Queue!Clock, QsTypeOK
  <2> QED
    BY <2>1, <2>2, <2>3
<1>3. ASSUME NEW t \in AllTasks
      PROVE  /\ qsRows'[t] \in QsRow /\ qsRows'[t].attempts = qsRows[t].attempts
             /\ \/ qsRows'[t] = qsRows[t]
                \/ qsRows[t].status = "RUNNING" /\ qsRows'[t].status = "QUEUED"
  <2>1. qsRows[t] \in QsRow
    BY <1>2 DEF QsTypeOK
  <2>2. CASE Queue(lease)!Expired(t, ts) /\ qsRows[t].attempts < qsRows[t].maxAttempts
    <3>1. /\ qsRows'[t] = [qsRows[t] EXCEPT !.status = "QUEUED", !.lockedBy = QsNull,
                                            !.leaseExpiresAt = QsNull]
          /\ qsRows[t].status = "RUNNING"
      BY <1>1, <2>2 DEF Queue!Expired
    <3> QED
      BY <2>1, <3>1 DEF QsRow
  <2>3. CASE ~(Queue(lease)!Expired(t, ts) /\ qsRows[t].attempts < qsRows[t].maxAttempts)
    BY <1>1, <2>1, <2>3
  <2> QED
    BY <2>2, <2>3
<1>4. qsRows' \in [AllTasks -> QsRow]
  <2>1. qsRows' = [t \in AllTasks |-> qsRows'[t]]
    BY <1>1
  <2> QED
    BY <1>3, <2>1
<1>5. qsReaping' \in [QsSessions -> Int \cup {QsNull}]
  BY <1>1, <1>2 DEF QsTypeOK
<1>6. \A t \in AllTasks :
         /\ qsRows'[t].attempts = qsRows[t].attempts
         /\ qsRows[t].status = "QUEUED" => qsRows'[t] = qsRows[t]
         /\ qsRows'[t] = qsRows[t] \/ qsRows'[t].status \notin {"RUNNING", "ABSENT"}
  BY <1>3
<1>7. (\A t \in AllTasks : QsRowStep(t)) /\ QsKeeps
  BY <1>3 DEF QsRowStep, QsKeeps
<1> QED
  BY <1>2, <1>4, <1>5, <1>6, <1>7, RowsWritten

\* The second statement: what has expired and has no attempt left is over.
LEMMA ReapsSecond ==
    ASSUME QsTableInv, NEW s \in QsSessions, NEW lease, Queue(lease)!ReapTimeOut(s),
           UNCHANGED <<qsHistory, qsClaims>>, qsOutside' \in Nat
    PROVE  /\ QsTableInv' /\ UNCHANGED qsClaiming /\ QsKeeps
           /\ \A t \in AllTasks : QsRowStep(t)
<1>1. /\ qsReaping' = [qsReaping EXCEPT ![s] = QsNull]
      /\ qsRows' = [t \in AllTasks |->
           IF Queue(lease)!Expired(t, qsReaping[s])
                /\ qsRows[t].attempts >= qsRows[t].maxAttempts
           THEN [qsRows[t] EXCEPT !.status = "TIMED_OUT", !.finished = TRUE,
                                  !.lockedBy = QsNull, !.leaseExpiresAt = QsNull]
           ELSE qsRows[t]]
      /\ UNCHANGED <<qsClaiming, qsNow>>
  BY DEF Queue!ReapTimeOut
<1>2. QsTypeOK
  BY DEF QsTableInv
<1>3. ASSUME NEW t \in AllTasks
      PROVE  /\ qsRows'[t] \in QsRow /\ qsRows'[t].attempts = qsRows[t].attempts
             /\ \/ qsRows'[t] = qsRows[t]
                \/ qsRows[t].status = "RUNNING" /\ qsRows'[t].status = "TIMED_OUT"
  <2>1. qsRows[t] \in QsRow
    BY <1>2 DEF QsTypeOK
  <2>2. CASE /\ Queue(lease)!Expired(t, qsReaping[s])
             /\ qsRows[t].attempts >= qsRows[t].maxAttempts
    <3>1. /\ qsRows'[t] = [qsRows[t] EXCEPT !.status = "TIMED_OUT", !.finished = TRUE,
                                     !.lockedBy = QsNull, !.leaseExpiresAt = QsNull]
          /\ qsRows[t].status = "RUNNING"
      BY <1>1, <2>2 DEF Queue!Expired
    <3> QED
      BY <2>1, <3>1 DEF QsRow
  <2>3. CASE ~(/\ Queue(lease)!Expired(t, qsReaping[s])
               /\ qsRows[t].attempts >= qsRows[t].maxAttempts)
    BY <1>1, <2>1, <2>3
  <2> QED
    BY <2>2, <2>3
<1>4. qsRows' \in [AllTasks -> QsRow]
  <2>1. qsRows' = [t \in AllTasks |-> qsRows'[t]]
    BY <1>1
  <2> QED
    BY <1>3, <2>1
<1>5. qsReaping' \in [QsSessions -> Int \cup {QsNull}]
  BY <1>1, <1>2 DEF QsTypeOK
<1>6. \A t \in AllTasks :
         /\ qsRows'[t].attempts = qsRows[t].attempts
         /\ qsRows[t].status = "QUEUED" => qsRows'[t] = qsRows[t]
         /\ qsRows'[t] = qsRows[t] \/ qsRows'[t].status \notin {"RUNNING", "ABSENT"}
  BY <1>3
<1>7. (\A t \in AllTasks : QsRowStep(t)) /\ QsKeeps
  BY <1>3 DEF QsRowStep, QsKeeps
<1> QED
  BY <1>1, <1>4, <1>5, <1>6, <1>7, RowsWritten

-----------------------------------------------------------------------------
\* run_smoke goes on without leaving the task unclaimed, and makes none of the
\* checks the stage rests on.
LEMMA StageGoes ==
    ASSUME NEW pc, NEW checks, NEW to, NEW more, QsStage(pc, checks)',
           to \in HeldPcs => pc \in HeldPcs,
           to = "start" => pc = "start",
           BulkChecks \subseteq more => BulkChecks \subseteq checks,
           Rescued \in more => Rescued \in checks
    PROVE  QsStage(to, more)'
  BY DEF QsStage

\* A step of somebody else, or of run_smoke that makes no check.
LEMMA QuietStep ==
    ASSUME QsInv, QsTableInv', QsHandsInv', QsWorkerInv', UNCHANGED <<qsEvidence, qsReleased>>,
           \A t \in AllTasks : QsRowStep(t),
           qsPc = "start" => QsKeeps,
           \/ UNCHANGED qsPc
           \/ /\ qsReleased = 0 /\ qsPc' \notin {"start", "consume"}
              /\ qsPc' \in HeldPcs => qsPc \in HeldPcs
              /\ qsPc' \in UnrescuedPcs => qsPc \in UnrescuedPcs
    PROVE  QsInv'
<1>1. PICK p0, c0, p1 : p0 = qsPc /\ c0 = qsEvidence.checks /\ p1 = qsPc'
  OBVIOUS
<1>2. QsStage(p0, c0) /\ QsTypeOK
  BY <1>1 DEF QsInv, QsTableInv
<1>3. p0 = "start" => QsKeeps
  BY <1>1
<1>4. QsStage(p0, c0)'
  BY <1>2, <1>3, StageStep
<1>5. (p1 \in HeldPcs => p0 \in HeldPcs) /\ (p1 = "start" => p0 = "start")
  BY <1>1
<1>6. QsStage(p1, c0)'
  BY <1>4, <1>5, StageGoes
<1>7. QsStage(qsPc, qsEvidence.checks)'
  BY <1>1, <1>6
<1>8. QsControlInv'
  <2>1. QsControlInv
    BY DEF QsInv
  <2> QED
    BY <2>1 DEF QsControlInv
<1> QED
  BY <1>7, <1>8 DEF QsInv

\* What a check adds to the evidence.
LEMMA CheckAdds ==
    ASSUME QsControlInv, NEW names, CheckedToo(names)
    PROVE  /\ qsEvidence' = [commit |-> qsEvidence.commit, status |-> qsEvidence.status,
                             checks |-> qsEvidence.checks \cup names]
           /\ qsEvidence'.commit = qsEvidence.commit
           /\ qsEvidence'.checks = qsEvidence.checks \cup names
<1>1. PICK c, s, k : c = qsEvidence.commit /\ s = qsEvidence.status /\ k = qsEvidence.checks
  OBVIOUS
<1>2. qsEvidence = [commit |-> c, status |-> s, checks |-> k]
  BY <1>1 DEF QsControlInv
<1>3. PICK more : more = k \cup names
  OBVIOUS
<1>4. qsEvidence' = [qsEvidence EXCEPT !.checks = more]
  BY <1>1, <1>3 DEF CheckedToo
<1>5. qsEvidence' = [commit |-> c, status |-> s, checks |-> more]
  BY <1>2, <1>4
<1> QED
  BY <1>1, <1>3, <1>5

\* The worker processes of the first stage.
LEMMA WorkerStep ==
    ASSUME QsInv, NEW w \in QsWorkers,
           \/ WorkerSelects(w) \/ WorkerIdles(w) \/ WorkerClaims(w) \/ WorkerCompletes(w)
           \/ \E how \in {"reported", "killed"} : WorkerEnds(w, how)
    PROVE  QsInv'
<1> USE QueueSmokeAssumption
<1>1. /\ QsTableInv /\ QsHandsInv /\ QsWorkerInv /\ w \in QsWho /\ w \in QsSessions
      /\ LongLease \in Nat /\ VictimTask \in AllTasks
      /\ UNCHANGED <<qsPc, qsEvidence, qsReleased, qsOutside>>
      /\ qsOutside' \in Nat /\ qsOutside' >= qsOutside
  <2>1. UNCHANGED <<qsPc, qsEvidence, qsReleased, qsOutside>>
    BY DEF WorkerSelects, WorkerIdles, WorkerClaims, WorkerCompletes, WorkerEnds, StaysOutside
  <2>2. QsTypeOK
    BY DEF QsInv, QsTableInv
  <2> QED
    BY <2>1, <2>2 DEF QsInv, QsWho, QsSessions, QsTypeOK, AllTasks
<1>2. ASSUME UNCHANGED <<qsRows, qsHistory>>
      PROVE  (\A t \in AllTasks : QsRowStep(t)) /\ QsKeeps
  BY <1>2 DEF QsRowStep, QsKeeps
<1>3. ASSUME NEW how \in {"idle", "claiming", "reported", "killed"},
             qsWorker' = [qsWorker EXCEPT ![w].pc = how]
      PROVE  QsWorkerInv'
  BY <1>1, <1>3 DEF QsWorkerInv
<1>a. ASSUME qsHistory'[VictimTask] = qsHistory[VictimTask], QsKeeps, QsClaimsOf(w),
             \A v \in QsWorkers \ {w} : qsWorker'[v] = qsWorker[v],
             \/ qsClaiming'[w].task = QsNull
             \/ qsPc = "consume" /\ qsWorker'[w].pc = "claiming"
      PROVE  QsHandsInv'
  <2>1. \A s \in QsSessions : qsClaiming'[s].task # QsNull =>
           \/ qsClaiming[s].task # QsNull
           \/ s \in QsWorkers /\ qsPc = "consume"
    BY <1>a DEF QsClaimsOf
  <2>2. \A v \in QsWorkers : qsClaiming'[v].task # QsNull =>
           \/ qsClaiming[v].task # QsNull /\ qsWorker'[v] = qsWorker[v]
           \/ qsWorker'[v].pc = "claiming"
    BY <1>a DEF QsClaimsOf, QsSessions
  <2> QED
    BY <1>1, <1>a, <2>1, <2>2, HandsStep
<1>b. ASSUME NEW how, qsWorker' = [qsWorker EXCEPT ![w].pc = how]
      PROVE  (\A v \in QsWorkers \ {w} : qsWorker'[v] = qsWorker[v]) /\ qsWorker'[w].pc = how
  <2>1. PICK now : now = [qsWorker[w] EXCEPT !.pc = how]
    OBVIOUS
  <2>2. qsWorker' = [qsWorker EXCEPT ![w] = now] /\ now.pc = how
    BY <1>1, <1>b, <2>1 DEF QsWorkerInv
  <2> QED
    BY <1>1, <2>2 DEF QsWorkerInv
<1>c. ASSUME NEW now, qsWorker' = [qsWorker EXCEPT ![w] = now]
      PROVE  \A v \in QsWorkers \ {w} : qsWorker'[v] = qsWorker[v]
  BY <1>1, <1>c DEF QsWorkerInv
<1>d. qsWorker[w].pc # "claiming" => qsClaiming[w].task = QsNull
  BY <1>1 DEF QsHandsInv
<1>4. CASE WorkerSelects(w)
  <2>1. QsTableInv' /\ UNCHANGED qsRows /\ QsClaimsOf(w) /\ UNCHANGED qsHistory
    BY <1>1, <1>4, ClaimSelects DEF WorkerSelects
  <2>2. qsWorker' = [qsWorker EXCEPT ![w].pc = "claiming"] /\ qsPc = "consume"
    BY <1>4 DEF WorkerSelects
  <2>3. QsWorkerInv'
    BY <1>3, <2>2
  <2>4. (\A v \in QsWorkers \ {w} : qsWorker'[v] = qsWorker[v]) /\ qsWorker'[w].pc = "claiming"
    BY <1>b, <2>2
  <2>5. QsHandsInv'
    BY <1>2, <1>a, <2>1, <2>2, <2>4
  <2> QED
    BY <1>1, <1>2, <2>1, <2>3, <2>5, QuietStep
<1>5. CASE WorkerIdles(w)
  <2>1. UNCHANGED <<qsHistory, qsClaims, qsRows, qsClaiming, qsReaping, qsNow>>
    BY <1>5 DEF WorkerIdles, qsQueue
  <2>2. QsTableInv'
    BY <1>1, <2>1 DEF QsTableInv, QsTypeOK, QsClaimOf, QsTaskOf
  <2>4. QsHandsInv'
    <3>1. \A v \in QsWorkers \ {w} : qsWorker'[v] = qsWorker[v]
      BY <1>5, <1>c DEF WorkerIdles
    <3>2. qsClaiming'[w].task = QsNull /\ QsClaimsOf(w)
      BY <1>5, <1>d, <2>1 DEF WorkerIdles, QsClaimsOf
    <3> QED
      BY <1>2, <1>a, <2>1, <3>1, <3>2
  <2>3. QsWorkerInv'
    <3>1. PICK how \in {"idle", "reported"} :
             qsWorker' = [qsWorker EXCEPT ![w] =
               [qsWorker[w] EXCEPT !.polls = @ + 1, !.pc = how]]
      BY <1>5 DEF WorkerIdles
    <3>2. PICK n \in Nat : n = qsWorker[w].polls + 1
      BY <1>1 DEF QsWorkerInv
    <3>3. qsWorker' = [qsWorker EXCEPT ![w] = [qsWorker[w] EXCEPT !.polls = n, !.pc = how]]
      BY <3>1, <3>2
    <3>4. PICK task \in AllTasks \cup {QsNull} : task = qsWorker[w].task
      BY <1>1 DEF QsWorkerInv
    <3>5. qsWorker[w] = [pc |-> qsWorker[w].pc, task |-> task, polls |-> qsWorker[w].polls]
      BY <1>1, <3>4 DEF QsWorkerInv
    <3>6. PICK now : now = [pc |-> how, task |-> task, polls |-> n]
      OBVIOUS
    <3>7. qsWorker' = [qsWorker EXCEPT ![w] = now]
      <4>1. PICK p0, n0 : p0 = qsWorker[w].pc /\ n0 = qsWorker[w].polls
        OBVIOUS
      <4>2. PICK before : before = [pc |-> p0, task |-> task, polls |-> n0]
        OBVIOUS
      <4>3. qsWorker[w] = before
        BY <3>5, <4>1, <4>2
      <4>4. [before EXCEPT !.polls = n, !.pc = how] = now
        <5>1. PICK then : then = [before EXCEPT !.polls = n]
          OBVIOUS
        <5>2. then = [pc |-> p0, task |-> task, polls |-> n]
          BY <4>2, <5>1
        <5>3. [before EXCEPT !.polls = n, !.pc = how] = [then EXCEPT !.pc = how]
          BY <4>2, <5>1
        <5> QED
          BY <3>6, <5>2, <5>3
      <4> QED
        BY <3>3, <4>3, <4>4
    <3>8. /\ now \in [pc : {"idle", "claiming", "working", "reported", "killed"},
                      task : AllTasks \cup {QsNull}, polls : Nat]
          /\ now.pc # "working"
      BY <3>1, <3>2, <3>4, <3>6
    <3> QED
      BY <1>1, <3>7, <3>8 DEF QsWorkerInv
  <2> QED
    BY <1>1, <1>2, <2>1, <2>2, <2>3, <2>4, QuietStep
<1>6. CASE WorkerClaims(w)
  <2>1. /\ Queue(LongLease)!claim(w) /\ Noted(qsClaiming[w].task, w)
        /\ \/ UNCHANGED qsClaims
           \/ qsClaims' = [qsClaims EXCEPT ![qsClaiming[w].task] = @ + 1]
    BY <1>6 DEF WorkerClaims
  <2>2. /\ QsTableInv' /\ QsKeeps
        /\ qsClaiming[w].task \in AllTasks /\ qsClaiming[w].task # QsNull
        /\ qsRows[qsClaiming[w].task].status = "QUEUED"
        /\ \A t \in AllTasks \ {qsClaiming[w].task} : qsHistory'[t] = qsHistory[t]
        /\ qsClaiming'[w].task = QsNull /\ QsClaimsOf(w)
        /\ \A t \in AllTasks : QsRowStep(t)
    BY <1>1, <2>1, ClaimCommits
  <2>3. QsWorkerInv'
    <3>1. CASE qsWorker' = [qsWorker EXCEPT ![w] =
                              [pc |-> "working", task |-> qsClaiming[w].task, polls |-> 0]]
      BY <1>1, <2>2, <3>1 DEF QsWorkerInv
    <3>2. CASE qsWorker' = [qsWorker EXCEPT ![w].pc = "reported"]
      BY <1>3, <3>2
    <3> QED
      BY <1>6, <3>1, <3>2 DEF WorkerClaims
  <2>4. QsHandsInv'
    <3>1. VictimTask # qsClaiming[w].task
      BY <1>1, <2>2 DEF QsHandsInv
    <3>2. \A v \in QsWorkers \ {w} : qsWorker'[v] = qsWorker[v]
      <4>1. CASE qsWorker' = [qsWorker EXCEPT ![w] =
                                [pc |-> "working", task |-> qsClaiming[w].task, polls |-> 0]]
        BY <1>c, <4>1
      <4>2. CASE qsWorker' = [qsWorker EXCEPT ![w].pc = "reported"]
        BY <1>b, <4>2
      <4> QED
        BY <1>6, <4>1, <4>2 DEF WorkerClaims
    <3> QED
      BY <1>1, <1>a, <2>2, <3>1, <3>2
  <2> QED
    BY <1>1, <2>2, <2>3, <2>4, QuietStep
<1>7. CASE WorkerCompletes(w)
  <2>1. /\ qsWorker[w].task \in AllTasks /\ Queue(LongLease)!complete(qsWorker[w].task, w)
        /\ UNCHANGED <<qsHistory, qsClaims>>
    BY <1>1, <1>7 DEF WorkerCompletes, QsWorkerInv
  <2>2. PICK u \in AllTasks : u = qsWorker[w].task
    BY <2>1
  <2>3. Queue(LongLease)!complete(u, w)
    BY <2>1, <2>2
  <2>4. /\ QsTableInv' /\ UNCHANGED qsClaiming /\ QsKeeps
        /\ \A t \in AllTasks : QsRowStep(t)
    BY <1>1, <2>1, <2>3, Completes
  <2>5. QsWorkerInv'
    <3>1. CASE qsWorker' = [qsWorker EXCEPT ![w] = IdleWorker]
      BY <1>1, <3>1 DEF QsWorkerInv, IdleWorker
    <3>2. CASE qsWorker' = [qsWorker EXCEPT ![w].pc = "reported"]
      BY <1>3, <3>2
    <3> QED
      BY <1>7, <3>1, <3>2 DEF WorkerCompletes
  <2>6. QsHandsInv'
    <3>1. \A v \in QsWorkers \ {w} : qsWorker'[v] = qsWorker[v]
      <4>1. CASE qsWorker' = [qsWorker EXCEPT ![w] = IdleWorker]
        BY <1>c, <4>1
      <4>2. CASE qsWorker' = [qsWorker EXCEPT ![w].pc = "reported"]
        BY <1>b, <4>2
      <4> QED
        BY <1>7, <4>1, <4>2 DEF WorkerCompletes
    <3>2. qsClaiming'[w].task = QsNull /\ QsClaimsOf(w)
      BY <1>7, <1>d, <2>4 DEF WorkerCompletes, QsClaimsOf
    <3> QED
      BY <1>a, <2>1, <2>4, <3>1, <3>2
  <2> QED
    BY <1>1, <2>4, <2>5, <2>6, QuietStep
<1>8. CASE \E how \in {"reported", "killed"} : WorkerEnds(w, how)
  <2>1. PICK how \in {"reported", "killed"} : WorkerEnds(w, how)
    BY <1>8
  <2>2. UNCHANGED <<qsHistory, qsClaims>>
    BY <2>1 DEF WorkerEnds
  <2>3. QsTableInv' /\ UNCHANGED qsRows /\ qsClaiming'[w].task = QsNull /\ QsClaimsOf(w)
    <3>1. CASE Queue(LongLease)!Disconnect(w)
      BY <1>1, <2>2, <3>1, Disconnects
    <3>2. CASE qsClaiming[w].task = QsNull /\ UNCHANGED qsQueue
      <4>1. UNCHANGED <<qsRows, qsClaiming, qsReaping, qsNow>>
        BY <3>2 DEF qsQueue
      <4> QED
        BY <1>1, <2>2, <3>2, <4>1 DEF QsTableInv, QsTypeOK, QsClaimOf, QsTaskOf, QsClaimsOf
    <3> QED
      BY <2>1, <3>1, <3>2 DEF WorkerEnds
  <2>4. QsWorkerInv'
    BY <1>3, <2>1 DEF WorkerEnds
  <2>5. QsHandsInv'
    <3>1. \A v \in QsWorkers \ {w} : qsWorker'[v] = qsWorker[v]
      BY <1>b, <2>1 DEF WorkerEnds
    <3> QED
      BY <1>2, <1>a, <2>2, <2>3, <3>1
  <2> QED
    BY <1>1, <1>2, <2>2, <2>3, <2>4, <2>5, QuietStep
<1> QED
  BY <1>4, <1>5, <1>6, <1>7, <1>8

\* Whoever has nothing to do with the smoke: he counts what he takes.
LEMMA OutsiderStep ==
    ASSUME QsInv, Outsider
    PROVE  QsInv'
<1> USE QueueSmokeAssumption
<1>1. /\ QsTableInv /\ QsHandsInv /\ QsWorkerInv' /\ "outsider" \in QsWho /\ "outsider" \in QsSessions
      /\ VictimTask \in AllTasks
      /\ qsPc # "start" /\ UNCHANGED <<qsPc, qsEvidence, qsReleased, qsClaims, qsWorker>>
      /\ qsOutside' \in Nat /\ qsOutside' >= qsOutside
  <2>1. /\ qsPc # "start" /\ UNCHANGED <<qsPc, qsEvidence, qsReleased, qsClaims, qsWorker>>
        /\ qsOutside' = qsOutside + 1 \/ qsOutside' = qsOutside
    BY DEF Outsider
  <2>2. qsOutside \in Nat
    BY DEF QsInv, QsTableInv, QsTypeOK
  <2>3. QsWorkerInv'
    BY <2>1 DEF QsInv, QsWorkerInv
  <2> QED
    BY <2>1, <2>2, <2>3 DEF QsInv, QsWho, QsSessions, AllTasks
<1>2. ASSUME QsKeeps, QsClaimsOf("outsider"),
             qsClaiming'["outsider"].task # QsNull => qsOutside' > 0,
             \/ qsHistory'[VictimTask] = qsHistory[VictimTask]
             \/ /\ qsHistory'[VictimTask] = Append(qsHistory[VictimTask], "outsider")
                /\ qsOutside' > 0
      PROVE  QsHandsInv'
  <2>1. \A s \in QsSessions : qsClaiming'[s].task # QsNull =>
           \/ qsClaiming[s].task # QsNull
           \/ s = "outsider" /\ qsOutside' > 0
    BY <1>2 DEF QsClaimsOf
  <2>2. \A w \in QsWorkers : qsClaiming'[w].task # QsNull =>
           qsClaiming[w].task # QsNull /\ qsWorker'[w] = qsWorker[w]
    BY <1>1, <1>2 DEF QsClaimsOf, QsSessions
  <2>3. \/ qsHistory'[VictimTask] = qsHistory[VictimTask]
        \/ \E x \in QsWho :
             /\ qsHistory'[VictimTask] = Append(qsHistory[VictimTask], x)
             /\ x = "outsider" /\ qsOutside' > 0
    BY <1>1, <1>2
  <2> QED
    BY <1>1, <1>2, <2>1, <2>2, <2>3, HandsStep
<1>3. qsClaiming["outsider"].task # QsNull => qsOutside > 0
  BY <1>1 DEF QsHandsInv
<1>4. ASSUME QsTableInv', UNCHANGED <<qsClaiming, qsHistory>>, QsKeeps,
             \A t \in AllTasks : QsRowStep(t)
      PROVE  QsInv'
  <2>1. QsClaimsOf("outsider") /\ (qsClaiming'["outsider"].task # QsNull => qsOutside' > 0)
    <3>1. qsOutside \in Nat
      BY DEF QsInv, QsTableInv, QsTypeOK
    <3> QED
      BY <1>1, <1>3, <1>4, <3>1 DEF QsClaimsOf
  <2>2. QsHandsInv'
    BY <1>2, <1>4, <2>1
  <2> QED
    BY <1>1, <1>4, <2>2, QuietStep
<1>5. CASE /\ Queue(LongLease)!ClaimSelect("outsider", "outsider") /\ UNCHANGED qsHistory
           /\ qsOutside' = qsOutside + 1
  <2>1. QsTableInv' /\ UNCHANGED qsRows /\ QsClaimsOf("outsider")
    BY <1>1, <1>5, ClaimSelects
  <2>2. (\A t \in AllTasks : QsRowStep(t)) /\ QsKeeps
    BY <1>5, <2>1 DEF QsRowStep, QsKeeps
  <2>3. qsOutside' > 0
    <3>1. qsOutside \in Nat
      BY DEF QsInv, QsTableInv, QsTypeOK
    <3> QED
      BY <1>5, <3>1
  <2>4. QsHandsInv'
    BY <1>2, <1>5, <2>1, <2>2, <2>3
  <2> QED
    BY <1>1, <2>1, <2>2, <2>4, QuietStep
<1>6. CASE /\ \E lease \in OutsideLeases : Queue(lease)!claim("outsider")
           /\ Noted(qsClaiming["outsider"].task, "outsider") /\ UNCHANGED qsOutside
  <2>1. PICK lease \in Nat : Queue(lease)!claim("outsider")
    BY <1>6
  <2>2. /\ QsTableInv' /\ QsKeeps
        /\ qsClaiming["outsider"].task \in AllTasks /\ qsClaiming["outsider"].task # QsNull
        /\ qsHistory'[qsClaiming["outsider"].task]
             = Append(qsHistory[qsClaiming["outsider"].task], "outsider")
        /\ \A t \in AllTasks \ {qsClaiming["outsider"].task} : qsHistory'[t] = qsHistory[t]
        /\ qsClaiming'["outsider"].task = QsNull /\ QsClaimsOf("outsider")
        /\ \A t \in AllTasks : QsRowStep(t)
    BY <1>1, <1>6, <2>1, ClaimCommits
  <2>3. QsHandsInv'
    BY <1>1, <1>2, <1>3, <1>6, <2>2
  <2> QED
    BY <1>1, <2>2, <2>3, QuietStep
<1>7. CASE (\E t \in AllTasks : Queue(LongLease)!complete(t, "outsider")) /\ UNCHANGED qsHistory
  <2>1. PICK u \in AllTasks : Queue(LongLease)!complete(u, "outsider")
    BY <1>7
  <2>2. QsTableInv' /\ UNCHANGED qsClaiming /\ QsKeeps /\ \A t \in AllTasks : QsRowStep(t)
    BY <1>1, <1>7, <2>1, Completes
  <2> QED
    BY <1>4, <1>7, <2>2
<1>8. CASE Queue(LongLease)!ReapRequeue("outsider") /\ UNCHANGED qsHistory
  <2>1. QsTableInv' /\ UNCHANGED qsClaiming /\ QsKeeps /\ \A t \in AllTasks : QsRowStep(t)
    BY <1>1, <1>8, ReapsFirst
  <2> QED
    BY <1>4, <1>8, <2>1
<1>9. CASE Queue(LongLease)!ReapTimeOut("outsider") /\ UNCHANGED qsHistory
  <2>1. QsTableInv' /\ UNCHANGED qsClaiming /\ QsKeeps /\ \A t \in AllTasks : QsRowStep(t)
    BY <1>1, <1>9, ReapsSecond
  <2> QED
    BY <1>4, <1>9, <2>1
<1> QED
  BY <1>5, <1>6, <1>7, <1>8, <1>9 DEF Outsider

\* _reset_table and the first enqueues: nobody has taken a row yet.
LEMMA ResetStep ==
    ASSUME QsInv, StartQueueSmoke
    PROVE  QsInv'
<1> USE QueueSmokeAssumption
<1>1. /\ QsTypeOK /\ QsControlInv /\ qsPc = "start" /\ qsReleased = 0
      /\ \A t \in AllTasks : qsRows[t].status = "ABSENT" /\ qsHistory[t] = <<>>
      /\ qsPc' = "consume"
      /\ UNCHANGED <<qsWorker, qsClaims, qsHistory, qsClaiming, qsReaping, qsNow, qsReleased,
                     qsOutside>>
  BY DEF QsInv, QsTableInv, QsTaskOf, QsStage, QsControlInv, StartQueueSmoke, StaysOutside
<1>2. \A s \in QsSessions : qsClaiming[s].task = QsNull
  <2>1. \A s \in QsSessions : qsClaiming[s].task \in AllTasks \cup {QsNull}
    BY <1>1 DEF QsTypeOK, QsClaim
  <2>2. \A s \in QsSessions : QsClaimOf(s)
    BY DEF QsInv, QsTableInv
  <2> QED
    BY <1>1, <2>1, <2>2 DEF QsClaimOf
<1>3. ASSUME NEW t \in AllTasks
      PROVE  /\ qsRows'[t] \in QsRow /\ qsRows'[t].attempts = 0
             /\ qsRows'[t].status \in {"ABSENT", "QUEUED"}
             /\ t \notin BulkTasks => qsRows'[t].status = "ABSENT"
  <2>1. PICK no \in BOOLEAN : no = FALSE
    BY Zenon
  <2>2. PICK none : none = Queue(LongLease)!NoRow
    OBVIOUS
  <2>3. none = [status |-> "ABSENT", key |-> QsNull, maxAttempts |-> 0, attempts |-> 0,
                lockedBy |-> QsNull, enqueuedAt |-> 0, leaseExpiresAt |-> QsNull,
                finished |-> no]
    BY <2>1, <2>2 DEF Queue!NoRow
  <2>4. CASE t \in BulkTasks
    <3>1. PICK ts \in Int : ts = qsNow
      BY <1>1 DEF QsTypeOK
    <3>2. qsRows'[t] = [none EXCEPT !.status = "QUEUED", !.key = QsNull, !.maxAttempts = 1,
                                    !.enqueuedAt = ts]
      BY <2>2, <2>4, <3>1 DEF StartQueueSmoke, Enqueued
    <3>3. qsRows'[t] = [status |-> "QUEUED", key |-> QsNull, maxAttempts |-> 1, attempts |-> 0,
                        lockedBy |-> QsNull, enqueuedAt |-> ts, leaseExpiresAt |-> QsNull,
                        finished |-> no]
      BY <2>3, <3>2
    <3> QED
      BY <2>4, <3>3 DEF QsRow
  <2>5. CASE t \notin BulkTasks
    <3>1. qsRows'[t] = none
      BY <2>2, <2>5 DEF StartQueueSmoke
    <3> QED
      BY <2>3, <3>1 DEF QsRow
  <2> QED
    BY <2>4, <2>5
<1>4. qsRows' \in [AllTasks -> QsRow]
  <2>1. qsRows' = [t \in AllTasks |-> qsRows'[t]]
    BY DEF StartQueueSmoke
  <2> QED
    BY <1>3, <2>1
<1>5. QsTableInv'
  <2>1. QsTypeOK'
    BY <1>1, <1>4 DEF QsTypeOK
  <2>2. \A s \in QsSessions : QsClaimOf(s)'
    BY <1>1, <1>2 DEF QsClaimOf
  <2>3. \A t \in AllTasks : QsTaskOf(t)'
    <3> TAKE t \in AllTasks
    <3>1. QsTaskOf(t) /\ Len(<<>>) = 0
      BY DEF QsInv, QsTableInv
    <3> QED
      BY <1>1, <1>3, <3>1 DEF QsTaskOf
  <2> QED
    BY <2>1, <2>2, <2>3 DEF QsTableInv
<1>6. /\ qsEvidence' = [commit |-> qsEvidence'.commit, status |-> qsEvidence'.status,
                        checks |-> qsEvidence'.checks]
      /\ qsEvidence'.checks = {"postgres_available"}
  <2>1. PICK c, s, k, h, one : /\ c = qsEvidence.commit /\ s = qsEvidence.status
                               /\ k = qsEvidence.checks /\ h = qsHead
                               /\ one = {"postgres_available"}
    OBVIOUS
  <2>2. qsEvidence = [commit |-> c, status |-> s, checks |-> k]
    BY <1>1, <2>1 DEF QsControlInv
  <2>3. qsEvidence' = [qsEvidence EXCEPT !.commit = h, !.checks = one]
    BY <2>1 DEF StartQueueSmoke
  <2>4. qsEvidence' = [commit |-> h, status |-> s, checks |-> one]
    BY <2>2, <2>3
  <2> QED
    BY <2>1, <2>4
<1>7. QsStage(qsPc, qsEvidence.checks)'
  <2>1. ~(BulkChecks \subseteq qsEvidence'.checks) /\ Rescued \notin qsEvidence'.checks
    BY <1>6 DEF BulkChecks, Rescued
  <2> QED
    BY <1>1, <2>1 DEF QsStage, HeldPcs
<1>8. QsControlInv' /\ QsWorkerInv'
  <2>1. QsControlInv'
    BY <1>1, <1>6 DEF QsControlInv, Rescued
  <2> QED
    BY <1>1, <2>1 DEF QsInv, QsWorkerInv
<1>9. QsHandsInv'
  <2>1. VictimTask \in AllTasks /\ VictimTask \notin BulkTasks
    BY DEF AllTasks
  <2>2. qsRows'[VictimTask].status = "ABSENT" /\ qsHistory'[VictimTask] = <<>>
    BY <1>1, <1>3, <2>1
  <2>3. \A v \in QsSessions : qsClaiming'[v].task = QsNull
    BY <1>1, <1>2
  <2> QED
    BY <1>1, <2>2, <2>3 DEF QsHandsInv, QsSessions
<1> QED
  BY <1>5, <1>7, <1>8, <1>9 DEF QsInv

\* A task that is done at its first attempt, and whose claim a worker of the
\* smoke has noted, was claimed by that worker and by nobody else.
LEMMA OneClaim ==
    ASSUME QsTableInv, NEW t \in AllTasks, qsRows[t].attempts = 1, qsClaims[t] = 1
    PROVE  \E w \in QsWorkers : qsHistory[t] = <<w>>
<1>1. /\ qsHistory[t] \in Seq(QsWho) /\ Len(qsHistory[t]) = 1
      /\ \E k \in 1 .. Len(qsHistory[t]) : qsHistory[t][k] \in QsWorkers
  <2>1. QsTaskOf(t) /\ qsHistory[t] \in Seq(QsWho)
    BY DEF QsTableInv, QsTypeOK
  <2>2. qsClaims[t] > 0
    OBVIOUS
  <2> QED
    BY <2>1, <2>2 DEF QsTaskOf
<1>2. qsHistory[t][1] \in QsWorkers
  BY <1>1
<1>3. qsHistory[t] = <<qsHistory[t][1]>>
  BY <1>1
<1> QED
  BY <1>2, <1>3

\* The workers are joined and the table is read.
LEMMA JoinStep ==
    ASSUME QsInv, JoinWorkers
    PROVE  QsInv'
<1>1. /\ QsTableInv /\ QsControlInv /\ qsPc = "consume" /\ qsReleased = 0
      /\ UNCHANGED <<qsClaims, qsHistory, qsRows, qsClaiming, qsReaping, qsNow, qsReleased,
                     qsOutside>>
  BY DEF QsInv, QsControlInv, JoinWorkers, StaysOutside, qsQueue
<1>2. QsTableInv'
  BY <1>1 DEF QsTableInv, QsTypeOK, QsClaimOf, QsTaskOf
<1>3. QsWorkerInv'
  <2>1. qsWorker' = [w \in QsWorkers |-> IdleWorker]
    BY DEF JoinWorkers
  <2> QED
    BY <2>1 DEF QsWorkerInv, IdleWorker
<1>6. QsHandsInv'
  <2>1. \A w \in QsWorkers : qsClaiming[w].task = QsNull
    BY DEF JoinWorkers, QsInv, QsHandsInv
  <2>2. /\ qsOutside' \in Nat /\ qsOutside' >= qsOutside /\ QsKeeps
        /\ VictimTask \in AllTasks
    <3>1. qsOutside \in Nat
      BY <1>1 DEF QsTableInv, QsTypeOK
    <3> QED
      BY <1>1, <3>1 DEF QsKeeps, AllTasks
  <2>3. qsPc \in FirstPcs /\ qsHistory'[VictimTask] = qsHistory[VictimTask]
    BY <1>1 DEF FirstPcs
  <2>4. \A v \in QsSessions : qsClaiming'[v].task # QsNull => qsClaiming[v].task # QsNull
    BY <1>1
  <2>5. \A w \in QsWorkers : qsClaiming'[w].task = QsNull
    BY <1>1, <2>1
  <2> QED
    BY <2>2, <2>3, <2>4, <2>5, HandsStep
<1>4. CASE qsPc' = "over" /\ UNCHANGED qsEvidence
  <2>1. \A t \in AllTasks : QsRowStep(t)
    BY <1>1 DEF QsRowStep
  <2> QED
    BY <1>1, <1>2, <1>3, <1>4, <1>6, <2>1, QuietStep DEF HeldPcs, UnrescuedPcs, FirstPcs
<1>5. CASE ~\E w \in QsWorkers : qsWorker[w].pc = "killed"
  <2> DEFINE names == Holding(\A t \in BulkTasks : qsRows[t].status = "SUCCEEDED",
                        "all_tasks_completed")
                     \cup Holding(\A t \in BulkTasks : qsRows[t].attempts = 1,
                             "exactly_once_execution")
                     \cup Holding(\A t \in BulkTasks : qsClaims[t] = 1, "no_double_claim")
  <2>1. qsPc' = "victim" /\ CheckedToo(names)
    BY <1>5 DEF JoinWorkers
  <2>2. PICK more : more = names
    OBVIOUS
  <2>3. CheckedToo(more)
    BY <2>1, <2>2
  <2>4. Rescued \notin qsEvidence.checks
    BY <1>1 DEF QsControlInv, UnrescuedPcs, FirstPcs
  <2>5. /\ "all_tasks_completed" \in more => \A t \in BulkTasks : qsRows[t].status = "SUCCEEDED"
        /\ "exactly_once_execution" \in more => \A t \in BulkTasks : qsRows[t].attempts = 1
        /\ "no_double_claim" \in more => \A t \in BulkTasks : qsClaims[t] = 1
        /\ more \subseteq BulkChecks
    BY <2>2 DEF Holding, BulkChecks
  <2> HIDE DEF names
  <2>6. /\ qsEvidence' = [commit |-> qsEvidence.commit, status |-> qsEvidence.status,
                          checks |-> qsEvidence.checks \cup more]
        /\ qsEvidence'.checks = qsEvidence.checks \cup more
    BY <1>1, <2>3, CheckAdds
  <2>7. Rescued \notin qsEvidence'.checks
    BY <2>4, <2>5, <2>6 DEF BulkChecks, Rescued
  <2>8. BulkChecks \subseteq qsEvidence'.checks => BulkChecks \subseteq more
    <3>1. qsEvidence.checks = {"postgres_available"}
      BY <1>1 DEF QsControlInv
    <3> QED
      BY <2>6, <3>1 DEF BulkChecks
  <2>9. BulkChecks \subseteq qsEvidence'.checks => \A t \in BulkTasks :
          /\ qsRows'[t].status = "SUCCEEDED"
          /\ \E w \in QsWorkers : qsHistory'[t] = <<w>>
    <3> SUFFICES ASSUME BulkChecks \subseteq qsEvidence'.checks, NEW t \in BulkTasks
                 PROVE  /\ qsRows'[t].status = "SUCCEEDED"
                        /\ \E w \in QsWorkers : qsHistory'[t] = <<w>>
      OBVIOUS
    <3>1. /\ t \in AllTasks /\ qsRows[t].status = "SUCCEEDED" /\ qsRows[t].attempts = 1
          /\ qsClaims[t] = 1
      BY <2>5, <2>8 DEF AllTasks, BulkChecks
    <3>2. \E w \in QsWorkers : qsHistory[t] = <<w>>
      BY <1>1, <3>1, OneClaim
    <3> QED
      BY <1>1, <3>1, <3>2
  <2>10. QsStage(qsPc, qsEvidence.checks)'
    BY <2>1, <2>7, <2>9 DEF QsStage, HeldPcs
  <2>11. QsControlInv'
    BY <1>1, <2>1, <2>6, <2>7 DEF QsControlInv
  <2> QED
    BY <1>2, <1>3, <1>6, <2>10, <2>11 DEF QsInv
<1> QED
  BY <1>4, <1>5 DEF JoinWorkers, SmokeFails

\* A step that leaves the workers of the first stage alone and claims nothing
\* but what it says.
LEMMA OthersHands ==
    ASSUME QsInv, UNCHANGED <<qsWorker, qsOutside>>, QsKeeps, NEW s \in {"victim", "rescuer"},
           QsClaimsOf(s),
           s = "rescuer" => qsHistory[VictimTask] # <<>> \/ qsClaiming'["rescuer"].task = QsNull,
           \/ qsHistory'[VictimTask] = qsHistory[VictimTask]
           \/ /\ qsHistory'[VictimTask] = Append(qsHistory[VictimTask], s)
              /\ s = "rescuer" => qsHistory[VictimTask] # <<>>,
           qsPc' = qsPc \/ qsPc' \notin FirstPcs
    PROVE  QsHandsInv'
<1> USE QueueSmokeAssumption
<1>1. qsOutside' \in Nat /\ qsOutside' >= qsOutside
  <2>1. qsOutside \in Nat
    BY DEF QsInv, QsTableInv, QsTypeOK
  <2> QED
    BY <2>1
<1>2. \/ qsHistory'[VictimTask] = qsHistory[VictimTask]
      \/ \E x \in QsWho :
           /\ qsHistory'[VictimTask] = Append(qsHistory[VictimTask], x)
           /\ x = "victim" \/ qsHistory[VictimTask] # <<>>
  <2>1. s \in QsWho /\ (s = "victim" \/ s = "rescuer")
    BY DEF QsWho
  <2> QED
    BY <2>1
<1>3. \A v \in QsSessions : qsClaiming'[v].task # QsNull =>
         \/ qsClaiming[v].task # QsNull
         \/ v = "victim"
         \/ v = "rescuer" /\ qsHistory[VictimTask] # <<>>
  BY DEF QsClaimsOf
<1>4. \A w \in QsWorkers : qsClaiming'[w].task # QsNull =>
         qsClaiming[w].task # QsNull /\ qsWorker'[w] = qsWorker[w]
  BY DEF QsClaimsOf, QsSessions
<1>5. (qsPc' \in FirstPcs => qsPc \in FirstPcs) /\ (qsPc' = "victim" => qsPc = "victim")
  BY DEF FirstPcs
<1> QED
  BY <1>1, <1>2, <1>3, <1>4, <1>5, HandsStep

\* The worker that dies, a process of its own, and the time that passes.
LEMMA VictimSteps ==
    ASSUME QsInv, VictimSelects \/ VictimDies \/ VictimGetsNothing \/ TimePasses
    PROVE  QsInv'
<1> USE QueueSmokeAssumption
<1>1. /\ QsTableInv /\ "victim" \in QsWho /\ ShortLease \in Nat /\ VictimTask \in AllTasks
      /\ UNCHANGED <<qsEvidence, qsReleased, qsClaims, qsPc, qsWorker, qsOutside>>
      /\ qsOutside' \in Nat /\ QsWorkerInv'
  <2>1. UNCHANGED <<qsEvidence, qsReleased, qsClaims, qsPc, qsWorker, qsOutside>>
    BY DEF VictimSelects, VictimDies, VictimGetsNothing, TimePasses, StaysOutside
  <2> QED
    BY <2>1 DEF QsInv, QsTableInv, QsTypeOK, QsWorkerInv, QsWho, AllTasks
<1>2. ASSUME UNCHANGED <<qsRows, qsHistory>>, QsTableInv', QsClaimsOf("victim")
      PROVE  QsInv'
  <2>1. (\A t \in AllTasks : QsRowStep(t)) /\ QsKeeps
    BY <1>2 DEF QsRowStep, QsKeeps
  <2>2. QsHandsInv'
    BY <1>1, <1>2, <2>1, OthersHands
  <2> QED
    BY <1>1, <1>2, <2>1, <2>2, QuietStep
<1>3. CASE VictimSelects
  <2>1. Queue(ShortLease)!ClaimSelect("victim", "victim") /\ UNCHANGED qsHistory
    BY <1>3 DEF VictimSelects
  <2>2. QsTableInv' /\ UNCHANGED qsRows /\ QsClaimsOf("victim")
    BY <1>1, <2>1, ClaimSelects
  <2> QED
    BY <1>2, <2>1, <2>2
<1>4. CASE VictimDies
  <2>1. Queue(ShortLease)!claim("victim") /\ Noted(qsClaiming["victim"].task, "victim")
    BY <1>4 DEF VictimDies
  <2>2. /\ QsTableInv' /\ QsKeeps /\ QsClaimsOf("victim")
        /\ qsHistory'[qsClaiming["victim"].task]
             = Append(qsHistory[qsClaiming["victim"].task], "victim")
        /\ \A t \in AllTasks \ {qsClaiming["victim"].task} : qsHistory'[t] = qsHistory[t]
        /\ \A t \in AllTasks : QsRowStep(t)
    BY <1>1, <2>1, ClaimCommits
  <2>3. QsHandsInv'
    BY <1>1, <2>2, OthersHands
  <2> QED
    BY <1>1, <2>2, <2>3, QuietStep
<1>5. CASE VictimGetsNothing
  <2>1. UNCHANGED qsHistory
    BY <1>5 DEF VictimGetsNothing
  <2>2. QsTableInv' /\ UNCHANGED qsRows /\ QsClaimsOf("victim")
    <3>1. CASE Queue(ShortLease)!Disconnect("victim")
      BY <1>1, <2>1, <3>1, Disconnects
    <3>2. CASE UNCHANGED qsQueue
      <4>1. UNCHANGED <<qsRows, qsClaiming, qsReaping, qsNow>>
        BY <3>2 DEF qsQueue
      <4> QED
        BY <1>1, <2>1, <4>1 DEF QsTableInv, QsTypeOK, QsClaimOf, QsTaskOf, QsClaimsOf
    <3> QED
      BY <1>5, <3>1, <3>2 DEF VictimGetsNothing
  <2> QED
    BY <1>2, <2>1, <2>2
<1>6. CASE TimePasses
  <2>1. /\ UNCHANGED <<qsHistory, qsRows, qsClaiming, qsReaping>> /\ qsNow' = qsNow + 1
    BY <1>6 DEF TimePasses, Queue!Tick
  <2>2. QsTableInv' /\ QsClaimsOf("victim")
    BY <1>1, <2>1 DEF QsTableInv, QsTypeOK, QsClaimOf, QsTaskOf, QsClaimsOf
  <2> QED
    BY <1>2, <2>1, <2>2
<1> QED
  BY <1>3, <1>4, <1>5, <1>6

\* The victim's task is in the table, when the workers of the first stage are
\* done.
LEMMA EnqueueVictimStep ==
    ASSUME QsInv, EnqueueVictimTask
    PROVE  QsInv'
<1>1. /\ QsTableInv /\ QsControlInv /\ QsHandsInv /\ VictimTask \in AllTasks
      /\ qsPc = "victim" /\ qsPc' = "look" /\ qsReleased = 0
      /\ UNCHANGED <<qsEvidence, qsReleased, qsClaims, qsWorker, qsOutside, qsHistory>>
      /\ qsOutside' \in Nat /\ QsWorkerInv'
  <2>1. /\ qsPc = "victim" /\ qsPc' = "look"
        /\ UNCHANGED <<qsEvidence, qsReleased, qsClaims, qsWorker, qsOutside, qsHistory>>
    BY DEF EnqueueVictimTask, StaysOutside
  <2> QED
    BY <2>1 DEF QsInv, QsTableInv, QsTypeOK, QsWorkerInv, AllTasks, QsControlInv
<1>2. PICK k \in {IdemKey, QsNull} : k = QsNull
  OBVIOUS
<1>3. Queue(LongLease)!enqueue(VictimTask, k, 3) /\ 3 \in Nat
  BY <1>2 DEF EnqueueVictimTask
<1>4. QsTableInv' /\ UNCHANGED qsClaiming /\ \A t \in AllTasks : QsRowStep(t)
  BY <1>1, <1>3, Enqueues
<1>5. QsHandsInv'
  <2>1. \A w \in QsWorkers : qsClaiming'[w].task = QsNull
    BY <1>1, <1>4 DEF QsHandsInv
  <2> QED
    BY <1>1, <1>4, <2>1 DEF QsHandsInv, FirstPcs
<1> QED
  BY <1>1, <1>4, <1>5, QuietStep DEF HeldPcs, UnrescuedPcs, FirstPcs

\* run_smoke goes on only when the task is in somebody's hands, and then sleeps.
LEMMA LookSteps ==
    ASSUME QsInv, LookAtVictim \/ SleepPastLease
    PROVE  QsInv'
<1> USE QueueSmokeAssumption
<1>1. /\ QsTableInv /\ QsControlInv /\ QsHandsInv /\ VictimTask \in AllTasks
      /\ qsPc \in {"look", "sleep"} /\ qsPc' \in {"sleep", "reap", "over"} /\ qsReleased = 0
      /\ UNCHANGED <<qsEvidence, qsReleased, qsClaims, qsWorker, qsOutside, qsHistory, qsRows,
                     qsClaiming, qsReaping>>
      /\ QsWorkerInv' /\ qsNow' \in Nat
  <2>1. /\ qsPc \in {"look", "sleep"} /\ qsPc' \in {"sleep", "reap", "over"}
        /\ UNCHANGED <<qsEvidence, qsReleased, qsClaims, qsWorker, qsOutside, qsHistory, qsRows,
                       qsClaiming, qsReaping>>
        /\ qsNow' = qsNow \/ qsNow' = qsNow + ShortLease + 1
    BY DEF LookAtVictim, SleepPastLease, SmokeFails, StaysOutside, qsQueue
  <2>2. qsNow \in Nat
    BY DEF QsInv, QsTableInv, QsTypeOK
  <2>3. qsNow' \in Nat
    BY <2>1, <2>2
  <2> QED
    BY <2>1, <2>3 DEF QsInv, QsWorkerInv, AllTasks, QsControlInv
<1>2. QsTableInv'
  BY <1>1 DEF QsTableInv, QsTypeOK, QsClaimOf, QsTaskOf
<1>3. QsHandsInv'
  BY <1>1 DEF QsHandsInv, FirstPcs
<1>4. QsStage(qsPc, qsEvidence.checks)'
  <2>1. qsPc' \in HeldPcs => qsHistory'[VictimTask] # <<>>
    <3>1. CASE LookAtVictim
      <4>1. qsPc' # "over" => qsRows[VictimTask].status = "RUNNING"
        BY <3>1 DEF LookAtVictim, SmokeFails
      <4>2. QsTaskOf(VictimTask)
        BY <1>1 DEF QsTableInv
      <4> QED
        BY <1>1, <4>1, <4>2 DEF QsTaskOf, HeldPcs
    <3>2. CASE SleepPastLease
      <4>1. qsPc \in HeldPcs
        BY <3>2 DEF SleepPastLease, HeldPcs
      <4> QED
        BY <1>1, <4>1 DEF QsInv, QsStage
    <3> QED
      BY <3>1, <3>2
  <2> QED
    BY <1>1, <2>1 DEF QsInv, QsStage
<1>5. QsControlInv'
  <2>1. Rescued \notin qsEvidence.checks
    BY <1>1 DEF QsControlInv, UnrescuedPcs, FirstPcs
  <2> QED
    BY <1>1, <2>1 DEF QsControlInv
<1> QED
  BY <1>1, <1>2, <1>3, <1>4, <1>5 DEF QsInv

\* The two statements of the smoke's own reap.
LEMMA ReapSteps ==
    ASSUME QsInv, ReapFirst \/ ReapSecond
    PROVE  QsInv'
<1>1. /\ QsTableInv /\ QsControlInv /\ VictimTask \in AllTasks /\ "reaper" \in QsSessions
      /\ UNCHANGED <<qsReleased, qsClaims, qsHistory, qsWorker, qsOutside>> /\ qsReleased = 0
      /\ qsPc \in {"reap", "reap2"} /\ Rescued \notin qsEvidence.checks
      /\ qsPc' \in {"reap2", "rescue"} /\ qsOutside' \in Nat /\ QsWorkerInv'
  <2>1. /\ UNCHANGED <<qsReleased, qsClaims, qsHistory, qsWorker, qsOutside>>
        /\ qsPc \in {"reap", "reap2"} /\ qsPc' \in {"reap2", "rescue"}
    BY DEF ReapFirst, ReapSecond, StaysOutside
  <2>2. QsWorkerInv'
    BY <2>1 DEF QsInv, QsWorkerInv
  <2>3. qsOutside' \in Nat
    BY <2>1 DEF QsInv, QsTableInv, QsTypeOK
  <2> QED
    BY <2>1, <2>2, <2>3 DEF QsInv, AllTasks, QsSessions, QsControlInv, UnrescuedPcs, FirstPcs
<1>2. /\ QsTableInv' /\ UNCHANGED qsClaiming /\ QsKeeps
      /\ \A t \in AllTasks : QsRowStep(t)
  <2>1. CASE ReapFirst
    <3>1. Queue(ShortLease)!ReapRequeue("reaper")
      BY <2>1 DEF ReapFirst
    <3> QED
      BY <1>1, <3>1, ReapsFirst
  <2>2. CASE ReapSecond
    <3>1. Queue(ShortLease)!ReapTimeOut("reaper")
      BY <2>2 DEF ReapSecond
    <3> QED
      BY <1>1, <3>1, ReapsSecond
  <2> QED
    BY <2>1, <2>2
<1>3. QsHandsInv'
  <2>1. QsClaimsOf("victim") /\ qsHistory'[VictimTask] = qsHistory[VictimTask]
    BY <1>1, <1>2 DEF QsClaimsOf
  <2>2. qsPc' \notin FirstPcs
    BY <1>1 DEF FirstPcs
  <2> QED
    BY <1>1, <1>2, <2>1, <2>2, OthersHands
<1>4. CASE ReapFirst
  <2>1. UNCHANGED qsEvidence
    BY <1>4 DEF ReapFirst
  <2> QED
    BY <1>1, <1>2, <1>3, <2>1, QuietStep DEF HeldPcs, UnrescuedPcs
<1>5. CASE ReapSecond
  <2>2. PICK names : CheckedToo(names) /\ names \subseteq {"killed_worker_lease_reaped"}
    <3> DEFINE reaped == qsReaped \cup {t \in AllTasks : qsRows'[t] # qsRows[t]}
    <3>1. CheckedToo(Holding(VictimTask \in reaped, "killed_worker_lease_reaped"))
      BY <1>5 DEF ReapSecond
    <3>2. Holding(VictimTask \in reaped, "killed_worker_lease_reaped")
             \subseteq {"killed_worker_lease_reaped"}
      BY DEF Holding
    <3> QED
      BY <3>1, <3>2
  <2>4. /\ qsEvidence' = [commit |-> qsEvidence.commit, status |-> qsEvidence.status,
                          checks |-> qsEvidence.checks \cup names]
        /\ qsEvidence'.checks = qsEvidence.checks \cup names
    BY <1>1, <2>2, CheckAdds
  <2>5. PICK p0, c0, p1, c1 : /\ p0 = qsPc /\ c0 = qsEvidence.checks
                              /\ p1 = qsPc' /\ c1 = qsEvidence'.checks
    OBVIOUS
  <2>6. QsStage(p0, c0)'
    <3>1. QsStage(p0, c0) /\ QsTypeOK
      BY <2>5 DEF QsInv, QsTableInv
    <3> QED
      BY <1>2, <3>1, StageStep
  <2>7. /\ BulkChecks \subseteq c1 => BulkChecks \subseteq c0
        /\ Rescued \in c1 => Rescued \in c0
    BY <2>2, <2>4, <2>5 DEF BulkChecks, Rescued
  <2>8. p0 \in HeldPcs /\ p1 # "start"
    BY <1>1, <2>5 DEF HeldPcs
  <2>9. QsStage(p1, c1)'
    BY <2>6, <2>7, <2>8, StageGoes
  <2>10. QsStage(qsPc, qsEvidence.checks)'
    BY <2>5, <2>9
  <2>11. QsControlInv'
    BY <1>1, <2>4, <2>5, <2>7 DEF QsControlInv
  <2> QED
    BY <1>1, <1>2, <1>3, <2>10, <2>11 DEF QsInv
<1> QED
  BY <1>4, <1>5

\* The rescuer, and the two enqueues of one key.
LEMMA RescueSteps ==
    ASSUME QsInv, RescuerSelects \/ RescuerClaims \/ EnqueueKey
    PROVE  QsInv'
<1> USE QueueSmokeAssumption
<1>1. /\ QsTableInv /\ QsControlInv /\ VictimTask \in AllTasks /\ "rescuer" \in QsWho
      /\ LongLease \in Nat /\ qsPc \in {"rescue", "rescue2", "key", "key2"}
      /\ UNCHANGED <<qsReleased, qsClaims, qsEvidence, qsWorker, qsOutside>> /\ qsReleased = 0
      /\ qsOutside' \in Nat /\ QsWorkerInv'
  <2>1. /\ UNCHANGED <<qsReleased, qsClaims, qsEvidence, qsWorker, qsOutside>>
        /\ qsPc \in {"rescue", "rescue2", "key", "key2"}
    BY DEF RescuerSelects, RescuerClaims, EnqueueKey, StaysOutside
  <2>2. QsWorkerInv'
    BY <2>1 DEF QsInv, QsWorkerInv
  <2>3. qsOutside' \in Nat
    BY <2>1 DEF QsInv, QsTableInv, QsTypeOK
  <2> QED
    BY <2>1, <2>2, <2>3 DEF QsInv, QsWho, AllTasks, QsControlInv
<1>2. qsHistory[VictimTask] # <<>> /\ qsRows[VictimTask].status # "ABSENT"
  <2>1. qsPc \in HeldPcs
    BY <1>1 DEF HeldPcs
  <2>2. QsTaskOf(VictimTask)
    BY <1>1 DEF QsTableInv
  <2> QED
    BY <2>1, <2>2 DEF QsInv, QsStage, QsTaskOf
<1>3. CASE RescuerSelects
  <2>1. qsPc = "rescue" /\ qsPc' \in {"rescue2", "over"} /\ UNCHANGED qsHistory
    BY <1>3 DEF RescuerSelects, SmokeFails
  <2>2. QsTableInv' /\ UNCHANGED qsRows /\ QsClaimsOf("rescuer")
    <3>1. CASE Queue(LongLease)!ClaimSelect("rescuer", "rescuer")
      BY <1>1, <2>1, <3>1, ClaimSelects
    <3>2. CASE UNCHANGED qsQueue
      <4>1. UNCHANGED <<qsRows, qsClaiming, qsReaping, qsNow>>
        BY <3>2 DEF qsQueue
      <4> QED
        BY <1>1, <2>1, <4>1 DEF QsTableInv, QsTypeOK, QsClaimOf, QsTaskOf, QsClaimsOf
    <3> QED
      BY <1>3, <3>1, <3>2 DEF RescuerSelects
  <2>3. (\A t \in AllTasks : QsRowStep(t)) /\ QsKeeps
    BY <2>1, <2>2 DEF QsRowStep, QsKeeps
  <2>4. QsHandsInv'
    <3>1. qsPc' \notin FirstPcs
      BY <2>1 DEF FirstPcs
    <3> QED
      BY <1>1, <1>2, <2>1, <2>2, <2>3, <3>1, OthersHands
  <2> QED
    BY <1>1, <2>1, <2>2, <2>3, <2>4, QuietStep DEF HeldPcs, UnrescuedPcs
<1>4. CASE RescuerClaims
  <2>1. /\ qsPc = "rescue2" /\ Queue(LongLease)!claim("rescuer")
        /\ Noted(qsClaiming["rescuer"].task, "rescuer")
        /\ qsPc' \in {"finish", "over"}
    BY <1>4 DEF RescuerClaims, SmokeFails
  <2>2. /\ QsTableInv' /\ QsKeeps /\ QsClaimsOf("rescuer")
        /\ qsHistory'[qsClaiming["rescuer"].task]
             = Append(qsHistory[qsClaiming["rescuer"].task], "rescuer")
        /\ \A t \in AllTasks \ {qsClaiming["rescuer"].task} : qsHistory'[t] = qsHistory[t]
        /\ \A t \in AllTasks : QsRowStep(t)
    BY <1>1, <2>1, ClaimCommits
  <2>3. QsHandsInv'
    <3>1. qsPc' \notin FirstPcs
      BY <2>1 DEF FirstPcs
    <3>2. \/ qsHistory'[VictimTask] = qsHistory[VictimTask]
          \/ qsHistory'[VictimTask] = Append(qsHistory[VictimTask], "rescuer")
      BY <1>1, <2>2
    <3> QED
      BY <1>1, <1>2, <2>2, <3>1, <3>2, OthersHands
  <2> QED
    BY <1>1, <2>1, <2>2, <2>3, QuietStep DEF HeldPcs, UnrescuedPcs
<1>5. CASE EnqueueKey
  <2>1. qsPc \in {"key", "key2"} /\ qsPc' \in {"key2", "count"} /\ UNCHANGED qsHistory
    BY <1>5 DEF EnqueueKey
  <2>2. /\ QsTableInv' /\ UNCHANGED qsClaiming /\ \A t \in AllTasks : QsRowStep(t)
        /\ qsRows[VictimTask].status = "ABSENT" => qsRows'[VictimTask].status = "ABSENT"
    <3>1. CASE \E t \in KeyTasks : Queue(LongLease)!enqueue(t, IdemKey, 1)
      <4>1. PICK u \in AllTasks : Queue(LongLease)!enqueue(u, IdemKey, 1)
        BY <3>1 DEF AllTasks
      <4>2. IdemKey \in {IdemKey, QsNull} /\ 1 \in Nat
        OBVIOUS
      <4> QED
        BY <1>1, <1>2, <2>1, <4>1, <4>2, Enqueues
    <3>2. CASE UNCHANGED qsQueue
      <4>1. UNCHANGED <<qsRows, qsClaiming, qsReaping, qsNow>>
        BY <3>2 DEF qsQueue
      <4> QED
        BY <1>1, <2>1, <4>1 DEF QsTableInv, QsTypeOK, QsClaimOf, QsTaskOf, QsRowStep
    <3> QED
      BY <1>5, <3>1, <3>2 DEF EnqueueKey
  <2>3. QsHandsInv'
    <3>1. QsHandsInv
      BY DEF QsInv
    <3>2. \A w \in QsWorkers : qsClaiming'[w].task = QsNull
      BY <1>2, <2>2, <3>1 DEF QsHandsInv
    <3> QED
      BY <1>1, <2>1, <2>2, <3>1, <3>2 DEF QsHandsInv, FirstPcs
  <2> QED
    BY <1>1, <2>1, <2>2, <2>3, QuietStep DEF HeldPcs, UnrescuedPcs, FirstPcs
<1> QED
  BY <1>3, <1>4, <1>5

\* A sequence of two entries.
LEMMA TwoEntries ==
    ASSUME NEW h \in Seq(QsWho), Len(h) = 2
    PROVE  h = <<h[1], h[2]>>
<1>1. h[1] \in QsWho /\ h[2] \in QsWho
  OBVIOUS
<1>2. PICK a \in QsWho, b \in QsWho : a = h[1] /\ b = h[2]
  BY <1>1
<1>3. <<a, b>> \in Seq(QsWho) /\ Len(<<a, b>>) = 2 /\ \A i \in 1 .. 2 : h[i] = <<a, b>>[i]
  BY <1>2
<1>4. h = <<a, b>>
  BY <1>3, SeqEqual
<1> QED
  BY <1>2, <1>4

\* The rescuer has finished the task.
LEMMA RescuedStep ==
    ASSUME QsInv, RescuerCompletes
    PROVE  QsInv'
<1>1. /\ QsTableInv /\ QsControlInv /\ VictimTask \in AllTasks /\ qsReleased = 0
      /\ UNCHANGED <<qsReleased, qsClaims, qsHistory, qsWorker, qsOutside>>
      /\ qsPc = "finish" /\ qsPc' = "key" /\ qsOutside' \in Nat /\ QsWorkerInv'
  <2>1. /\ UNCHANGED <<qsReleased, qsClaims, qsHistory, qsWorker, qsOutside>>
        /\ qsPc = "finish" /\ qsPc' = "key"
    BY DEF RescuerCompletes, StaysOutside
  <2>2. QsWorkerInv'
    BY <2>1 DEF QsInv, QsWorkerInv
  <2>3. qsOutside' \in Nat
    BY <2>1 DEF QsInv, QsTableInv, QsTypeOK
  <2> QED
    BY <2>1, <2>2, <2>3 DEF QsInv, AllTasks, QsControlInv
<1>2. /\ QsTableInv' /\ UNCHANGED qsClaiming /\ QsKeeps
      /\ qsRows[VictimTask].status = "RUNNING" /\ qsRows[VictimTask].lockedBy = "rescuer"
      /\ qsRows'[VictimTask].status = "SUCCEEDED"
      /\ qsRows'[VictimTask].attempts = qsRows[VictimTask].attempts
      /\ \A t \in AllTasks : QsRowStep(t)
  <2>1. Queue(LongLease)!complete(VictimTask, "rescuer")
    BY DEF RescuerCompletes
  <2> QED
    BY <1>1, <2>1, Completes
<1>3. QsHandsInv'
  <2>1. QsClaimsOf("victim") /\ qsHistory'[VictimTask] = qsHistory[VictimTask]
    BY <1>1, <1>2 DEF QsClaimsOf
  <2>2. qsPc' \notin FirstPcs
    BY <1>1 DEF FirstPcs
  <2> QED
    BY <1>1, <1>2, <2>1, <2>2, OthersHands
<1>4. qsRows'[VictimTask].attempts = 2 =>
         qsHistory'[VictimTask] = <<qsHistory'[VictimTask][1], "rescuer">>
  <2> SUFFICES ASSUME qsRows'[VictimTask].attempts = 2
               PROVE  qsHistory[VictimTask] = <<qsHistory[VictimTask][1], "rescuer">>
    BY <1>1
  <2>1. QsTaskOf(VictimTask) /\ qsHistory[VictimTask] \in Seq(QsWho)
    BY <1>1 DEF QsTableInv, QsTypeOK
  <2>2. Len(qsHistory[VictimTask]) = 2 /\ qsHistory[VictimTask][2] = "rescuer"
    BY <1>2, <2>1 DEF QsTaskOf
  <2> QED
    BY <2>1, <2>2, TwoEntries
<1>5. PICK names : names = Holding(qsRows'[VictimTask].attempts = 2, Rescued)
  OBVIOUS
<1>6. CheckedToo(names)
  BY <1>5 DEF RescuerCompletes, Rescued
<1>7. names \subseteq {Rescued} /\ (Rescued \in names => qsRows'[VictimTask].attempts = 2)
  BY <1>5 DEF Holding
<1>8. /\ qsEvidence' = [commit |-> qsEvidence.commit, status |-> qsEvidence.status,
                        checks |-> qsEvidence.checks \cup names]
      /\ qsEvidence'.checks = qsEvidence.checks \cup names
  BY <1>1, <1>6, CheckAdds
<1>9. PICK p0, c0, c1 : p0 = qsPc /\ c0 = qsEvidence.checks /\ c1 = qsEvidence'.checks
  OBVIOUS
<1>10. QsStage(p0, c0)'
  <2>1. QsStage(p0, c0) /\ QsTypeOK
    BY <1>9 DEF QsInv, QsTableInv
  <2> QED
    BY <1>2, <2>1, StageStep
<1>11. BulkChecks \subseteq c1 => BulkChecks \subseteq c0
  BY <1>7, <1>8, <1>9 DEF BulkChecks, Rescued
<1>12. Rescued \in c1 =>
        /\ qsRows'[VictimTask].status = "SUCCEEDED"
        /\ qsHistory'[VictimTask] = <<qsHistory'[VictimTask][1], "rescuer">>
  <2>1. Rescued \notin qsEvidence.checks
    BY <1>1 DEF QsControlInv, UnrescuedPcs
  <2> QED
    BY <1>2, <1>4, <1>7, <1>8, <1>9, <2>1
<1>13. p0 \in HeldPcs
  BY <1>1, <1>9 DEF HeldPcs
<1>14. QsStage(qsPc, qsEvidence.checks)'
  BY <1>1, <1>9, <1>10, <1>11, <1>12, <1>13 DEF QsStage
<1>15. QsControlInv'
  BY <1>1, <1>8 DEF QsControlInv, UnrescuedPcs, FirstPcs
<1> QED
  BY <1>1, <1>2, <1>3, <1>14, <1>15 DEF QsInv

\* The end of run_smoke.
LEMMA FinishStep ==
    ASSUME QsInv, FinishSmoke
    PROVE  QsInv'
<1>1. /\ QsTableInv /\ QsControlInv /\ QsHandsInv /\ qsReleased = 0
      /\ UNCHANGED <<qsReleased, qsClaims, qsHistory, qsWorker, qsOutside, qsRows, qsClaiming,
                     qsReaping, qsNow>>
      /\ qsPc = "count" /\ qsPc' = "over"
  BY DEF QsInv, QsControlInv, FinishSmoke, StaysOutside, qsQueue
<1>2. QsTableInv' /\ QsWorkerInv'
  <2>1. QsTableInv'
    BY <1>1 DEF QsTableInv, QsTypeOK, QsClaimOf, QsTaskOf
  <2> QED
    BY <1>1, <2>1 DEF QsInv, QsWorkerInv
<1>3. QsHandsInv'
  BY <1>1 DEF QsHandsInv, FirstPcs
<1>4. PICK names : names =
         Holding(Cardinality({t \in AllTasks : qsRows[t].key = IdemKey}) = 1,
                 "idempotency_dedupe_enforced")
  OBVIOUS
<1>5. PICK c, s, k, m, r :
        /\ c = qsEvidence.commit /\ s = qsEvidence.status /\ k = qsEvidence.checks
        /\ m = k \cup names
        /\ r = IF k \cup names = RequiredQueueChecks THEN "passed" ELSE "failed"
  OBVIOUS
<1>6. qsEvidence = [commit |-> c, status |-> s, checks |-> k]
  BY <1>1, <1>5 DEF QsControlInv
<1>7. qsEvidence' = [qsEvidence EXCEPT !.checks = m, !.status = r]
  BY <1>4, <1>5 DEF FinishSmoke
<1>8. qsEvidence' = [commit |-> c, status |-> r, checks |-> m]
  BY <1>6, <1>7
<1>9. names \subseteq {"idempotency_dedupe_enforced"}
  BY <1>4 DEF Holding
<1>10. /\ BulkChecks \subseteq m => BulkChecks \subseteq k
       /\ Rescued \in m => Rescued \in k
       /\ qsEvidence'.checks = m
  BY <1>5, <1>8, <1>9 DEF BulkChecks, Rescued
<1>11. QsStage(qsPc, qsEvidence.checks)'
  <2>1. QsStage("count", k)
    BY <1>1, <1>5 DEF QsInv
  <2> QED
    BY <1>1, <1>10, <2>1 DEF QsStage, HeldPcs
<1>12. QsControlInv'
  BY <1>1, <1>8 DEF QsControlInv, UnrescuedPcs, FirstPcs
<1> QED
  BY <1>2, <1>3, <1>11, <1>12 DEF QsInv

\* An exception in the parent, the readiness check, a commit.
LEMMA OtherQsSteps ==
    ASSUME QsInv, ParentFails \/ CheckQueueEvidence \/ CommitWhileSmoking
    PROVE  QsInv'
<1>1. /\ QsTableInv /\ QsControlInv /\ QsHandsInv /\ qsPc' \in {qsPc, "over"}
      /\ UNCHANGED <<qsWorker, qsClaims, qsHistory, qsRows, qsClaiming, qsReaping, qsNow,
                     qsEvidence, qsOutside>>
  BY DEF QsInv, ParentFails, SmokeFails, StaysOutside, CheckQueueEvidence, CommitWhileSmoking,
         qsQueue
<1>2. QsTableInv' /\ QsWorkerInv' /\ \A t \in AllTasks : QsRowStep(t)
  <2>1. QsTableInv'
    BY <1>1 DEF QsTableInv, QsTypeOK, QsClaimOf, QsTaskOf
  <2> QED
    BY <1>1, <2>1 DEF QsInv, QsWorkerInv, QsRowStep
<1>3. QsHandsInv' /\ QsKeeps
  BY <1>1 DEF QsHandsInv, FirstPcs, QsKeeps
<1>4. CASE CheckQueueEvidence
  <2>1. /\ qsPc = "over" /\ qsReleased' = qsEvidence.commit /\ UNCHANGED qsPc
        /\ RequiredQueueChecks \subseteq qsEvidence.checks
    BY <1>4 DEF CheckQueueEvidence, AcceptsQueueEvidence
  <2>2. QsControlInv'
    BY <1>1, <2>1 DEF QsControlInv
  <2>3. QsStage(qsPc, qsEvidence.checks)'
    <3>1. QsStage("over", qsEvidence.checks)
      BY <2>1 DEF QsInv
    <3> QED
      BY <1>1, <2>1, <3>1 DEF QsStage
  <2> QED
    BY <1>2, <1>3, <2>2, <2>3 DEF QsInv
<1>5. CASE ParentFails
  <2>1. qsPc' = "over" /\ qsPc \notin {"start", "over"} /\ UNCHANGED qsReleased
    BY <1>5 DEF ParentFails, SmokeFails, StaysOutside
  <2>2. qsReleased = 0
    BY <1>1, <2>1 DEF QsControlInv
  <2> QED
    BY <1>1, <1>2, <1>3, <2>1, <2>2, QuietStep DEF HeldPcs, UnrescuedPcs, FirstPcs
<1>6. CASE CommitWhileSmoking
  <2>1. UNCHANGED <<qsPc, qsReleased>>
    BY <1>6 DEF CommitWhileSmoking
  <2> QED
    BY <1>1, <1>2, <1>3, <2>1, QuietStep
<1> QED
  BY <1>4, <1>5, <1>6

\* QsInv is an invariant of the smoke of the queue.
THEOREM QueueSmokeInvariance == QueueSmokeSpec => []QsInv
<1> USE QueueSmokeAssumption
<1>1. QueueSmokeInit => QsInv
  <2> SUFFICES ASSUME QueueSmokeInit PROVE QsInv
    OBVIOUS
  <2>1. /\ qsPc = "start" /\ qsNow = 0 /\ qsReleased = 0 /\ qsOutside = 0
        /\ qsEvidence = [commit |-> 0, status |-> "failed", checks |-> {}]
        /\ qsRows = [t \in AllTasks |-> Queue(LongLease)!NoRow]
        /\ qsHistory = [t \in AllTasks |-> <<>>]
        /\ qsClaims = [t \in AllTasks |-> 0]
        /\ qsWorker = [w \in QsWorkers |-> [pc |-> "idle", task |-> QsNull, polls |-> 0]]
    BY DEF QueueSmokeInit, Queue!Init, NoQueueEvidence, IdleWorker
  <2>2. /\ qsClaiming = [s \in QsSessions |-> [task |-> QsNull, worker |-> QsNull,
                                               ts |-> 0, at |-> 0]]
        /\ qsReaping = [s \in QsSessions |-> QsNull]
    BY DEF QueueSmokeInit, Queue!Init, Queue!NoClaim, QsSessions
  <2>3. PICK none : none = Queue(LongLease)!NoRow
    OBVIOUS
  <2>4. none \in QsRow /\ none.status = "ABSENT" /\ none.attempts = 0
    <3>1. PICK no \in BOOLEAN : no = FALSE
      BY Zenon
    <3>2. none = [status |-> "ABSENT", key |-> QsNull, maxAttempts |-> 0, attempts |-> 0,
                  lockedBy |-> QsNull, enqueuedAt |-> 0, leaseExpiresAt |-> QsNull,
                  finished |-> no]
      BY <2>3, <3>1 DEF Queue!NoRow
    <3> QED
      BY <3>2 DEF QsRow
  <2>5. qsRows = [t \in AllTasks |-> none]
    BY <2>1, <2>3
  <2>6. QsTypeOK
    BY <2>1, <2>2, <2>4, <2>5 DEF QsTypeOK, QsClaim
  <2>7. \A s \in QsSessions : QsClaimOf(s)
    BY <2>2 DEF QsClaimOf
  <2>8. \A t \in AllTasks : QsTaskOf(t)
    <3>1. Len(<<>>) = 0
      OBVIOUS
    <3> QED
      BY <2>1, <2>4, <2>5, <3>1 DEF QsTaskOf
  <2>9. QsStage(qsPc, qsEvidence.checks)
    BY <2>1, <2>4, <2>5 DEF QsStage, HeldPcs, BulkChecks
  <2>10. QsControlInv
    BY <2>1 DEF QsControlInv
  <2>11. QsWorkerInv
    BY <2>1 DEF QsWorkerInv
  <2>12. QsHandsInv
    <3>1. VictimTask \in AllTasks /\ \A s \in QsSessions : qsClaiming[s].task = QsNull
      BY <2>2 DEF AllTasks
    <3>2. qsRows[VictimTask].status = "ABSENT" /\ qsHistory[VictimTask] = <<>>
      BY <2>1, <2>4, <2>5, <3>1
    <3> QED
      BY <2>1, <3>1, <3>2 DEF QsHandsInv, QsSessions
  <2> QED
    BY <2>6, <2>7, <2>8, <2>9, <2>10, <2>11, <2>12 DEF QsInv, QsTableInv
<1>2. QsInv /\ [QueueSmokeNext]_qsVars => QsInv'
  <2> SUFFICES ASSUME QsInv, [QueueSmokeNext]_qsVars PROVE QsInv'
    OBVIOUS
  <2>1. CASE QueueSmokeNext
    BY <2>1, ResetStep, JoinStep, WorkerStep, VictimSteps, EnqueueVictimStep, LookSteps,
       ReapSteps, RescueSteps, RescuedStep, FinishStep, OtherQsSteps, OutsiderStep
       DEF QueueSmokeNext
  <2>2. CASE UNCHANGED qsVars
    <3>1. UNCHANGED <<qsPc, qsWorker, qsClaims, qsHistory, qsRows, qsClaiming, qsReaping, qsNow,
                      qsEvidence, qsReleased, qsOutside>>
      BY <2>2 DEF qsVars, qsQueue
    <3> QED
      BY <3>1 DEF QsInv, QsTableInv, QsTypeOK, QsClaimOf, QsTaskOf, QsStage, QsControlInv,
                  QsHandsInv, QsWorkerInv
  <2> QED
    BY <2>1, <2>2
<1> QED
  BY <1>1, <1>2, PTL DEF QueueSmokeSpec

\* A queue release rests on what the smoke saw, however slow it was and whatever
\* lease somebody else on the table used: its own workers ran every task of the
\* first stage exactly once, and the rescuer finished a task that one other
\* claim had abandoned, the killed worker's unless somebody else took tasks.
THEOREM QueueEvidenceEarned == QueueSmokeSpec => []QueueEvidenceIsEarned
<1>1. QsInv => QueueEvidenceIsEarned
  <2> SUFFICES ASSUME QsInv, qsReleased # 0
               PROVE  /\ qsReleased = qsEvidence.commit
                      /\ \A t \in BulkTasks : \E w \in QsWorkers : qsHistory[t] = <<w>>
                      /\ \/ qsHistory[VictimTask] = <<"victim", "rescuer">>
                         \/ qsOutside > 0 /\ qsHistory[VictimTask] = <<"outsider", "rescuer">>
    BY DEF QueueEvidenceIsEarned
  <2>1. qsReleased = qsEvidence.commit /\ RequiredQueueChecks \subseteq qsEvidence.checks
    BY DEF QsInv, QsControlInv
  <2>2. BulkChecks \subseteq qsEvidence.checks /\ Rescued \in qsEvidence.checks
    BY <2>1 DEF RequiredQueueChecks, BulkChecks, Rescued
  <2>3. qsHistory[VictimTask] = <<qsHistory[VictimTask][1], "rescuer">>
    BY <2>2 DEF QsInv, QsStage
  <2>4. qsHistory[VictimTask] # <<>>
    BY <2>3
  <2>5. /\ qsHistory[VictimTask][1] \in {"victim", "outsider"}
        /\ qsHistory[VictimTask][1] = "outsider" => qsOutside > 0
    BY <2>4 DEF QsInv, QsHandsInv
  <2>6. \A t \in BulkTasks : \E w \in QsWorkers : qsHistory[t] = <<w>>
    BY <2>2 DEF QsInv, QsStage
  <2>7. \/ qsHistory[VictimTask] = <<"victim", "rescuer">>
        \/ qsOutside > 0 /\ qsHistory[VictimTask] = <<"outsider", "rescuer">>
    <3>1. CASE qsHistory[VictimTask][1] = "victim"
      BY <2>3, <3>1
    <3>2. CASE qsHistory[VictimTask][1] = "outsider"
      BY <2>3, <2>5, <3>2
    <3> QED
      BY <2>5, <3>1, <3>2
  <2> QED
    BY <2>1, <2>6, <2>7
<1> QED
  BY <1>1, QueueSmokeInvariance, PTL

\* The property of both smokes.  A commit is released only on a run of its own
\* code that read its content back and cleaned up after itself (unless somebody
\* raced it), no run says it has cleaned up when it has not, and the release of
\* the queue rests on tasks run once and a task that was rescued.
THEOREM EvidenceEarned == SmokeSpec /\ QueueSmokeSpec => []EvidenceIsEarned
<1>1. SmokeInv /\ QueueEvidenceIsEarned => EvidenceIsEarned
  <2> SUFFICES ASSUME SmokeInv, QueueEvidenceIsEarned PROVE EvidenceIsEarned
    OBVIOUS
  <2>1. \A r \in SmokeIds : smArtifacts[r].cleanup = "passed" =>
           smTruth[r].raced \/ ~smTruth[r].left
    BY DEF SmokeInv, ArtifactOf
  <2>2. smRelease # NoRelease =>
          /\ smRelease.run \in SmokeIds /\ smArtifacts[smRelease.run].cleanup = "passed"
          /\ smTruth[smRelease.run].code = smRelease.commit
          /\ smTruth[smRelease.run].readBack
    BY DEF SmokeInv, ReleaseInv, ArtifactOf
  <2> QED
    BY <2>1, <2>2 DEF EvidenceIsEarned
<1> QED
  BY <1>1, SmokeInvariance, QueueEvidenceEarned, PTL

-----------------------------------------------------------------------------
(* The token bucket of the server.                                          *)

GateSpec == GateInit /\ [][GateNext]_gateVars

GateTypeOK ==
    /\ gateNow \in Nat /\ gateUpdated \in 0 .. gateNow
    /\ gateTokens \in 0 .. Capacity
    /\ gateLog \in Seq([at : Nat, code : {200, 429}])
    /\ \A k \in DOMAIN gateLog : gateLog[k].at <= gateUpdated

\* Since an instant the bucket has given no more than it can hold and what it
\* has regained; what it still has counts too.
GaveAtMost(from) ==
    Admitted(from .. gateUpdated) * Minute + gateTokens
        <= Capacity + WriteLimit * (gateUpdated - from)

\* Since an instant it has given no less than it has regained, or than it can
\* hold when it has been full since.
GaveAtLeast(from) ==
    LET regained == WriteLimit * (gateUpdated - from + 1)
    IN  gateTokens + Admitted(from .. gateUpdated) * Minute
            >= IF regained < Capacity THEN regained ELSE Capacity

BucketInv ==
    /\ GateTypeOK
    /\ \A from \in Int : from <= gateUpdated => GaveAtMost(from) /\ GaveAtLeast(from)
    /\ WritesAreThrottled

GateInv == WriteLimit # 0 => BucketInv

-----------------------------------------------------------------------------
(* Counting the writes that were let through.                               *)

\* They are finitely many.
LEMMA AdmittedFinite ==
    ASSUME gateLog \in Seq([at : Nat, code : {200, 429}]), NEW T
    PROVE  /\ IsFiniteSet({k \in DOMAIN gateLog : gateLog[k].code = 200 /\ gateLog[k].at \in T})
           /\ Admitted(T) \in Nat
<1> DEFINE S == {k \in DOMAIN gateLog : gateLog[k].code = 200 /\ gateLog[k].at \in T}
<1>1. Len(gateLog) \in Nat /\ DOMAIN gateLog = 1 .. Len(gateLog)
  OBVIOUS
<1>2. IsFiniteSet(1 .. Len(gateLog))
  BY <1>1, FS_Interval
<1>3. S \subseteq 1 .. Len(gateLog)
  BY <1>1
<1>4. IsFiniteSet(S)
  BY <1>2, <1>3, FS_Subset
<1>5. Cardinality(S) \in Nat
  BY <1>4, FS_CardinalityType
<1> QED
  BY <1>4, <1>5 DEF Admitted

\* Every entry has the instant of its write.
LEMMA LogEntries ==
    ASSUME gateLog \in Seq([at : Nat, code : {200, 429}])
    PROVE  \A k \in DOMAIN gateLog : gateLog[k].at \in Nat
<1> DEFINE R == [at : Nat, code : {200, 429}]
<1> SUFFICES ASSUME NEW k \in DOMAIN gateLog PROVE gateLog[k].at \in Nat
  OBVIOUS
<1>1. gateLog \in Seq(R)
  OBVIOUS
<1> HIDE DEF R
<1>2. k \in 1 .. Len(gateLog)
  BY <1>1, LenProperties
<1>3. gateLog[k] \in R
  BY <1>1, <1>2, ElementOfSeq
<1> QED
  BY <1>3 DEF R

\* The count depends only on which instants of the log are asked for.
LEMMA AdmittedSame ==
    ASSUME NEW T, NEW U, \A k \in DOMAIN gateLog : gateLog[k].at \in T <=> gateLog[k].at \in U
    PROVE  Admitted(T) = Admitted(U)
<1>1. {k \in DOMAIN gateLog : gateLog[k].code = 200 /\ gateLog[k].at \in T}
        = {k \in DOMAIN gateLog : gateLog[k].code = 200 /\ gateLog[k].at \in U}
  OBVIOUS
<1> QED
  BY <1>1 DEF Admitted

\* A new element counts once.
LEMMA OneMore ==
    ASSUME NEW S, NEW x, IsFiniteSet(S), x \notin S
    PROVE  Cardinality(S \cup {x}) = Cardinality(S) + 1
  BY FS_AddElement

\* A write that is let through counts in the instants that hold its own, and a
\* write that is turned away counts nowhere.
LEMMA AdmittedAfter ==
    ASSUME gateLog \in Seq([at : Nat, code : {200, 429}]), gateNow \in Nat,
           NEW c \in {200, 429}, NEW T,
           gateLog' = Append(gateLog, [at |-> gateNow, code |-> c])
    PROVE  Admitted(T)' = Admitted(T) + (IF c = 200 /\ gateNow \in T THEN 1 ELSE 0)
<1> DEFINE S == {k \in DOMAIN gateLog : gateLog[k].code = 200 /\ gateLog[k].at \in T}
           S2 == {k \in DOMAIN gateLog' : gateLog'[k].code = 200 /\ gateLog'[k].at \in T}
           n == Len(gateLog)
<1>1. PICK e \in [at : Nat, code : {200, 429}] :
         e = [at |-> gateNow, code |-> c] /\ e.at = gateNow /\ e.code = c
  OBVIOUS
<1>2. /\ gateLog' \in Seq([at : Nat, code : {200, 429}]) /\ Len(gateLog') = n + 1
      /\ gateLog'[n + 1] = e /\ \A k \in 1 .. n : gateLog'[k] = gateLog[k]
  BY <1>1, AppendProperties
<1>3. n \in Nat /\ DOMAIN gateLog = 1 .. n /\ DOMAIN gateLog' = 1 .. (n + 1)
  BY <1>2
<1>4. 1 .. (n + 1) = (1 .. n) \cup {n + 1} /\ n + 1 \notin 1 .. n
  BY <1>3
<1>5. IsFiniteSet(S) /\ Admitted(T) = Cardinality(S) /\ Admitted(T)' = Cardinality(S2)
  BY AdmittedFinite DEF Admitted
<1> HIDE DEF n
<1>6. CASE c = 200 /\ gateNow \in T
  <2>1. S2 = S \cup {n + 1} /\ n + 1 \notin S
    BY <1>1, <1>2, <1>3, <1>4, <1>6
  <2> HIDE DEF S, S2
  <2>2. PICK last, old : last = n + 1 /\ old = S
    OBVIOUS
  <2>3. Cardinality(old \cup {last}) = Cardinality(old) + 1
    <3>1. IsFiniteSet(old) /\ last \notin old
      BY <1>5, <2>1, <2>2
    <3> QED
      BY <3>1, OneMore
  <2>4. Cardinality(S2) = Cardinality(S) + 1
    BY <2>1, <2>2, <2>3
  <2> QED
    BY <1>5, <1>6, <2>4
<1>7. CASE ~(c = 200 /\ gateNow \in T)
  <2>1. S2 = S
    BY <1>1, <1>2, <1>3, <1>4, <1>7
  <2>2. Admitted(T) \in Nat
    BY AdmittedFinite
  <2> HIDE DEF S, S2
  <2> QED
    BY <1>5, <1>7, <2>1, <2>2
<1> QED
  BY <1>6, <1>7

-----------------------------------------------------------------------------
(* The arithmetic of the bucket: L units regained in each unit of time, M     *)
(* for one write, C at most.                                                  *)

\* What a refill for d units of time and a write do to the upper bound.
LEMMA UpperGoesOn ==
    ASSUME NEW L \in Nat, NEW M \in Nat, NEW C \in Nat, NEW a \in Nat, NEW tk \in Int,
           NEW g \in {0, 1}, NEW upd \in Int, NEW now \in Int, NEW from \in Int,
           a * M + tk <= C + L * (upd - from),
           NEW rf \in Int, rf <= tk + (now - upd) * L
    PROVE  (a + g) * M + (rf - g * M) <= C + L * (now - from)
<1>1. (a + g) * M = a * M + g * M
  OBVIOUS
<1>2. L * (now - from) = L * (upd - from) + (now - upd) * L
  OBVIOUS
<1>3. /\ a * M \in Int /\ g * M \in Int /\ L * (upd - from) \in Int /\ (now - upd) * L \in Int
  OBVIOUS
<1> QED
  BY <1>1, <1>2, <1>3

\* And to the lower one.
LEMMA LowerGoesOn ==
    ASSUME NEW L \in Nat, NEW M \in Nat, NEW C \in Nat, NEW a \in Nat, NEW tk \in Int,
           NEW g \in {0, 1}, NEW upd \in Int, NEW now \in Int, NEW from \in Int, upd <= now,
           NEW x \in Int, NEW y \in Int, x = L * (upd - from + 1), y = L * (now - from + 1),
           tk + a * M >= IF x < C THEN x ELSE C,
           NEW rf \in Int, rf = IF tk + (now - upd) * L < C THEN tk + (now - upd) * L ELSE C
    PROVE  (rf - g * M) + (a + g) * M >= IF y < C THEN y ELSE C
<1>1. (a + g) * M = a * M + g * M
  OBVIOUS
<1>2. y = x + (now - upd) * L
  OBVIOUS
<1>3. /\ a * M \in Int /\ g * M \in Int /\ (now - upd) * L \in Int /\ a * M >= 0
      /\ (now - upd) * L >= 0
  <2>1. now - upd \in Nat
    OBVIOUS
  <2> QED
    BY <2>1
<1> QED
  BY <1>1, <1>2, <1>3

\* A bucket that has regained a full load and has less than one token left has
\* given at least the limit.
LEMMA GaveTheLimit ==
    ASSUME NEW L \in Nat, NEW M \in Nat \ {0}, NEW a \in Nat, NEW tk \in Int, tk < M,
           tk + a * M >= L * M
    PROVE  a >= L
<1> SUFFICES ASSUME a < L PROVE FALSE
  OBVIOUS
<1>1. a + 1 <= L
  OBVIOUS
<1>2. (a + 1) * M <= L * M
  BY <1>1
<1>3. (a + 1) * M = a * M + M
  OBVIOUS
<1>4. a * M \in Int /\ L * M \in Int
  OBVIOUS
<1> QED
  BY <1>2, <1>3, <1>4

-----------------------------------------------------------------------------
\* What a write of a key holder does, whether or not it is let through.
LEMMA GuardedWriteFacts ==
    ASSUME BucketInv, WriteLimit # 0, GuardedWrite, UNCHANGED gateNow
    PROVE  \E c \in {200, 429}, g \in {0, 1}, rf \in 0 .. Capacity :
             /\ c = 200 <=> g = 1
             /\ rf = Refilled
             /\ c = 429 => rf < Minute
             /\ gateTokens' = rf - g * Minute /\ gateTokens' \in 0 .. Capacity
             /\ gateUpdated' = gateNow
             /\ gateLog' = Append(gateLog, [at |-> gateNow, code |-> c])
<1> USE GateAssumption
<1>1. GateTypeOK
  BY DEF BucketInv
<1>2. Capacity \in Nat
  BY DEF Capacity
<1>3. (gateNow - gateUpdated) * WriteLimit \in Nat
  <2>1. gateNow - gateUpdated \in Nat
    BY <1>1 DEF GateTypeOK
  <2> QED
    BY <2>1
<1>4. Refilled \in 0 .. Capacity
  BY <1>1, <1>2, <1>3 DEF Refilled, GateTypeOK
<1>5. PICK rf \in 0 .. Capacity : rf = Refilled
  BY <1>4
<1>6. CASE Allow
  <2>1. /\ gateTokens' = rf - Minute /\ gateUpdated' = gateNow /\ rf >= Minute
        /\ gateLog' = Append(gateLog, [at |-> gateNow, code |-> 200])
    BY <1>5, <1>6 DEF GuardedWrite, SpendToken, AnswerWrite, Allow
  <2>2. rf - Minute = rf - 1 * Minute /\ rf - Minute \in 0 .. Capacity
    BY <1>2, <2>1
  <2> QED
    BY <1>5, <2>1, <2>2
<1>7. CASE ~Allow
  <2>1. /\ gateTokens' = rf /\ gateUpdated' = gateNow /\ rf < Minute
        /\ gateLog' = Append(gateLog, [at |-> gateNow, code |-> 429])
    BY <1>2, <1>5, <1>7 DEF GuardedWrite, SpendToken, AnswerWrite, Allow
  <2>2. rf = rf - 0 * Minute
    BY <1>2
  <2> QED
    BY <1>5, <2>1, <2>2
<1> QED
  BY <1>6, <1>7

\* It keeps both bounds.
LEMMA GuardedWriteStep ==
    ASSUME BucketInv, WriteLimit # 0, GuardedWrite, UNCHANGED gateNow
    PROVE  BucketInv'
<1> USE GateAssumption
<1>1. PICK c \in {200, 429}, g \in {0, 1}, rf \in 0 .. Capacity :
        /\ c = 200 <=> g = 1
        /\ rf = Refilled
        /\ c = 429 => rf < Minute
        /\ gateTokens' = rf - g * Minute /\ gateTokens' \in 0 .. Capacity
        /\ gateUpdated' = gateNow
        /\ gateLog' = Append(gateLog, [at |-> gateNow, code |-> c])
  BY GuardedWriteFacts
<1>2. /\ gateNow \in Nat /\ gateUpdated \in Nat /\ gateUpdated <= gateNow
      /\ gateTokens \in Int /\ gateTokens >= 0 /\ Capacity \in Nat /\ rf \in Int
      /\ gateLog \in Seq([at : Nat, code : {200, 429}])
      /\ \A k \in DOMAIN gateLog : gateLog[k].at \in Nat /\ gateLog[k].at <= gateUpdated
  <2>1. Capacity \in Nat
    BY DEF Capacity
  <2>2. GateTypeOK
    BY DEF BucketInv
  <2>3. \A k \in DOMAIN gateLog : gateLog[k].at \in Nat
    BY <2>2, LogEntries DEF GateTypeOK
  <2> QED
    BY <2>1, <2>2, <2>3 DEF GateTypeOK
<1>3. [at |-> gateNow, code |-> c] \in [at : Nat, code : {200, 429}]
  BY <1>2
<1>4. /\ gateLog' \in Seq([at : Nat, code : {200, 429}]) /\ Len(gateLog) \in Nat
      /\ Len(gateLog') = Len(gateLog) + 1
      /\ DOMAIN gateLog = 1 .. Len(gateLog) /\ DOMAIN gateLog' = 1 .. Len(gateLog')
      /\ gateLog'[Len(gateLog) + 1] = [at |-> gateNow, code |-> c]
      /\ \A k \in 1 .. Len(gateLog) : gateLog'[k] = gateLog[k]
  BY <1>1, <1>2, <1>3, AppendProperties
<1>5. \A k \in DOMAIN gateLog' :
         \/ k \in DOMAIN gateLog /\ gateLog'[k] = gateLog[k]
         \/ gateLog'[k].at = gateNow /\ gateLog'[k].code = c
  <2>1. \A k \in DOMAIN gateLog' : k \in 1 .. Len(gateLog) \/ k = Len(gateLog) + 1
    BY <1>4
  <2> QED
    BY <1>4, <2>1
<1>6. GateTypeOK'
  <2>1. \A k \in DOMAIN gateLog' : gateLog'[k].at <= gateNow
    BY <1>2, <1>5
  <2> QED
    BY <1>1, <1>2, <1>4, <2>1 DEF GateTypeOK
<1>7. \A T : Admitted(T)' = Admitted(T) + (IF c = 200 /\ gateNow \in T THEN 1 ELSE 0)
  BY <1>1, <1>2, AdmittedAfter
<1>8. \A T : Admitted(T) \in Nat
  BY <1>2, AdmittedFinite
<1>9. ASSUME NEW from \in Int, from <= gateNow
      PROVE  Admitted(from .. gateNow)' = Admitted(from .. gateUpdated) + g
  <2>1. Admitted(from .. gateNow) = Admitted(from .. gateUpdated)
    <3>1. PICK T, U : T = from .. gateNow /\ U = from .. gateUpdated
      OBVIOUS
    <3>2. \A k \in DOMAIN gateLog : gateLog[k].at \in T <=> gateLog[k].at \in U
      <4>1. \A k \in DOMAIN gateLog : gateLog[k].at \in Nat /\ gateLog[k].at <= gateUpdated
        BY <1>2, LogEntries
      <4> QED
        BY <1>2, <1>9, <3>1, <4>1
    <3>3. Admitted(T) = Admitted(U)
      BY <3>2, AdmittedSame
    <3> QED
      BY <3>1, <3>3
  <2>2. gateNow \in from .. gateNow
    BY <1>2, <1>9
  <2> QED
    BY <1>1, <1>7, <1>8, <2>1, <2>2
<1>10. /\ (gateNow - gateUpdated) * WriteLimit \in Nat
       /\ rf = IF gateTokens + (gateNow - gateUpdated) * WriteLimit < Capacity
               THEN gateTokens + (gateNow - gateUpdated) * WriteLimit ELSE Capacity
       /\ rf <= gateTokens + (gateNow - gateUpdated) * WriteLimit /\ rf <= Capacity
  <2>1. (gateNow - gateUpdated) * WriteLimit \in Nat
    <3>1. gateNow - gateUpdated \in Nat
      BY <1>2
    <3> QED
      BY <3>1
  <2>2. rf = IF gateTokens + (gateNow - gateUpdated) * WriteLimit < Capacity
               THEN gateTokens + (gateNow - gateUpdated) * WriteLimit ELSE Capacity
    BY <1>1 DEF Refilled
  <2> QED
    BY <1>2, <2>1, <2>2
<1>11. ASSUME NEW from \in Int, from > gateUpdated
       PROVE  Admitted(from .. gateUpdated) = 0
  <2>1. {k \in DOMAIN gateLog : gateLog[k].code = 200 /\ gateLog[k].at \in from .. gateUpdated}
          = {}
    BY <1>2, <1>11
  <2> QED
    BY <2>1, FS_EmptySet DEF Admitted
<1>12. ASSUME NEW from \in Int, from <= gateNow
       PROVE  GaveAtMost(from)'
  <2> DEFINE a == Admitted(from .. gateUpdated)
  <2>1. a \in Nat /\ Minute \in Nat /\ WriteLimit \in Nat
    BY <1>8
  <2>2. Admitted(from .. gateUpdated)' = a + g
    BY <1>1, <1>9, <1>12
  <2>3. (a + g) * Minute + (rf - g * Minute) <= Capacity + WriteLimit * (gateNow - from)
    <3>1. CASE from <= gateUpdated
      <4>1. a * Minute + gateTokens <= Capacity + WriteLimit * (gateUpdated - from)
        BY <3>1 DEF BucketInv, GaveAtMost
      <4> HIDE DEF a
      <4>2. gateUpdated \in Int /\ gateNow \in Int
        BY <1>2
      <4> QED
        BY <1>2, <1>10, <2>1, <4>1, <4>2, UpperGoesOn
    <3>2. CASE from > gateUpdated
      <4>1. a = 0
        BY <1>11, <3>2
      <4>2. (0 + g) * Minute + (rf - g * Minute) = rf
        BY <1>2, <2>1
      <4>3. WriteLimit * (gateNow - from) \in Nat
        <5>1. gateNow - from \in Nat
          BY <1>2, <1>12
        <5> QED
          BY <2>1, <5>1
      <4>4. rf <= Capacity + WriteLimit * (gateNow - from)
        BY <1>2, <1>10, <4>3
      <4> HIDE DEF a
      <4> QED
        BY <4>1, <4>2, <4>4
    <3> QED
      BY <1>2, <3>1, <3>2
  <2> QED
    BY <1>1, <2>2, <2>3 DEF GaveAtMost
<1>13. ASSUME NEW from \in Int, from <= gateNow
       PROVE  GaveAtLeast(from)'
  <2> DEFINE a == Admitted(from .. gateUpdated)
             x == WriteLimit * (gateUpdated - from + 1)
             y == WriteLimit * (gateNow - from + 1)
  <2>1. a \in Nat /\ Minute \in Nat /\ WriteLimit \in Nat /\ x \in Int /\ y \in Int
    BY <1>2, <1>8
  <2>2. Admitted(from .. gateUpdated)' = a + g
    BY <1>1, <1>9, <1>13
  <2>3. gateTokens + a * Minute >= IF x < Capacity THEN x ELSE Capacity
    <3>1. CASE from <= gateUpdated
      BY <3>1 DEF BucketInv, GaveAtLeast
    <3>2. CASE from > gateUpdated
      <4>1. a = 0
        BY <1>11, <3>2
      <4>2. x <= 0
        <5>1. PICK d \in Nat : gateUpdated - from + 1 = - d
          <6>1. from - gateUpdated - 1 \in Nat /\ gateUpdated - from + 1 = - (from - gateUpdated - 1)
            BY <1>2, <3>2
          <6> QED
            BY <6>1
        <5>2. WriteLimit * (- d) <= 0
          BY <2>1
        <5> QED
          BY <5>1, <5>2
      <4>3. 0 * Minute = 0
        BY <2>1
      <4> HIDE DEF a, x
      <4> QED
        BY <1>2, <2>1, <4>1, <4>2, <4>3
    <3> QED
      BY <1>2, <3>1, <3>2
  <2>4. (rf - g * Minute) + (a + g) * Minute >= IF y < Capacity THEN y ELSE Capacity
    <3>1. x = WriteLimit * (gateUpdated - from + 1) /\ y = WriteLimit * (gateNow - from + 1)
      OBVIOUS
    <3> HIDE DEF a, x, y
    <3>2. gateUpdated \in Int /\ gateNow \in Int
      BY <1>2
    <3> QED
      BY <1>2, <1>10, <2>1, <2>3, <3>1, <3>2, LowerGoesOn
  <2> QED
    BY <1>1, <2>2, <2>4 DEF GaveAtLeast
<1>14. WritesAreThrottled'
  <2>1. ASSUME NEW from \in 0 .. gateNow, NEW to \in from .. gateNow
        PROVE  (Admitted(from .. to) * Minute)' <= Capacity + WriteLimit * (to - from)
    <3>1. CASE to = gateNow
      <4>1. /\ Admitted(from .. gateNow)' * Minute + gateTokens'
                 <= Capacity + WriteLimit * (gateNow - from)
            /\ gateTokens' >= 0 /\ gateTokens' \in Int
        BY <1>1, <1>2, <1>12 DEF GaveAtMost
      <4>2. Admitted(from .. gateNow)' * Minute \in Int /\ WriteLimit * (gateNow - from) \in Int
        <5>1. Admitted(from .. gateNow)' \in Nat
          BY <1>7, <1>8
        <5> QED
          BY <1>2, <5>1
      <4> QED
        BY <1>2, <3>1, <4>1, <4>2
    <3>2. CASE to # gateNow
      <4>1. gateNow \notin from .. to
        BY <1>2, <3>2
      <4>2. Admitted(from .. to)' = Admitted(from .. to)
        BY <1>7, <1>8, <4>1
      <4> QED
        BY <4>2 DEF BucketInv, WritesAreThrottled
    <3> QED
      BY <3>1, <3>2
  <2>2. ASSUME NEW k \in DOMAIN gateLog', gateLog'[k].code = 429
        PROVE  Admitted((gateLog[k].at - Minute + 1) .. gateLog[k].at)' >= WriteLimit
    <3>1. CASE k \in DOMAIN gateLog /\ gateLog'[k] = gateLog[k]
      <4>1. Admitted((gateLog[k].at - Minute + 1) .. gateLog[k].at) >= WriteLimit
        BY <2>2, <3>1 DEF BucketInv, WritesAreThrottled
      <4>2. PICK T : T = (gateLog[k].at - Minute + 1) .. gateLog[k].at
        OBVIOUS
      <4>3. T = (gateLog'[k].at - Minute + 1) .. gateLog'[k].at
        BY <3>1, <4>2
      <4>4. Admitted(T)' >= Admitted(T) /\ Admitted(T)' \in Nat
        BY <1>7, <1>8
      <4>5. Admitted(T) >= WriteLimit
        BY <4>1, <4>2
      <4>6. Admitted(T)' >= WriteLimit
        BY <1>8, <4>4, <4>5
      <4> QED
        BY <4>3, <4>6
    <3>2. CASE gateLog'[k].at = gateNow /\ gateLog'[k].code = c
      <4> DEFINE from == gateNow - Minute + 1
                 a == Admitted(from .. gateNow)'
      <4>1. c = 429 /\ g = 0 /\ from \in Int /\ from <= gateNow
        BY <1>1, <1>2, <2>2, <3>2
      <4>2. gateNow - from + 1 = Minute
        BY <1>2
      <4>3. gateTokens' + a * Minute >= Capacity /\ Capacity = WriteLimit * Minute
        <5>1. GaveAtLeast(from)'
          BY <1>13, <4>1
        <5> QED
          BY <1>1, <1>2, <4>2, <5>1 DEF GaveAtLeast, Capacity
      <4>4. gateTokens' < Minute /\ gateTokens' \in Int
        BY <1>1, <1>2, <4>1
      <4>5. a \in Nat
        BY <1>7, <1>8
      <4> HIDE DEF a, from
      <4>6. a >= WriteLimit
        BY <4>3, <4>4, <4>5, GaveTheLimit
      <4> QED
        BY <3>2, <4>6 DEF a, from
    <3> QED
      BY <1>5, <3>1, <3>2
  <2> QED
    BY <2>1, <2>2 DEF WritesAreThrottled
<1> QED
  BY <1>1, <1>6, <1>12, <1>13, <1>14 DEF BucketInv

\* An answer the bucket has no part in, and the passing of time.
LEMMA QuietGateStep ==
    ASSUME BucketInv, UNCHANGED <<gateTokens, gateUpdated, gateLog>>,
           gateNow' = gateNow \/ gateNow' = gateNow + 1
    PROVE  BucketInv'
<1> USE GateAssumption
<1>1. GateTypeOK /\ WritesAreThrottled
  BY DEF BucketInv
<1>2. /\ gateNow \in Nat /\ gateNow' \in Nat /\ gateUpdated \in Nat /\ gateUpdated <= gateNow
      /\ Capacity \in Nat
      /\ gateLog \in Seq([at : Nat, code : {200, 429}])
      /\ \A k \in DOMAIN gateLog : gateLog[k].at <= gateUpdated
  <2>1. Capacity \in Nat
    BY DEF Capacity
  <2> QED
    BY <1>1, <2>1 DEF GateTypeOK
<1>3. \A k \in DOMAIN gateLog : gateLog[k].at \in Nat
  BY <1>2, LogEntries
<1>4. GateTypeOK'
  BY <1>1, <1>2 DEF GateTypeOK
<1>5. \A from \in Int : from <= gateUpdated' => GaveAtMost(from)' /\ GaveAtLeast(from)'
  BY DEF BucketInv, GaveAtMost, GaveAtLeast, Admitted
<1>6. ASSUME WriteLimit # 0, NEW from \in 0 .. gateNow', NEW to \in from .. gateNow'
      PROVE  (Admitted(from .. to) * Minute)' <= Capacity + WriteLimit * (to - from)
  <2>1. Admitted(from .. to)' = Admitted(from .. to)
    BY DEF Admitted
  <2>2. CASE to <= gateNow
    <3>1. from \in 0 .. gateNow /\ to \in from .. gateNow
      BY <1>2, <1>6, <2>2
    <3>2. Admitted(from .. to) * Minute <= Capacity + WriteLimit * (to - from)
      BY <1>1, <1>6, <3>1 DEF WritesAreThrottled
    <3> QED
      BY <2>1, <3>2
  <2>3. CASE to > gateNow /\ from <= gateNow
    <3>1. Admitted(from .. to) = Admitted(from .. gateNow)
      <4>1. from \in Nat /\ to \in Nat
        BY <1>2, <1>6
      <4>2. \A k \in DOMAIN gateLog :
               gateLog[k].at \in from .. to <=> gateLog[k].at \in from .. gateNow
        BY <1>2, <1>3, <2>3, <4>1
      <4>3. PICK T, U : T = from .. to /\ U = from .. gateNow
        OBVIOUS
      <4>4. Admitted(T) = Admitted(U)
        BY <4>2, <4>3, AdmittedSame
      <4> QED
        BY <4>3, <4>4
    <3>2. Admitted(from .. gateNow) * Minute <= Capacity + WriteLimit * (gateNow - from)
      BY <1>1, <1>2, <1>6, <2>3 DEF WritesAreThrottled
    <3>3. /\ WriteLimit * (gateNow - from) <= WriteLimit * (to - from)
          /\ WriteLimit * (gateNow - from) \in Int /\ WriteLimit * (to - from) \in Int
      BY <1>2, <2>3
    <3>4. Admitted(from .. gateNow) * Minute \in Int
      <4>1. Admitted(from .. gateNow) \in Nat
        BY <1>2, AdmittedFinite
      <4> QED
        BY <4>1
    <3> QED
      BY <1>2, <2>1, <3>1, <3>2, <3>3, <3>4
  <2>4. CASE from > gateNow
    <3>1. {k \in DOMAIN gateLog : gateLog[k].code = 200 /\ gateLog[k].at \in from .. to} = {}
      BY <1>2, <1>3, <2>4
    <3>2. Admitted(from .. to) = 0
      BY <3>1, FS_EmptySet DEF Admitted
    <3>3. WriteLimit * (to - from) \in Nat
      <4>1. to - from \in Nat
        BY <1>2, <1>6
      <4> QED
        BY <4>1
    <3>4. (Admitted(from .. to) * Minute)' = 0
      BY <2>1, <3>2
    <3>5. PICK x \in Nat : x = WriteLimit * (to - from)
      BY <3>3
    <3>6. Capacity + x >= 0
      BY <1>2
    <3> QED
      BY <3>4, <3>5, <3>6
  <2> QED
    BY <1>2, <2>2, <2>3, <2>4
<1>7. WritesAreThrottled'
  <2>1. WriteLimit # 0 => \A k \in DOMAIN gateLog' : gateLog'[k].code = 429 =>
           Admitted((gateLog[k].at - Minute + 1) .. gateLog[k].at)' >= WriteLimit
    BY <1>1 DEF WritesAreThrottled, Admitted
  <2> QED
    BY <1>6, <2>1 DEF WritesAreThrottled
<1> QED
  BY <1>4, <1>5, <1>7 DEF BucketInv

\* A process that has just been started has a full bucket and no writes yet.
FreshGate ==
    gateNow \in Nat /\ gateTokens = Capacity /\ gateUpdated = gateNow /\ gateLog = <<>>

\* Such a bucket keeps the bounds.
LEMMA FullBucket == FreshGate => BucketInv
<1> SUFFICES ASSUME FreshGate PROVE BucketInv
  OBVIOUS
<1> USE GateAssumption DEF FreshGate
<1>1. Capacity \in Nat
  BY DEF Capacity
<1>2. DOMAIN gateLog = {} /\ gateLog \in Seq([at : Nat, code : {200, 429}])
  OBVIOUS
<1>3. \A T : Admitted(T) = 0
  <2> TAKE T
  <2>1. {k \in DOMAIN gateLog : gateLog[k].code = 200 /\ gateLog[k].at \in T} = {}
    BY <1>2
  <2> QED
    BY <2>1, FS_EmptySet DEF Admitted
<1>4. GateTypeOK
  BY <1>1, <1>2 DEF GateTypeOK
<1>5. ASSUME NEW d \in Nat PROVE WriteLimit * d \in Nat
  OBVIOUS
<1>6. ASSUME NEW from \in Int, from <= gateUpdated
      PROVE  GaveAtMost(from) /\ GaveAtLeast(from)
  <2>1. WriteLimit * (gateUpdated - from) \in Nat /\ 0 * Minute = 0
    <3>1. gateUpdated - from \in Nat
      BY <1>6
    <3> QED
      BY <1>5, <3>1
  <2>2. WriteLimit * (gateUpdated - from + 1) \in Int
    OBVIOUS
  <2> QED
    BY <1>1, <1>3, <2>1, <2>2 DEF GaveAtMost, GaveAtLeast
<1>7. WritesAreThrottled
  <2>1. ASSUME NEW from \in 0 .. gateNow, NEW to \in from .. gateNow
        PROVE  Admitted(from .. to) * Minute <= Capacity + WriteLimit * (to - from)
    <3>1. WriteLimit * (to - from) \in Nat /\ 0 * Minute = 0
      <4>1. to - from \in Nat
        OBVIOUS
      <4> QED
        BY <1>5, <4>1
    <3> QED
      BY <1>1, <1>3, <3>1
  <2> QED
    BY <1>2, <2>1 DEF WritesAreThrottled
<1> QED
  BY <1>4, <1>6, <1>7 DEF BucketInv

\* In any stretch of time a process admits no more writes than the limit and what
\* the bucket regains in it, and it turns a write away only after it has admitted
\* the limit within the last minute: for every limit, every length of the minute,
\* every pattern of requests and restarts.
THEOREM Throttled == GateSpec => []WritesAreThrottled
<1> USE GateAssumption
<1>1. GateInit => GateInv
  <2> SUFFICES ASSUME GateInit PROVE BucketInv
    BY DEF GateInv
  <2> QED
    BY FullBucket DEF GateInit, FreshGate
<1>2. GateInv /\ [GateNext]_gateVars => GateInv' \/ FreshGate'
  <2> SUFFICES ASSUME GateInv, [GateNext]_gateVars, WriteLimit # 0
               PROVE  BucketInv' \/ FreshGate'
    BY DEF GateInv
  <2>1. BucketInv
    BY DEF GateInv
  <2>2. CASE \E kind \in {"health", "read", "write"}, key \in ApiKeys \cup WrongKeys,
               large \in BOOLEAN : Request(kind, key, large)
    <3>1. UNCHANGED gateNow
      BY <2>2 DEF Request
    <3>2. GuardedWrite \/ UNCHANGED <<gateTokens, gateUpdated, gateLog>>
      BY <2>2 DEF Request, Otherwise
    <3> QED
      BY <2>1, <3>1, <3>2, GuardedWriteStep, QuietGateStep
  <2>3. CASE GateTick
    BY <2>1, <2>3, QuietGateStep DEF GateTick
  <2>4. CASE GateRestart
    BY <2>1, <2>4 DEF GateRestart, BucketInv, GateTypeOK, FreshGate
  <2>5. CASE UNCHANGED gateVars
    BY <2>1, <2>5, QuietGateStep DEF gateVars
  <2> QED
    BY <2>2, <2>3, <2>4, <2>5 DEF GateNext
<1>3. GateInv => WritesAreThrottled
  BY DEF GateInv, BucketInv, WritesAreThrottled
<1>4. FreshGate => GateInv
  BY FullBucket DEF GateInv
<1> QED
  BY <1>1, <1>2, <1>3, <1>4, PTL DEF GateSpec
=============================================================================
