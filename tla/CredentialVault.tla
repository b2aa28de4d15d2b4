--------------------------- MODULE CredentialVault ---------------------------
(***************************************************************************)
(* credentials.py and credential_backends.py: the four credential vaults   *)
(* (process memory, a private JSON file, the OS keychain, a managed secret *)
(* service), used by processes that may die inside an operation.  A secret *)
(* is known by its handle.                                                 *)
(***************************************************************************)
EXTENDS Integers

CONSTANTS
    SecretHandles,       \* handle ids; each is handed out once (uuid4)
    Scopes,
    SecretLifetimes,     \* expires_at - now of a put
    VaultClients,        \* processes with the vault open
    NoExpiry,            \* expires_at = None
    MaxVaultTime         \* bound: the last instant of the clock

\* An empty scope is refused by every put; a handle is no name of a field.
ASSUME VaultAssumption ==
    /\ "" \notin Scopes /\ "scope" \notin SecretHandles
    /\ SecretLifetimes \subseteq Nat
    /\ NoExpiry \in Nat /\ MaxVaultTime < NoExpiry

VARIABLES
    vaultKind,       \* which vault this is
    vaultNow,
    vaultStored,     \* envelope per handle; or the file is truncated
    vaultCall,       \* per process: the file vault's load, change and save
    vaultPut,        \* history: what each handle was put with
    vaultRevoked,    \* history: handles that were revoked, or died with the process
    vaultBroken,     \* history: file operations overlapped, or one died while writing
    vaultDown,       \* the keychain is locked, or the managed service cannot be reached
    vaultKept        \* history: the keychain did not delete, and nobody was told

vaultVars == <<vaultKind, vaultNow, vaultStored, vaultCall, vaultPut, vaultRevoked,
               vaultBroken, vaultDown, vaultKept>>

NoEnvelope == [scope |-> "", expires |-> 0]
Truncated == [scope |-> "truncated"]
NoVaultCall == [pc |-> "idle", op |-> "none", handle |-> "none", data |-> Truncated]

VaultInit ==
    /\ vaultKind \in {"memory", "file", "keyring", "kv"}
    /\ vaultNow = 0
    /\ vaultStored = [h \in SecretHandles |-> NoEnvelope]
    /\ vaultCall = [w \in VaultClients |-> NoVaultCall]
    /\ vaultPut = [h \in SecretHandles |-> NoEnvelope]
    /\ vaultRevoked = {}
    /\ vaultBroken = FALSE
    /\ vaultDown = FALSE
    /\ vaultKept = {}

-----------------------------------------------------------------------------
\* get(handle, scope=scope) of the development vault.  The caller made the
\* handle from a dictionary, so the scope in it is his word; the one in the
\* envelope is the vault's.
MemoryGet(h, handleScope, scope) ==
    IF vaultStored[h] = NoEnvelope THEN "revoked"
    ELSE IF vaultStored[h].scope # scope \/ handleScope # scope THEN "scope"
    ELSE IF vaultNow > vaultStored[h].expires THEN "expired"
    ELSE "secret"

\* A locked keychain raises, as does a truncated file.
ReadRaises == vaultStored = Truncated \/ (vaultKind = "keyring" /\ vaultDown)

\* read_secret of the managed service: any error looks like a secret that was
\* revoked.
ReadSecret(h) == IF vaultDown THEN NoEnvelope ELSE vaultStored[h]

\* Defect: the scope the handle was put with is not compared.
BackendGet_AnyScope(h, handleScope, scope) ==
    IF ReadRaises THEN "error"
    ELSE IF ReadSecret(h) = NoEnvelope THEN "revoked"
    ELSE IF handleScope # scope THEN "scope"
    ELSE IF vaultNow > ReadSecret(h).expires THEN "expired"
    ELSE "secret"

\* get of the vaults over a store of envelopes.
BackendGet(h, handleScope, scope) ==
    IF ReadRaises THEN "error"
    ELSE IF ReadSecret(h) = NoEnvelope THEN "revoked"
    ELSE IF ReadSecret(h).scope # scope \/ handleScope # scope THEN "scope"
    ELSE IF vaultNow > ReadSecret(h).expires THEN "expired"
    ELSE "secret"

VaultGet(h, handleScope, scope) ==
    IF vaultKind = "memory" THEN MemoryGet(h, handleScope, scope)
    ELSE BackendGet(h, handleScope, scope)

Unused(h) == vaultPut[h] = NoEnvelope
Envelope(s, life) ==
    [scope |-> s, expires |-> IF life = NoExpiry THEN NoExpiry ELSE vaultNow + life]

\* put of the vaults whose write is one step; an empty scope is refused before it.
StoreSecret(h, envelope) ==
    /\ Unused(h)
    /\ vaultStored' = [vaultStored EXCEPT ![h] = envelope]
    /\ vaultPut' = [vaultPut EXCEPT ![h] = envelope]
    /\ UNCHANGED <<vaultKind, vaultCall, vaultRevoked, vaultBroken, vaultDown, vaultKept, vaultNow>>
PutMemory(h, s, life) == vaultKind = "memory" /\ StoreSecret(h, Envelope(s, life))
PutBackend(h, s, life) ==
    vaultKind \in {"keyring", "kv"} /\ ~vaultDown /\ StoreSecret(h, Envelope(s, life))

\* revoke.  The keychain vault suppresses every error of the deletion; the
\* managed service raises, and the caller knows.
Delete(h) ==
    /\ ~Unused(h)
    /\ vaultStored' = [vaultStored EXCEPT ![h] = NoEnvelope]
    /\ vaultRevoked' = vaultRevoked \cup {h}
    /\ UNCHANGED <<vaultKind, vaultCall, vaultPut, vaultBroken, vaultDown, vaultKept, vaultNow>>
RevokeMemory(h) == vaultKind = "memory" /\ Delete(h)
RevokeService(h) == vaultKind = "kv" /\ ~vaultDown /\ Delete(h)
RevokeKeyring(h) ==
    /\ vaultKind = "keyring" /\ ~Unused(h)
    /\ \/ ~vaultDown /\ Delete(h)
       \/ /\ vaultRevoked' = vaultRevoked \cup {h}
          /\ vaultKept' = vaultKept \cup {h}
          /\ UNCHANGED <<vaultKind, vaultStored, vaultCall, vaultPut, vaultBroken,
                         vaultDown, vaultNow>>

\* EnvFileCredentialVault: the whole file is read, changed, and written in
\* place (write_text truncates it first).
LoadFile(w, op, h, envelope) ==
    /\ vaultKind = "file" /\ vaultCall[w] = NoVaultCall
    /\ vaultStored # Truncated
    /\ Unused(h) = (op = "put")
    /\ vaultCall' = [vaultCall EXCEPT ![w] =
         [pc |-> "loaded", op |-> op, handle |-> h, data |-> [vaultStored EXCEPT ![h] = envelope]]]
    /\ vaultPut' = IF op = "put" THEN [vaultPut EXCEPT ![h] = envelope] ELSE vaultPut
    /\ vaultBroken' = (vaultBroken \/ \E v \in VaultClients : vaultCall[v] # NoVaultCall)
    /\ UNCHANGED <<vaultKind, vaultStored, vaultRevoked, vaultDown, vaultKept, vaultNow>>

TruncateFile(w) ==
    /\ vaultCall[w].pc = "loaded"
    /\ vaultStored' = Truncated
    /\ vaultCall' = [vaultCall EXCEPT ![w].pc = "truncated"]
    /\ UNCHANGED <<vaultKind, vaultPut, vaultRevoked, vaultBroken, vaultDown, vaultKept, vaultNow>>

SaveFile(w) ==
    /\ vaultCall[w].pc = "truncated"
    /\ vaultStored' = vaultCall[w].data
    /\ vaultRevoked' = IF vaultCall[w].op = "revoke" THEN vaultRevoked \cup {vaultCall[w].handle}
                       ELSE vaultRevoked
    /\ vaultCall' = [vaultCall EXCEPT ![w] = NoVaultCall]
    /\ UNCHANGED <<vaultKind, vaultPut, vaultBroken, vaultDown, vaultKept, vaultNow>>

\* The process dies: the development vault dies with it; a truncated file stays.
VaultCrash(w) ==
    \/ /\ vaultKind = "memory" /\ \E h \in SecretHandles : vaultStored[h] # NoEnvelope
       /\ vaultStored' = [h \in SecretHandles |-> NoEnvelope]
       /\ vaultRevoked' = {h \in SecretHandles : ~Unused(h)}
       /\ UNCHANGED <<vaultKind, vaultCall, vaultPut, vaultBroken, vaultDown, vaultKept, vaultNow>>
    \/ /\ vaultCall[w] # NoVaultCall
       /\ vaultCall' = [vaultCall EXCEPT ![w] = NoVaultCall]
       /\ vaultBroken' = (vaultBroken \/ vaultCall[w].pc = "truncated")
       /\ vaultPut' = IF vaultCall[w].op = "put"
                      THEN [vaultPut EXCEPT ![vaultCall[w].handle] = NoEnvelope] ELSE vaultPut
       /\ UNCHANGED <<vaultKind, vaultStored, vaultRevoked, vaultDown, vaultKept, vaultNow>>

\* Put and revoke raise while the service is away; put and get raise while the
\* keychain is locked, and its revoke does nothing.
VaultOutage ==
    /\ vaultKind \in {"keyring", "kv"}
    /\ vaultDown' = ~vaultDown
    /\ UNCHANGED <<vaultKind, vaultNow, vaultStored, vaultCall, vaultPut, vaultRevoked,
                   vaultBroken, vaultKept>>

VaultTick ==
    /\ vaultNow < MaxVaultTime
    /\ vaultNow' = vaultNow + 1
    /\ UNCHANGED <<vaultKind, vaultStored, vaultCall, vaultPut, vaultRevoked, vaultBroken, vaultDown, vaultKept>>

VaultNext ==
    \/ \E h \in SecretHandles :
         \/ \E s \in Scopes, life \in SecretLifetimes :
              \/ PutMemory(h, s, life) \/ PutBackend(h, s, life)
              \/ \E w \in VaultClients : LoadFile(w, "put", h, Envelope(s, life))
         \/ RevokeMemory(h) \/ RevokeKeyring(h) \/ RevokeService(h)
         \/ \E w \in VaultClients : LoadFile(w, "revoke", h, NoEnvelope)
    \/ \E w \in VaultClients : TruncateFile(w) \/ SaveFile(w) \/ VaultCrash(w)
    \/ VaultOutage
    \/ VaultTick

-----------------------------------------------------------------------------
\* A secret comes out of a vault only for the scope it was put with, before it
\* expires and until it is revoked, whoever asks with whatever handle; and it
\* does come out then.  The exceptions are the code's own: the file vault, when
\* two processes changed it at once or one died while writing; the keychain,
\* when it silently failed to delete; the keychain and the service, while they
\* cannot be reached.
SecretsAreLive ==
    \A h \in SecretHandles, s, t \in Scopes :
        /\ ~vaultBroken /\ h \notin vaultKept /\ ~vaultDown
        /\ \A w \in VaultClients : vaultCall[w] = NoVaultCall
        =>
          (VaultGet(h, t, s) = "secret" <=>
             /\ vaultPut[h].scope = s /\ t = s
             /\ h \notin vaultRevoked
             /\ vaultNow <= vaultPut[h].expires)
=============================================================================
