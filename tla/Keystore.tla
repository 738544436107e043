------------------------------ MODULE Keystore ------------------------------
(***************************************************************************)
(* Where private keys are kept: the file store (fs_adapter.rs), the Vault  *)
(* store (vault_adapter.rs) and the key files of keytool, which reads and  *)
(* rewrites them with the same temporary-file-and-rename protocol.         *)
(*                                                                         *)
(* A key file is a record: its format, the kind and the secret it holds,   *)
(* and the password it is encrypted under.  Callers run at the same time,  *)
(* a step of a write may fail, and a process may die between two steps,    *)
(* leaving its temporary file behind.                                      *)
(***************************************************************************)
EXTENDS Integers, FiniteSets, Sequences

CONSTANTS Ids,          \* entries of the file store
          ToolFiles,    \* key files keytool writes
          Callers,      \* processes and tasks using them
          Secrets,      \* key material
          StrongPasswords, \* passwords validate_password accepts
          StorePassword,   \* the one FsKeyStore::new_encrypted was given
          Production,   \* is_production()
          MaxCalls, MaxRetries,
          NoKey, Torn

VARIABLES files,    \* content of the store's and of keytool's files
          temps,    \* temporary files: owner and content
          caller,   \* what each caller is doing
          owned,    \* ghost: kind and secret the last put or generate stored
          overlapped, \* ghost: files replaced between a reader's read and write
          calls,
          vaultRow, \* the secret Vault holds
          vaultCall,\* the request in progress
          stray,    \* requests given up on that the server may still carry out
          possible  \* ghost: rows the answers given so far allow

fileVars == <<files, temps, caller, owned, overlapped, calls>>
vaultVars == <<vaultRow, vaultCall, stray, possible>>
keystoreVars == <<files, temps, caller, owned, overlapped, calls,
                  vaultRow, vaultCall, stray, possible>>

Kinds == {"ed25519", "bls"}
Formats == {"native", "eip2335", "web3", "plain"}
Locations == Ids \cup ToolFiles
KeyFile(format, kind, key, pw) == [format |-> format, kind |-> kind, key |-> key, pw |-> pw]

\* No key file is an absent or a torn one.
ASSUME KeystoreAssumption ==
  /\ NoKey # Torn
  /\ \A format \in Formats, kind \in Kinds, key \in Secrets,
        pw \in StrongPasswords \cup {StorePassword, "none"} :
       KeyFile(format, kind, key, pw) \notin {NoKey, Torn}

----------------------------------------------------------------------------
(* Formats *)

\* validate_format_compatibility
Compatible(kind, format) ==
  /\ format = "eip2335" => kind = "bls"
  /\ format = "web3" => kind = "ed25519"

\* validate_password
StrongPassword(pw) == pw \in StrongPasswords

\* decrypt of each format: a wrong password is caught by the MAC or checksum.
OpensNative(file, pw) == file.format = "native" /\ file.pw = pw
OpensEip2335(file, pw) == file.format = "eip2335" /\ file.pw = pw
OpensWeb3(file, pw) == file.format = "web3" /\ file.pw = pw
Opens(file, pw) == OpensNative(file, pw) \/ OpensEip2335(file, pw) \/ OpensWeb3(file, pw)

\* detect_and_decrypt: a raw entry is refused in production.
Decrypts(file, pw) ==
  /\ file \notin {NoKey, Torn}
  /\ Opens(file, pw) \/ (file.format = "plain" /\ ~Production)

\* decrypt_key_json reads the plaintext form in production too.
ToolDecrypts(file, pw) ==
  file \notin {NoKey, Torn} /\ (Opens(file, pw) \/ file.format = "plain")

\* serialize_key_json: what the tool writes for a key in a format.
ToolFile(format, kind, key, pw) ==
  KeyFile(format, kind, key, IF format = "plain" THEN "none" ELSE pw)

\* detect_key_type_from_json: the kind field, or the format's own version.
DetectedKind(file) ==
  CASE file.format = "eip2335" -> "bls"
    [] file.format = "web3" -> "ed25519"
    [] OTHER -> file.kind

----------------------------------------------------------------------------
(* One write: write_atomic and write_secure_file *)

Resting == [at |-> "idle", loc |-> "none", file |-> NoKey, read |-> FALSE]
Start(c, at, loc, file, read) ==
  /\ caller' = [caller EXCEPT ![c] = [at |-> at, loc |-> loc, file |-> file, read |-> read]]
  /\ calls' = calls + 1

\* Replacing or removing a file under a caller that read it and has not written.
Overtakes(c, loc) ==
  {l \in {loc} : \E o \in Callers \ {c} : caller[o].loc = l /\ caller[o].read}

OpenInPlace(c) ==
  /\ caller[c].at = "write"
  /\ files' = [files EXCEPT ![caller[c].loc] = Torn]
  /\ temps' = temps \cup {[owner |-> c, file |-> Torn]}
  /\ caller' = [caller EXCEPT ![c].at = "fill"]
  /\ UNCHANGED <<owned, overlapped, calls>>

\* create_new of a name with a fresh random suffix.
OpenTemp(c) ==
  /\ caller[c].at = "write"
  /\ temps' = temps \cup {[owner |-> c, file |-> Torn]}
  /\ caller' = [caller EXCEPT ![c].at = "fill"]
  /\ UNCHANGED <<files, owned, overlapped, calls>>

\* write_all, flush, sync_all
FillTemp(c) ==
  /\ caller[c].at = "fill"
  /\ temps' = (temps \ {[owner |-> c, file |-> Torn]})
                \cup {[owner |-> c, file |-> caller[c].file]}
  /\ caller' = [caller EXCEPT ![c].at = "rename"]
  /\ UNCHANGED <<files, owned, overlapped, calls>>

\* rename replaces the file in one step, and the call is acknowledged.
RenameTemp(c) ==
  LET call == caller[c] IN
  /\ call.at = "rename"
  /\ files' = [files EXCEPT ![call.loc] = call.file]
  /\ temps' = temps \ {[owner |-> c, file |-> call.file]}
  /\ owned' = IF call.read THEN owned
              ELSE [owned EXCEPT ![call.loc] = [kind |-> call.file.kind, key |-> call.file.key]]
  /\ overlapped' = overlapped \cup Overtakes(c, call.loc)
  /\ caller' = [caller EXCEPT ![c] = Resting]
  /\ UNCHANGED calls

\* An I/O error: the temporary file is removed and the error returned.
WriteFails(c) ==
  /\ caller[c].at \in {"fill", "rename"}
  /\ temps' = {t \in temps : t.owner # c}
  /\ caller' = [caller EXCEPT ![c] = Resting]
  /\ UNCHANGED <<files, owned, overlapped, calls>>

\* The process dies: its temporary file stays, hidden from list().
CallerDies(c) ==
  /\ caller[c].at # "idle"
  /\ temps' = {t \in temps : t.owner # c}
                \cup {[owner |-> "nobody", file |-> t.file] : t \in {x \in temps : x.owner = c}}
  /\ caller' = [caller EXCEPT ![c] = Resting]
  /\ UNCHANGED <<files, owned, overlapped, calls>>

----------------------------------------------------------------------------
(* The calls *)

Idle(c) == caller[c].at = "idle" /\ calls < MaxCalls

\* FsKeyStore::put with a password; KeyEntry::new has validated kind and secret.
Put(c, id, kind, key) ==
  /\ Idle(c)
  /\ Start(c, "write", id, KeyFile("native", kind, key, StorePassword), FALSE)
  /\ UNCHANGED <<files, temps, owned, overlapped>>

\* FsKeyStore::change_password: the entry is read and decrypted, and the file
\* written later from what was read.
ChangePassword(c, id, old, new) ==
  /\ Idle(c) /\ StrongPassword(new)
  /\ Decrypts(files[id], old)
  /\ Start(c, "write", id, KeyFile("native", files[id].kind, files[id].key, new), TRUE)
  /\ UNCHANGED <<files, temps, owned, overlapped>>

Delete(c, id) ==
  /\ Idle(c)
  /\ files' = [files EXCEPT ![id] = NoKey]
  /\ owned' = [owned EXCEPT ![id] = NoKey]
  /\ overlapped' = overlapped \cup Overtakes(c, id)
  /\ calls' = calls + 1
  /\ UNCHANGED <<temps, caller>>

\* handle_generate, handle_generate_batch and handle_mnemonic_derive
Generate(c, file, kind, format, key, pw) ==
  /\ Idle(c)
  /\ Compatible(kind, format)
  /\ IF format = "plain" THEN ~Production ELSE StrongPassword(pw)
  /\ Start(c, "write", file, ToolFile(format, kind, key, pw), FALSE)
  /\ UNCHANGED <<files, temps, owned, overlapped>>

\* handle_change_password keeps the detected kind and writes the native format.
ToolChangePassword(c, file, old, new) ==
  /\ Idle(c) /\ StrongPassword(new)
  /\ ToolDecrypts(files[file], old)
  /\ Start(c, "write", file,
           ToolFile("native", DetectedKind(files[file]), files[file].key, new), TRUE)
  /\ UNCHANGED <<files, temps, owned, overlapped>>

\* import-keystore: decrypt a key file and put it into the store.
ImportKeystore(c, file, id, pw) ==
  /\ Idle(c)
  /\ ToolDecrypts(files[file], pw)
  /\ Start(c, "write", id, KeyFile("native", DetectedKind(files[file]),
                                   files[file].key, StorePassword), FALSE)
  /\ UNCHANGED <<files, temps, owned, overlapped>>

----------------------------------------------------------------------------
(* Vault *)

NoCall == [op |-> "none", key |-> NoKey, attempt |-> 0]
Effect(call) == IF call.op = "delete" THEN NoKey ELSE call.key

BeginVaultCall(op, key) ==
  /\ vaultCall = NoCall /\ calls < MaxCalls
  /\ calls' = calls + 1
  /\ vaultCall' = [op |-> op, key |-> key, attempt |-> 1]
  /\ possible' = possible \cup {Effect(vaultCall')}
  /\ UNCHANGED <<vaultRow, stray, files, temps, caller, owned, overlapped>>

\* put_json and delete_url look at the status of the answer they get; after the
\* last attempt a server error is an answer too.
Answered(status) ==
  /\ vaultCall' = NoCall
  /\ possible' = IF status = "ok" THEN {Effect(vaultCall)} ELSE possible

\* send_with_retry: a server error or a network error is retried with a pause
\* until max_retries, and the request may or may not have been carried out; one
\* that timed out may still be on its way.
Retried ==
  IF vaultCall.attempt <= MaxRetries
  THEN vaultCall' = [vaultCall EXCEPT !.attempt = @ + 1] /\ UNCHANGED possible
  ELSE Answered("error")

VaultAttempt ==
  /\ vaultCall.op # "none"
  /\ \/ vaultRow' = Effect(vaultCall) /\ Answered("ok") /\ UNCHANGED stray
     \/ vaultRow' = Effect(vaultCall) /\ Retried /\ UNCHANGED stray
     \/ UNCHANGED <<vaultRow, stray>> /\ Retried
     \/ stray' = stray \cup {Effect(vaultCall)} /\ Retried /\ UNCHANGED vaultRow
  /\ UNCHANGED fileVars

StrayCarriedOut(row) ==
  /\ row \in stray
  /\ vaultRow' = row
  /\ stray' = stray \ {row}
  /\ possible' = possible \cup {row}
  /\ UNCHANGED <<vaultCall, files, temps, caller, owned, overlapped, calls>>

----------------------------------------------------------------------------
KeystoreInit ==
  /\ files = [l \in Locations |-> NoKey]
  /\ temps = {}
  /\ caller = [c \in Callers |-> Resting]
  /\ owned = [l \in Locations |-> NoKey]
  /\ overlapped = {}
  /\ calls = 0
  /\ vaultRow = NoKey /\ vaultCall = NoCall /\ stray = {} /\ possible = {NoKey}

FileCall(c) ==
  \/ \E id \in Ids, kind \in Kinds, key \in Secrets : Put(c, id, kind, key)
  \/ \E id \in Ids, old, new \in StrongPasswords : ChangePassword(c, id, old, new)
  \/ \E id \in Ids : Delete(c, id)
  \/ \E file \in ToolFiles, kind \in Kinds, format \in Formats, key \in Secrets,
        pw \in StrongPasswords : Generate(c, file, kind, format, key, pw)
  \/ \E file \in ToolFiles, old, new \in StrongPasswords :
       ToolChangePassword(c, file, old, new)
  \/ \E file \in ToolFiles, id \in Ids, pw \in StrongPasswords :
       ImportKeystore(c, file, id, pw)
  \/ OpenTemp(c) \/ FillTemp(c) \/ RenameTemp(c) \/ WriteFails(c) \/ CallerDies(c)

KeystoreNext ==
  \/ \E c \in Callers : FileCall(c) /\ UNCHANGED vaultVars
  \/ \E op \in {"put", "delete"}, key \in Secrets : BeginVaultCall(op, key)
  \/ VaultAttempt
  \/ \E row \in stray : StrayCarriedOut(row)

----------------------------------------------------------------------------
\* A private key is never lost to a crash, a failed write or a change of
\* password: every file is whole and holds the kind and secret last stored under
\* its name, unless a put, a generate or a delete replaced it between the read
\* and the write of a change of password; and when Vault's answers say a call
\* succeeded the row is the one it asked for, unless a request given up on was
\* carried out since.
KeysSurvive ==
  /\ \A l \in Locations :
       /\ files[l] # Torn
       /\ l \notin overlapped =>
            \/ files[l] = NoKey /\ owned[l] = NoKey
            \/ /\ files[l] # NoKey
               /\ owned[l] = [kind |-> DetectedKind(files[l]), key |-> files[l].key]
  /\ vaultRow \in possible
=============================================================================
