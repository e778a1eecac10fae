-------------------------------- MODULE Keys --------------------------------
(***************************************************************************)
(* The signing key and its file (internal/signing/signing.go) as the       *)
(* daemon and cmd/keygen use it.  Key k is the k-th key pair ever written  *)
(* completely; its version is a label its writer chose and no two keys     *)
(* need to differ in it.  The file holds one key: writing a new one leaves *)
(* HistoricalPublicKeys empty.                                             *)
(***************************************************************************)
EXTENDS Naturals, Sequences

CONSTANTS
    Version,        \* labels an operator passes to keygen
    V1,             \* "v1", the label the daemon uses
    MaxKeys,        \* bound: keys generated
    KeyFaults       \* which of the fault kinds below may happen

\* A file that is there cannot be read or unlocked; a write breaks off.
KeyFaultKinds == {"load", "write"}

ASSUME KeysAssumption ==
    /\ V1 \in Version
    /\ MaxKeys \in Nat
    /\ KeyFaults \subseteq KeyFaultKinds

VARIABLES
    versions,       \* the version of each key
    keyfile,        \* the key in the keyfile, NoKey if there is none or half of one
    daemonKey,      \* the key the daemon signs with, NoKey if it is not running
    replaced        \* history: a keyfile that held a key was overwritten

kvars == <<versions, keyfile, daemonKey, replaced>>

NoKey == 0
Key   == 1..Len(versions)

KTypeOK ==
    /\ versions \in Seq(Version)
    /\ keyfile \in Key \cup {NoKey}
    /\ daemonKey \in Key \cup {NoKey}
    /\ replaced \in BOOLEAN

KInit ==
    /\ versions = <<>>
    /\ keyfile = NoKey /\ daemonKey = NoKey
    /\ replaced = FALSE

\* GenerateAndSaveKeyfile: os.WriteFile truncates what is there and writes.
GenerateAndSave(v) ==
    /\ Len(versions) < MaxKeys
    /\ versions' = Append(versions, v)
    /\ keyfile' = Len(versions) + 1
    /\ replaced' = (replaced \/ keyfile # NoKey)

\* The write fails, or its process dies, after the truncation.
SaveBreaksOff ==
    /\ "write" \in KeyFaults
    /\ keyfile' = NoKey
    /\ replaced' = (replaced \/ keyfile # NoKey)
    /\ UNCHANGED versions

Keygen(v) == GenerateAndSave(v) /\ UNCHANGED daemonKey

KeygenFails == SaveBreaksOff /\ UNCHANGED daemonKey

\* LoadKeyfile succeeds.
LoadKey ==
    /\ daemonKey = NoKey /\ keyfile # NoKey
    /\ daemonKey' = keyfile
    /\ UNCHANGED <<versions, keyfile, replaced>>

\* Mutant: the daemon keeps the key it made in memory.
MutantKeyInMemory ==
    /\ daemonKey = NoKey /\ (keyfile = NoKey \/ "load" \in KeyFaults)
    /\ Len(versions) < MaxKeys
    /\ versions' = Append(versions, V1)
    /\ daemonKey' = Len(versions) + 1
    /\ UNCHANGED <<keyfile, replaced>>

\* LoadKeyfile fails, for whatever reason: main makes a new key.
InitializeKey ==
    /\ daemonKey = NoKey /\ (keyfile = NoKey \/ "load" \in KeyFaults)
    /\ GenerateAndSave(V1)
    /\ daemonKey' = Len(versions) + 1

\* That fails too and main gives up.
InitializeKeyFails ==
    /\ daemonKey = NoKey /\ (keyfile = NoKey \/ "load" \in KeyFaults)
    /\ SaveBreaksOff
    /\ UNCHANGED daemonKey

DaemonEnds ==
    /\ daemonKey # NoKey
    /\ daemonKey' = NoKey
    /\ UNCHANGED <<versions, keyfile, replaced>>

KNext ==
    \/ \E v \in Version : Keygen(v)
    \/ KeygenFails \/ LoadKey \/ InitializeKey \/ InitializeKeyFails \/ DaemonEnds

(***************************************************************************)
(* What a key manager makes of another's work.                             *)
(***************************************************************************)

\* The API server goes on with a key of its own, of version v1, if it cannot
\* load the keyfile.
MockKey == NoKey

VersionOf(k) == IF k = MockKey THEN V1 ELSE versions[k]

\* Verify, by a manager with key k, of a signature made with key s.
\* HistoricalPublicKeys is empty: a signature of another version is refused.
Verify(k, s) == VersionOf(k) = VersionOf(s) /\ k = s

\* Decrypt, by a manager with key k, of a field encrypted with key s.
Decrypt(k, s) == VersionOf(k) = VersionOf(s) /\ k = s
=============================================================================
