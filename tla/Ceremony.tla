------------------------------ MODULE Ceremony ------------------------------
(***************************************************************************)
(* The powers-of-tau ceremony behind the KZG commitments: ceremony.rs      *)
(* (init, contribute, verify), the SRS file functions of kzg.rs and the    *)
(* commands of the srs tool that call them, followed by the production     *)
(* node that pins the hash of the final file and loads it.                 *)
(*                                                                         *)
(* A group element is its discrete logarithm modulo Prime, so a pairing    *)
(* equation is an equation of products; the digest of a file is its        *)
(* content.  Participants run the tool at the same time over shared srsFiles, *)
(* a file being written is TornFile, and a run may die at any step.            *)
(***************************************************************************)
EXTENDS Integers, FiniteSets, Sequences, SequencesExt

CONSTANTS Participants, \* participant ids, each running the tool once
          Paths,        \* paths of SRS srsFiles
          FirstPath,    \* where ceremony-init writes
          Prime,        \* order of the groups
          DevTau,       \* DEV_TRAPDOOR_TAU
          MinParticipants,
          Absent, TornFile

VARIABLES srsFiles,      \* content of every path
          transcript, \* the transcript file: Absent, TornFile or a record
          run,        \* the participants' runs of ceremony-contribute
          secret,     \* ghost: the tau each run sampled, 0 before
          report,     \* what ceremony-finalize last read and answered
          srsNode     \* the node: its pin, its gate and the SRS it loaded

ceremonyVars == <<srsFiles, transcript, run, secret, report, srsNode>>

----------------------------------------------------------------------------
(* SRS values *)

Mod(n) == n % Prime

\* build_powers_of_tau: three powers stand for BRANCHING_FACTOR of them.
Powers(tau) == [g1 |-> <<1, Mod(tau), Mod(tau * tau)>>, g2Tau |-> Mod(tau)]

\* matches_dev_trapdoor_powers
IsDevTrapdoor(srs) == srs = Powers(DevTau)

\* load_srs_from_file: a torn file does not parse, a development file is refused.
Loadable(file) == file \notin {Absent, TornFile} /\ ~IsDevTrapdoor(file)

\* verify_srs_structure, its pairing checks taken to the exponents.
StructureOK(srs) ==
  /\ srs.g1[1] = 1
  /\ IF srs.g2Tau = 1 THEN srs.g1 = <<1, 1, 1>>
     ELSE /\ srs.g1[2] = srs.g2Tau
          /\ srs.g1[3] = Mod(srs.g1[2] * srs.g2Tau)
  /\ ~IsDevTrapdoor(srs)

\* The transformation of ceremony_contribute: the j-th power scales by tau^j.
Scaled(srs, tau) ==
  [g1 |-> [j \in 1..3 |-> Mod(srs.g1[j] * Powers(tau).g1[j])],
   g2Tau |-> Mod(srs.g2Tau * tau)]

----------------------------------------------------------------------------
(* Transcripts *)

HeadStateHash(t) == IF t.rounds = <<>> THEN t.init ELSE Last(t.rounds).new

ValidateChain(t) ==
  /\ IsInjective([i \in DOMAIN t.rounds |-> t.rounds[i].id])
  /\ \A i \in DOMAIN t.rounds :
       /\ t.rounds[i].prev = IF i = 1 THEN t.init ELSE t.rounds[i - 1].new
       /\ t.rounds[i].new # t.rounds[i].prev

Attestation(c) == <<c.prev, c.new, c.w, c.cumulative>>

\* The walk of ceremony_verify over the rounds.
RoundsChain(t) ==
  \A i \in DOMAIN t.rounds :
    LET c == t.rounds[i]
        before == IF i = 1 THEN 1 ELSE t.rounds[i - 1].cumulative
    IN  c.attestation = Attestation(c) /\ c.cumulative = Mod(before * c.w)

\* The checks of ceremony_verify that tie the final file to the transcript.
FinalMatches(t, srs, digest) ==
  /\ StructureOK(srs)
  /\ digest = HeadStateHash(t)
  /\ (IF t.rounds = <<>> THEN 1 ELSE Last(t.rounds).cumulative) = srs.g1[2]

----------------------------------------------------------------------------
NotRun == [at |-> "start", in |-> FirstPath, out |-> FirstPath,
           log |-> Absent, srs |-> Absent, prev |-> Absent]
NoReport == [at |-> "none", log |-> Absent, srs |-> Absent, path |-> FirstPath]
NoNode == [at |-> "down", pin |-> Absent, path |-> FirstPath, srs |-> Absent]

\* A path may hold a development SRS written by older tooling.
CeremonyInit ==
  /\ \E dev \in SUBSET (Paths \ {FirstPath}) :
       srsFiles = [p \in Paths |-> IF p \in dev THEN Powers(DevTau) ELSE Absent]
  /\ transcript = Absent
  /\ run = [p \in Participants |-> NotRun]
  /\ secret = [p \in Participants |-> 0]
  /\ report = NoReport
  /\ srsNode = NoNode

\* ceremony_init writes the generator-only SRS, then the empty transcript.
InitSrs ==
  /\ transcript = Absent /\ srsFiles[FirstPath] = Absent
  /\ srsFiles' = [srsFiles EXCEPT ![FirstPath] = Powers(1)]
  /\ UNCHANGED <<transcript, run, secret, report, srsNode>>

InitTranscript ==
  /\ transcript = Absent /\ srsFiles[FirstPath] = Powers(1)
  /\ transcript' = [init |-> srsFiles[FirstPath], rounds |-> <<>>]
  /\ UNCHANGED <<srsFiles, run, secret, report, srsNode>>

\* ceremony_contribute up to the participant check; the transcript is read once.
LoadTranscript(p, in, out) ==
  /\ run[p].at = "start"
  /\ transcript \notin {Absent, TornFile}
  /\ ValidateChain(transcript)
  /\ \A i \in DOMAIN transcript.rounds : transcript.rounds[i].id # p
  /\ run' = [run EXCEPT ![p] = [NotRun EXCEPT !.at = "load", !.in = in, !.out = out,
                                              !.log = transcript]]
  /\ UNCHANGED <<srsFiles, transcript, secret, report, srsNode>>

LoadIncoming(p) ==
  /\ run[p].at = "load"
  /\ LET srs == srsFiles[run[p].in] IN
     run' = [run EXCEPT ![p] = IF Loadable(srs) /\ StructureOK(srs)
                               THEN [@ EXCEPT !.at = "digest", !.srs = srs]
                               ELSE NotRun]
  /\ UNCHANGED <<srsFiles, transcript, secret, report, srsNode>>

\* srs_file_digest reads the input again; a secret is sampled and the output
\* file created.  write_srs_to_file refuses a development trapdoor.
TransformIncoming(p, tau) ==
  /\ run[p].at = "digest"
  /\ LET r == run[p]
         digest == srsFiles[r.in]
         out == Scaled(r.srs, tau)
     IN  IF digest = HeadStateHash(r.log) /\ ~IsDevTrapdoor(out)
         THEN /\ run' = [run EXCEPT ![p] = [@ EXCEPT !.at = "write", !.prev = digest,
                                                     !.srs = out]]
              /\ srsFiles' = [srsFiles EXCEPT ![r.out] = TornFile]
              /\ secret' = [secret EXCEPT ![p] = tau]
         ELSE /\ run' = [run EXCEPT ![p] = NotRun]
              /\ UNCHANGED <<srsFiles, secret>>
  /\ UNCHANGED <<transcript, report, srsNode>>

WriteOutput(p) ==
  /\ run[p].at = "write"
  /\ srsFiles' = [srsFiles EXCEPT ![run[p].out] = run[p].srs]
  /\ run' = [run EXCEPT ![p].at = "record"]
  /\ UNCHANGED <<transcript, secret, report, srsNode>>

\* The output is read back for its digest, and transcript.save truncates the
\* file before it writes the transcript that was read at the start.
RecordContribution(p) ==
  /\ run[p].at = "record"
  /\ LET r == run[p]
         new == srsFiles[r.out]
         c == [id |-> p, prev |-> r.prev, new |-> new, w |-> secret[p],
               cumulative |-> r.srs.g1[2]]
         signed == [id |-> p, prev |-> r.prev, new |-> new, w |-> secret[p],
                    cumulative |-> r.srs.g1[2], attestation |-> Attestation(c)]
     IN  run' = [run EXCEPT ![p] = [@ EXCEPT !.at = "save",
                                             !.log.rounds = Append(@, signed)]]
  /\ transcript' = TornFile
  /\ UNCHANGED <<srsFiles, secret, report, srsNode>>

SaveTranscript(p) ==
  /\ run[p].at = "save"
  /\ transcript' = run[p].log
  /\ run' = [run EXCEPT ![p] = [NotRun EXCEPT !.at = "done"]]
  /\ UNCHANGED <<srsFiles, secret, report, srsNode>>

\* The process dies; what it was writing stays torn, and it is not run again.
ContributorDies(p) ==
  /\ run[p].at \in {"load", "digest", "write", "record", "save"}
  /\ run' = [run EXCEPT ![p] = [NotRun EXCEPT !.at = "done"]]
  /\ UNCHANGED <<srsFiles, transcript, secret, report, srsNode>>

\* The export command: a single-party SRS, never the development one.
Export(path, tau) ==
  /\ tau # DevTau
  /\ srsFiles[path] = Absent /\ path # FirstPath
  /\ srsFiles' = [srsFiles EXCEPT ![path] = Powers(tau)]
  /\ UNCHANGED <<transcript, run, secret, report, srsNode>>

----------------------------------------------------------------------------
(* ceremony-finalize, and the node that is given its answer *)

FinalizeReads(path) ==
  /\ report.at = "none"
  /\ transcript \notin {Absent, TornFile}
  /\ ValidateChain(transcript) /\ Len(transcript.rounds) >= MinParticipants
  /\ Loadable(srsFiles[path])
  /\ report' = [at |-> "read", log |-> transcript, srs |-> srsFiles[path], path |-> path]
  /\ UNCHANGED <<srsFiles, transcript, run, secret, srsNode>>

\* The digest is taken from the file a second time.
CeremonyVerify ==
  /\ report.at = "read"
  /\ report' = IF /\ FinalMatches(report.log, report.srs, srsFiles[report.path])
                  /\ RoundsChain(report.log)
               THEN [report EXCEPT !.at = "verified"] ELSE NoReport
  /\ srsNode' = IF report'.at = "verified"
                THEN [srsNode EXCEPT !.pin = srsFiles[report.path]] ELSE srsNode
  /\ UNCHANGED <<srsFiles, transcript, run, secret>>

\* assert_production_srs_file, run by preflight against the pinned hash.
AssertProductionSrsFile(path) ==
  /\ srsNode.at = "down" /\ srsNode.pin # Absent
  /\ Loadable(srsFiles[path]) /\ srsFiles[path] = srsNode.pin
  /\ srsNode' = [srsNode EXCEPT !.at = "checked", !.path = path]
  /\ UNCHANGED <<srsFiles, transcript, run, secret, report>>

\* get_srs: the first commitment loads the file, without another look at the
\* pin; a file that does not load panics.
GetSrs ==
  /\ srsNode.at = "checked"
  /\ srsNode' = IF Loadable(srsFiles[srsNode.path])
                THEN [srsNode EXCEPT !.at = "up", !.srs = srsFiles[srsNode.path]]
                ELSE [srsNode EXCEPT !.at = "down"]
  /\ UNCHANGED <<srsFiles, transcript, run, secret, report>>

CeremonyNext ==
  \/ InitSrs \/ InitTranscript
  \/ \E p \in Participants :
       \/ \E in, out \in Paths : LoadTranscript(p, in, out)
       \/ LoadIncoming(p) \/ WriteOutput(p)
       \/ \E tau \in 1..(Prime - 1) : TransformIncoming(p, tau)
       \/ RecordContribution(p) \/ SaveTranscript(p) \/ ContributorDies(p)
  \/ \E path \in Paths :
       \/ FinalizeReads(path) \/ AssertProductionSrsFile(path)
       \/ Export(path, Prime - 1)
  \/ CeremonyVerify \/ GetSrs

----------------------------------------------------------------------------
RoundSecrets(t) == FoldLeft(LAMBDA acc, c : Mod(acc * secret[c.id]), 1, t.rounds)

\* Whatever the interleaving of contributors that share srsFiles, and whoever died
\* on the way: a ceremony that ceremony_verify accepts ends in an SRS whose tau
\* is the product of the secrets of exactly the participants it lists, enough of
\* them and each once; and a production node never runs the development trapdoor.
CeremonySound ==
  /\ report.at = "verified" =>
       /\ report.srs = Powers(RoundSecrets(report.log))
       /\ srsNode.pin = report.srs
       /\ Cardinality({report.log.rounds[i].id : i \in DOMAIN report.log.rounds})
            >= MinParticipants
  /\ srsNode.at = "up" => ~IsDevTrapdoor(srsNode.srs)
=============================================================================
