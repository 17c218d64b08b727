# Verification of Cantil

TLA+ modules for Cantil, a pocket certificate authority that is unlocked and
confirmed by taps, and for the host side that talks to it, with TLC
configurations and TLAPS proofs. `PROJECT.json` maps every definition to the lines
it models, lists the runs, the hazards each property is about, and a mutant for
every property: a plausible bug that the property rules out.

## The system and its parts

The firmware (`firmware/src/`) has one main thread, the cooperative system
workqueue, and a tap driver. The host has a library (`libcantil/src/`) and a
command line tool (`libcantil/cli/`). Both are built with `common/cbor`.

| part | source | modules |
| --- | --- | --- |
| gesture engine: lock, sequences, prompts, lockout | `gesture/gesture.c` | Gesture |
| main loop, dispatcher as a thread, tap-confirm pairing | `main.c`, `protocol/protocol.c`, `clients/pairing.c` | Protocol, Approval |
| CA engine over its files, CRL, chain walk | `ca/ca.c`, `storage/storage.c` | CaStore |
| files, volume marker, factory image | `storage/`, `firmware/factory/` | Files, Volume |
| identity of the device | `session/session_slot.c`, parts of `ca/ca.c` | SessionSlot |
| bonds and the pairing gate | `clients/` | ClientBond, Device |
| boot, session loop, wipe over all of the flash | `main.c`, `storage/storage.c` | Device |
| Noise session, USB port and ring, both ends | `session/session.c`, `transport/`, `libcantil/src/session.c`, `transport_usb.c` | Link, Channel |
| certificates in the handshake | the same `session.c` files | Chains |
| CBOR | `common/cbor/cantil_cbor.c` | Cbor |
| the library's calls and the dispatcher's cases | `libcantil/src/ca.c`, `device.c`, `clients.c`, `pairing.c`; `protocol/protocol.c` | Library, Dispatch, Wire |
| trust policy, key store, commands | `libcantil/src/trust.c`, `key_store.c`, `cli/main.c` | Host |

A tap goes from the driver to `gesture_report_tap`; silence, timed on the
workqueue, closes digits and sequences; `process_sequence` moves the state. The
main thread opens a session, gates each command on the state, and for a command
that needs the user registers a callback with the gesture engine and blocks on a
semaphore until the workqueue has run it. What a command then does is a series of
file writes on littlefs. The host opens the port, shakes hands, checks the
certificate it was shown against its policy, and sends one request at a time.

## Modules

* **Gesture**: one action per critical section of `gesture_mutex`.
  `gesture_report_tap` is two (`TapGate`, `TapAccumulate`), a handler that
  delivers an answer three (up to the unlock in `deliver_confirm`, `Callback`,
  `Relock`). Sequences are words; `INVALID` stands for all that hold
  DIGIT_INVALID. Clocks only say whether they ran out. `tapped_in` and `entered`
  are history.
* **Approval**: what the user is promised: an operation is carried out only
  after its sequence was tapped while it was being asked about.
* **Protocol** extends Gesture with the main thread (`pc` is where it stands), the
  semaphores, the peer, the wipe and reboots. One command stands for each way the
  dispatcher treats commands.
* **CaStore**: key slots and issued certificates as files. A handler reads when it
  starts and then has a list `todo` of file operations, applied one per step and
  ending with its reply; `Crash` may fall before or inside any of them, `Fails`
  makes one fail. External (littlefs): replacing a file is atomic, a new file may
  be left empty, `rm_rf` comes to the files of a directory by name. In what order
  `storage_issued_certs_iter` comes to the issued certificates is left open
  (`Listings`).
* **Files** has the same treatment of the flash for the rest of the device, with
  paths instead of slots and with the failure `write_file` does not see (it ignores
  the result of `fs_close`). **Volume** (mount, marker, adoption, format, factory
  image), **SessionSlot** (minting, recovery, signing, pushing the identity) and
  **ClientBond** build on it, and **Device** puts them together: it boots, applies
  the pairing gate of one of six builds, runs the commands that write, is wiped,
  reflashed, unplugged, and loses power anywhere. `approved`, `wipe_cut` and
  `fresh` are history. The build is part of the state, chosen in Init.
* **Link**: a frame is a record, a transcript is the sequence of what was mixed
  into it, and a frame opens exactly under what it was sealed with. The ring
  drops what does not fit and leaves a torn frame; the host may time out, close
  or open the port at any time; the device answers late, twice (a refused reset)
  or never. **Channel** is what a session promises the code above it; that Link
  implements it is checked and proved.
* **Cbor**: a buffer is a sequence of fields, each a run of `w` bytes written as
  one value, so lengths and offsets are exact and payloads are opaque.
  **Library** has each call's checks, request, scratch buffer and reading of the
  response; **Dispatch** each case of the dispatcher's switch; **Chains** messages
  2 and 3. **Wire** composes them: one call, at each of the lengths where either
  end decides differently, through both codecs and back.
* **Host**: a run of the command line tool is a series of steps over the files of
  the key store; it can be killed between any two, and devices are swapped,
  reset and re-signed between runs.
* **GestureProofs**, **ProtocolProofs**, **LinkProofs**, **LinkAnswers**,
  **HostProofs** and **CaStoreProofs**: theorems. **LinkFrames** holds the invariant
  of Link and lemmas of LinkProofs, **CaStoreSteps** the invariant of CaStore and what the file operations
  do to it. **MCGesture**, **MCProtocol**, **MCDevice**, **MCHost**: constants for TLC.

CaStore and Device split the flash: the files of the CA beyond the presence of the
CA key are CaStore's, all others Device's; both have the wipe. Protocol and
Dispatch split the dispatcher: Protocol has its blocking and interleavings,
Dispatch its data. RESET_DEVICE and SET_UNLOCK_SEQ are only in Protocol (the
library has no call that completes the one or sends the other).

Operators commented "Mutant" are deliberately wrong variants of the definition
after them; each is what one property rules out.

## Runs

| run | properties | bounds, and why they are enough |
| --- | --- | --- |
| gesture | 7 properties of Gesture with the main thread calling freely | 7 words with a user's own and the rehearsal sequences, 3 failures with the threshold at 1, so two lockout tiers and their race happen |
| protocol | `Rendezvous`: no lost or left-over wakeup; `ImplementsApproval` | 4 words; confirm and change-sequence share one, as in the code; valid and mismatched volume |
| protocol_live | `CommandEnds`: every command is answered or its session ends | 2 words, unmarked volume, identity recovery on and off |
| ca_store | no certificate without a record, no key lost but on purpose, flags that only grow, revocations that reach the CRL, a certificate completed at boot, keys gone before the lock in a wipe; `ChainEndsAtRoot` | 2 slots, 2 keys, 2 serials, 6 commands, 1 fault anywhere: enough to provision, sign (each slot the other), revoke, expire and protect the same certificate, delete or wipe |
| device | `OneIdentity`, `AcceptedWasApproved`, `FaultsLeaveOneBondEach`, `ResetRecovers`, `CaKeyLostOnlyByWipe` | every pairing method, volume and build option in eight set-ups; 2 clients for one bond, so the cap is met; 2 faults, so that a recovery is interrupted too; 2 commands |
| link | `OrderedChannel` (refinement), `AnswersItsRequest`, `FreshHandshakeWorks`, `DeviceComesBack` | 2 handshakes, so that one meets what the other left; 3 requests: one given up, one answered late, one after; a ring of 2 frames that overflows |
| host | `TrustHolds`, `ClientKeyKept`, `ProvisionCompletes` | 2 units (symmetric), 3 kinds of certificate, 3 runs (pair, disturb, use), 1 kill |
| wire | `CallsArriveIntact`, `ReportsTheOutcome`, `ListsAreWhole`, `RepliesFit`, `ChainsArrive` | for each argument and result the lengths 0, 1, the limits of either end and one beyond |

`MaxFailures`, `MaxKeys`, `MaxSerials`, `MaxCrls`, `MaxCommands`, `MaxFaults`,
`MaxOpens`, `MaxRequests`, `MaxRuns` and `MaxKills` are the only caps. Deadlock is
checked in `device` and `wire`; elsewhere the user, the peer and the bounded host
may stop.

Some properties have a premise, because the code makes no more of it.
`OneIdentity` leaves out a wipe that was cut (its order of removal can leave an old
`meta.bin`) and a failure the code did not see. `FaultsLeaveOneBondEach` counts one
half-written bond per fault, since nothing cleans them up. `AnswersItsRequest`
holds until the host gives a request up: all requests carry the same sequence
number, so the late answer is then taken for the next one's. `TrustHolds` speaks of
units whose files no later run left unfinished.

### Where code and documentation disagree

Four runs end in a counterexample; `findings` quotes the lines.

* `lockout_gate`: a tap already past the gate is judged during a lockout.
* `device_chain`: SIGN_SESSION_FROM_SLOT leaves the chain of an earlier push beside
  the certificate it writes.
* `link_drain`: the drain before a request can take a frame of the session it is
  in (the second answer to a refused reset), after which the nonces of the two
  ends differ.
* `wire_errors`: SIGN_CSR that fails leaves the response length at the size of the
  buffer; the response cannot be encoded and the session is closed instead.

Observed while modelling, and part of the models, without a run of their own:

* PAIRING has no timer and is left only by a restart; a reset is confirmed with the
  user's unlock sequence; CA commands run before a sequence was ever set; a new
  session restarts an inactivity timer that had run out and was not looked at.
* The first revocation leaves the CRL number at 1; certificates issued after
  PROTECT_SLOT are not protected; a CRL of more than 64 entries is cut.
* The limits for random bytes are 4096 in `cantil.h`, 4080 in the library and 4077
  in what the device can encode; successful answers of 4078 to 4094 bytes close
  the session, as `wire_errors` does.
* `cantil_push_session_cert` accepts 3000 bytes, its request buffer holds 2016.
* `cantil_fw_update` cannot succeed: the device restarts into its boot loader at
  BEGIN, and a full chunk exceeds a request.
* A session certificate of more than 1024 bytes is presented cut, a chain of more
  than four certificates without its end.
* A map key the decoder does not know is skipped (`docs/ca/01-cbor-foundation.md`
  says so; a comment in `cantil_cbor.c` says rejected).

### Fairness

In Protocol the workqueue is a cooperative thread and kernel timers expire, so
callbacks, the relock and prompt timeouts are weakly fair; the main thread is
weakly fair when not blocked. In Link the device is weakly fair: its main thread
polls DTR and runs, and a prompt it waits in ends, which is what `CommandEnds`
shows. User, host, tap driver and flash owe nothing.

## Proofs

`GestureProofs` proves, for all words, host sequences, thresholds and build
options, `GSpec => []GInv` and from it `TypeOK`, `PromptBacked`,
`PromptTapsAreFresh`, `UnlockedOnlyAfterSequence` and `LockoutMatchesCount`; and
separately `FlashAgreesWithRam` and `RampOnlyClearedByUnlock`. Assumed:
the fixed sequences are words, `INVALID` and `NoSeq` are not, thresholds are
naturals (`SequenceAssumption`, `ConfigAssumption`).

`GInv` adds two facts to the properties. `EmptyBufHasNoTaps`: a prompt clears the
accumulator, so freshness starts from an empty history. `SequenceAtHand`: a
sequence about to be closed has digits and `CHANGE_SEQ_VERIFY` has a candidate,
without which the types are not inductive. `UnlockedOnlyAfterSequence` rests on
the state a prompt returns to being the one it was opened in. There is one lemma
per conjunct and one step per action.

`LinkProofs` proves that Link implements Channel (`LinkSpec => OrderedChannel`) and
`LinkSpec => []LinkTypeOK`, for any size of the ring and any number of handshakes
and requests. Assumed: the bounds are naturals, the ring holds a frame, and `None`
is neither a session nor a request (`LinkAssumption`). The argument:

* a transport frame in flight is on record: its nonce is its place in what its
  sender sent under its key (`Recorded`);
* the nonces of an open session are the lengths of its logs (`Counted`), so a frame
  that opens is the next one the peer sent, which is Channel's `Accept`;
* `Counted` starts true because a key is new when it is split (`Fresh`): the host
  mixes in a new ephemeral key for every handshake, the device one for every msg1
  it takes, and the messages 1 in the ring are in order and ahead of the device's
  count (`Ordered`), which also bounds that count;
* where an end is and what its session holds go together (`HostState`,
  `DeviceState`), and only frames an end can build travel (`Ports`).

`LInv` (in `LinkFrames`) is their conjunction; there is one lemma per conjunct and
one step per action. The type invariant needs, on top of it, that a request
is outstanding exactly while an end waits for or works on its answer (`Pending`).

`LinkAnswers` goes on from there to `LinkSpec => []AnswersItsRequest` and
`LinkSpec => FreshHandshakeWorks`, from the same assumption. Both are about what the
two queues hold in which order:

* msg1 is the last frame the host sent while it waits for msg2, and when the answer
  to it is on its way it is the last frame to the host and the ring is empty
  (`Greeting`), so a session starts with nothing but msg3 in flight;
* while the host is in its session no msg1 is in the ring, so the device is in the
  session with the same key, waits for its msg3, or has left it for as long as the
  host stays (`Shared`);
* in a calm session the host is one request ahead while it waits and level
  otherwise; the frames in the ring are older than its next one; and the device is
  level with the host and silent, is at work on the request the host waits for, or
  has sent that one answer (`Settled`). The nonce then tells the host which answer
  it has, which the sequence number does not;
* a handshake the device was listening for has its msg1 alone in the ring of a
  device that will take it, or its answer alone on its way (`Undisturbed`), which
  needs the port held open, for only then does the device's frame reach the host
  (`Held`).

`ProtocolProofs` is about main thread, workqueue and tap driver together, for all
words, builds and volumes (`BootAssumption`: those the device has). It proves
`PSpec => []PInv` with `PInv == GInv /\ PTypeOK /\ Rendezvous`, and from it
`PSpec => ImplementsApproval`. Every step of the composition but `Wipe` is a step of
Gesture, so `GInv` carries over; `PromptBacked` in it is what makes `Rendezvous`
inductive, for a semaphore may only be given by the callback its owner registered,
and there is one as long as a prompt is open. In the refinement a waiting main
thread is `asked` while its answer is pending; a step leaves it so (a tap), decides
it, or takes the decision. That an approval needs the right sequence in the
accumulator comes from the one place that delivers `OK`, and that the taps were made
under the prompt from `PromptTapsAreFresh`.

`HostProofs` proves `HSpec => []HInv`, `HostTypeOK`, `TrustHolds`, `ClientKeyKept`
and `ProvisionCompletes`, for any units, certificates and allowed CAs and any number
of runs and kills. Assumed: a missing or an empty file is no certificate, unit or
key, and no unit is called like the two fixed directories (`HostAssumption`).
`HInv` says where each command can stand with which files: a flat layout belongs to
the unit an old version pinned and is gone once its migration has begun
(`FlatLayout`, `Migration`); key pairs are made before the first pairing only, and a
session is opened with both halves readable (`ClientKeys`); a pairing that has saved
its pin is disturbed until it reports (`PinInHand`); and the pin of every
undisturbed unit is the certificate of its last pairing (`PinsKept`), which is what
`TrustHolds` needs and what is not inductive without the others.

`CaStoreProofs` proves `CSpec => []CInv` and from it all properties of the `ca_store`
run but `ChainEndsAtRoot`, for any number of slots, keys, certificates, commands and
faults. Assumed: the bounds are naturals, there is a slot, keys from outside are no
keys of the device (`StoreAssumption`), and a missing or an empty file is no key,
certificate or record (`FileAssumption`). A handler decides when it starts and acts
later, so the properties are not inductive: what makes them so is a statement about
the list `todo` it has left to do (`Plan`). Each operation is one that may be carried
out now (`StepOK`: a key goes where there is none, or is overwritten on purpose; a
record's `meta.bin` is rewritten with more in it), and those that rely on others come
after them (`InOrder`: a reply with a certificate after both files of its record, the
reply to a revocation after its flag, dropping the unlock sequence after the keys).
Of an operation others rely on `Plan` also says that its failure ends the handler.
`CaStoreSteps` shows that carrying out the first operation, failing it, or cutting it
short keeps `CInv`; `CaStoreProofs` shows that what each handler puts on its list is
fit to be there. `Booting` says the same of the certificate `ca_init` completes.
TLC finds the invariants to hold too: `PInv`, `HInv` and those of `LinkAnswers` on the
instances of their runs, `CInv` with five commands instead of six.

Only model-checked: liveness (`CommandEnds`, `DeviceComesBack`), which the prover
does not do; `ChainEndsAtRoot`, which is about what a recursive definition computes;
Device, whose flash is one function over paths in eight builds; Cbor and what uses
it, which is recursive.

## Not modelled

* Cryptography, X.509 and DER (wolfSSL, OpenSSL, `certgen`, `certparse`,
  `der_write`): calls into libraries and encodings. A key is a value, a certificate
  is what it binds.
* CSRs: `csr.der` of a slot is written and read back and touches nothing else; the
  one of the session is never read back. Client names: their rewrite of `meta.bin`.
* The retired `/noise` key pair and the `fw_pending` flag in `storage.c`: no caller.
* Tap detection (signal processing), LED patterns (output), names (a table), the
  set-up of the USB stack, the BLE stub, discovery through sysfs, argument parsing
  and printing, `provision-ca --new`.
