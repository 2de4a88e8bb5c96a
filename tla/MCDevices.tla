------------------------------ MODULE MCDevices ------------------------------
(***************************************************************************)
(* What stands between the devices and the server, down to the bytes: the  *)
(* logger on an ESP's serial line, the readings of a BMS from its radio to *)
(* the hourly averages, frames found in streams, the capture of a serial   *)
(* line and the page that follows it, stored readings taken out.  They     *)
(* meet by nothing that two of them change, so a run takes one, picked by  *)
(* the initial state, and the others rest.                                 *)
(***************************************************************************)
EXTENDS SerialLogger, BmsReader, BmsIngest, FrameStreams, SerialCapture, DevSerialSniff,
        StoredReadings

\* A device's clock is the server's, or ahead of it.
InTimeOrAhead == {0, 2}

VARIABLE part

DevicesInit ==
    /\ part \in {"serial", "reader", "ingest", "streams", "capture", "sniff", "stored"}
    /\ LoggerInit
    /\ ReaderInit
    /\ IngestInit /\ (part # "ingest" => \A d \in Devices : producer[d].skew = 0)
    /\ StreamInit /\ (part # "streams" => parser = "bms")
    /\ CaptureInit /\ SniffInit
    /\ ReadingsInit /\ (part # "stored" => series = "bms")

bytesAndRows == <<streamVars, captureVars, sniffVars, readingsVars>>

DevicesNext ==
    /\ UNCHANGED part
    /\ \/ part = "serial" /\ LoggerNext /\ UNCHANGED <<readerVars, ingestVars, bytesAndRows>>
       \/ part = "reader" /\ ReaderNext /\ UNCHANGED <<vars, ingestVars, bytesAndRows>>
       \/ part = "ingest" /\ IngestNext /\ UNCHANGED <<vars, readerVars, bytesAndRows>>
       \/ part = "streams" /\ StreamNext
             /\ UNCHANGED <<vars, readerVars, ingestVars, captureVars, sniffVars, readingsVars>>
       \/ part = "capture" /\ CaptureNext
             /\ UNCHANGED <<vars, readerVars, ingestVars, streamVars, sniffVars, readingsVars>>
       \/ part = "sniff" /\ SniffNext
             /\ UNCHANGED <<vars, readerVars, ingestVars, streamVars, captureVars, readingsVars>>
       \/ part = "stored" /\ ReadingsNext
             /\ UNCHANGED <<vars, readerVars, ingestVars, streamVars, captureVars, sniffVars>>

(* Each part, while it is the one that runs: event loops run, timers fire,  *)
(* requests are sent, disconnects are heard and the close of a stopped      *)
(* session settles.  Frames, answers of the inverter, faults and the setup  *)
(* of a Bluetooth session, whose awaits have no timeout, are not owed.      *)
DevicesFairness ==
    /\ WF_vars(part = "serial" /\ StartExchange /\ up = <<>>)
    /\ WF_vars(part = "serial" /\ LinkTimeout /\ up = <<>>)
    /\ WF_vars(part = "serial" /\ Receive) /\ WF_vars(part = "serial" /\ Lost)
    /\ WF_readerVars(part = "reader" /\ Resume) /\ WF_readerVars(part = "reader" /\ Wake)
    /\ WF_readerVars(part = "reader" /\ StopConnecting)
    /\ \A i \in Sessions : /\ WF_readerVars(part = "reader" /\ Check(i, TRUE))
                           /\ WF_readerVars(part = "reader" /\ HearDisconnect(i))
    /\ \A d \in Devices : /\ WF_ingestVars(part = "ingest" /\ ReceiveBatch(d))
                          /\ WF_ingestVars(part = "ingest" /\ Store(d))
                          /\ WF_ingestVars(part = "ingest" /\ StoreFails(d))
                          /\ WF_ingestVars(part = "ingest" /\ GiveUp(d))

DevicesSpec ==
    /\ DevicesInit /\ [][DevicesNext]_<<part, vars, readerVars, ingestVars, bytesAndRows>>
    /\ DevicesFairness

(* The types of the parts.                                                  *)
DevicesTypeOK == TypeOK /\ ReaderTypeOK /\ IngestTypeOK
                 /\ CaptureTypeOK /\ SniffTypeOK

(* Readings on their way.  A BMS's: none is stored too soon after another,  *)
(* each one offered waits, was answered or was pushed out, the hourly       *)
(* averages catch up with late rows, and only a session of its own is       *)
(* closed; frames are those of the stream, however it was cut; a capture    *)
(* holds what its taps caught, and leaks none, and its page shows it in     *)
(* turn; what is exported is whole                                          *)
(* (bms-ingest.service.ts:52-124, ingest-client.ts:34-96,                   *)
(* time-series.ts:124-160, bms-session.ts:62-142, frame-assembler.ts:41-75, *)
(* serial-capture.ts:100-246, DevSerialSniff.tsx:180-233,                   *)
(* telemetry.store.ts:106-163).                                             *)
ReadingsKept ==
    /\ StoredApart /\ AccountedFor /\ HourlyCatchesUp /\ OwnClose
    /\ part = "streams" => FramesAreOfTheStream
    /\ CaptureKept /\ ShownInTurn /\ TakenOutWhole

\* What must end.  Blocks are interchangeable, and so are devices.
Waiting ==
    CASE part = "serial" -> ReadWaits(CHOOSE b \in Blocks : TRUE)
      [] part = "reader" -> Silent /\ Watched
      [] part = "ingest" -> Queued(CHOOSE d \in Devices : TRUE)
      [] OTHER -> FALSE

\* What the code leaves to the radio.
RadioAnswers == part = "reader" /\ \A i \in Sessions : []<>~InSetup(i)

(* Nothing waits for ever.  A read given to the serial link is settled,     *)
(* whatever the inverter, the board and the port do (esp-link.ts:126-142);  *)
(* once the faults are over every queue of readings drains, also of a       *)
(* device removed or given a new token (ingest-client.ts:47-84); a battery  *)
(* that goes away is left, and so is, once the setup is over, one not heard *)
(* again (bms-session.ts:91-138, reconnect-loop.ts:36-56).  The setup's two *)
(* awaits have no timeout (bms-session.ts:97-101): only of a radio that     *)
(* always settles them is every silent battery left, the one that never     *)
(* said anything included.                                                  *)
DevicesSettle ==
    /\ []<>~Waiting
    /\ RadioAnswers => []<>~Silent
==============================================================================
