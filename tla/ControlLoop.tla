---------------------------- MODULE ControlLoop -----------------------------
(***************************************************************************)
(* The main thread (main.cpp, communicator.cpp): a loop that never waits.  *)
(* Each turn takes at most one message, a GPS message if one is there or   *)
(* else one of work status, and at most one request, which it answers.     *)
(* Messages set the fields of DeviceStatus one after the other, while the  *)
(* IPCU thread may be copying them into the EXIF block of a photo          *)
(* (saveJpegWithExif); no lock is taken.                                   *)
(*                                                                         *)
(* GPS samples are one more field, the position: how they are kept is in   *)
(* GpsData, what is done with a photo in PhotoCapture, and recording in    *)
(* Recorder.  Of the recorder only its state is left here.                 *)
(*                                                                         *)
(* A definition X_Y, just above X, is X with a bug: the runs' properties   *)
(* fail when it takes the place of X.                                      *)
(***************************************************************************)
EXTENDS Integers, Sequences

CONSTANTS
    GpsMessages, WorkMessages,   \* messages of the two publishers
    Settings,     \* options of the server and peers, the processes around it
    Start,        \* DeviceStatus' initial values, and no position yet
    GpsPeriod,    \* a GPS message comes every GpsPeriod turns at most
    MaxWaiting    \* bound: messages waiting in a subscriber

Fields == {"shutter_count", "cmos_temperature", "input_voltage", "noise_reduction_strength",
           "jpeg_quality_level", "shutter_mode", "position"}

\* What sprintf reads for the maker note.
NoteFields == Fields \ {"noise_reduction_strength", "position"}

\* handle_params: the two options that decide what the loop can do.
Flags == {"video", "jpeg"}

Peers == {"gps", "work", "camera", "client"}

Missing == -1    \* the empty string: a message without the key
Garbled == -2    \* a value that is no number
Null == -5       \* the JSON value null
Throw == -3      \* the process ends: std::stoi, stof or stoull throws, which
                 \* nobody catches, or a std::string is made of a null pointer
Unread == -4

\* A message: its cmd and the keys it has data for, with their values.  The six
\* numbers of a GPS message are one value.
Message(m) == m.data \in [DOMAIN m.data -> Nat \cup {Garbled, Null}]

ASSUME MessageAssumption == \A m \in GpsMessages \cup WorkMessages : Message(m)
ASSUME SettingAssumption == \A s \in Settings : s.flag \subseteq Flags /\ s.peers \subseteq Peers
ASSUME StartAssumption == Start \in [Fields -> Int]
ASSUME RateAssumption == GpsPeriod \in Nat /\ MaxWaiting \in Nat \ {0}

Commands == {"VideoStorage", "PhotoStorage", "VideoStart", "VideoStop", "unknown"}

VARIABLES
    flag,         \* options the server was started with
    peers,        \* the publishers, the camera and the client that are there
    abort,        \* app_abort
    main,         \* the main thread
    gps, work,    \* messages waiting in the subscribers
    sinceGps,     \* turns since a GPS message came, up to GpsPeriod
    todo,         \* assignments that handle_sub_msg has still to make
    status,       \* DeviceStatus and the newest GPS sample
    request, answer,  \* of the client at the command socket
    recording,
    photo,        \* the IPCU thread in saveJpegWithExif
    note,         \* what the EXIF block says, or Unread
    told,         \* history: what the messages said last of each field
    quality,      \* history: the last JPEG quality a message named
    calm          \* history: no message was handled since the photo began

setup == <<flag, peers, abort>>
client == <<request, answer>>
queues == <<gps, work, sinceGps>>
sockets == <<queues, client>>
ipcu == <<photo, note, calm>>
history == <<told, quality>>
vars == <<setup, main, sockets, todo, status, recording, ipcu, history>>

Init == /\ \E s \in Settings : flag = s.flag /\ peers = s.peers
        /\ abort = FALSE /\ main = "gps"
        /\ gps = <<>> /\ work = <<>> /\ sinceGps = GpsPeriod
        /\ todo = <<>>
        /\ status = Start
        /\ request = "none" /\ answer = "none"
        /\ recording = FALSE
        /\ photo = "idle" /\ note = [f \in Fields |-> Unread]
        /\ told = Start /\ quality = Missing /\ calm = FALSE
-----------------------------------------------------------------------------
(* What a message is taken for.                                            *)

getStrFromJson(m, key) ==
    IF key \notin DOMAIN m.data THEN Missing
    ELSE IF m.data[key] = Null THEN Throw ELSE m.data[key]

getFloatFromJson(m, key) ==
    IF key \in DOMAIN m.data /\ m.data[key] \notin {Garbled, Null} THEN m.data[key] ELSE 0

\* std::stoi, std::stof and std::stoull.
Number(value) == IF value \in {Missing, Garbled} THEN Throw ELSE value

Level(value) == IF value = Throw THEN Throw
                ELSE IF value = 100 THEN 2
                ELSE IF value > 90 /\ value < 100 THEN 1 ELSE 0

SetIfThere(m, key, field, value) ==
    IF getStrFromJson(m, key) = Missing THEN <<>> ELSE << <<field, value>> >>

\* handleData: a position that does not parse is not taken, and the sample is
\* pushed only after its time stamp has been read.
GpsAssignments(m) ==
    IF getStrFromJson(m, "position") \in {Missing, Garbled} THEN <<>>
    ELSE << <<"position", IF Number(getStrFromJson(m, "time_stamp")) = Throw THEN Throw
                          ELSE getStrFromJson(m, "position")>> >>

DeviceAssignments_OneKey(m) ==
    << <<"cmos_temperature", Number(getStrFromJson(m, "cmos_temp"))>>,
       <<"input_voltage", Number(getStrFromJson(m, "cmos_temp"))>> >>
DeviceAssignments(m) ==
    << <<"cmos_temperature", Number(getStrFromJson(m, "cmos_temp"))>>,
       <<"input_voltage", Number(getStrFromJson(m, "total_voltage"))>> >>

WorkAssignments(m) ==
    << <<"shutter_mode", getFloatFromJson(m, "shutter_mode")>> >>
    \o SetIfThere(m, "noise_reduction_strength", "noise_reduction_strength",
                  Number(getStrFromJson(m, "noise_reduction_strength")))
    \o SetIfThere(m, "photo_resolve", "jpeg_quality_level",
                  Level(Number(getStrFromJson(m, "photo_resolve"))))
    \o SetIfThere(m, "shutter_count", "shutter_count",
                  Number(getStrFromJson(m, "shutter_count")))

\* handle_sub_msg: the assignments it makes, in order.
Assignments(m) == CASE m.cmd = "GPS" -> GpsAssignments(m)
                    [] m.cmd = "DeviceStatus" -> DeviceAssignments(m)
                    [] m.cmd = "workStatus" -> WorkAssignments(m)
                    [] OTHER -> <<>>

\* What the sender of m means: a field keeps its value unless m has the key
\* for it, but a work status without a shutter mode means the electronic one,
\* and a position that is no number means nothing.
Says(m, cmd, key) == m.cmd = cmd /\ key \in DOMAIN m.data

MeantFor(m, f) ==
    CASE f = "position" /\ Says(m, "GPS", "position") /\ m.data["position"] # Garbled ->
             m.data["position"]
      [] f = "cmos_temperature" /\ Says(m, "DeviceStatus", "cmos_temp") -> m.data["cmos_temp"]
      [] f = "input_voltage" /\ Says(m, "DeviceStatus", "total_voltage") ->
             m.data["total_voltage"]
      [] f = "shutter_mode" /\ m.cmd = "workStatus" -> getFloatFromJson(m, "shutter_mode")
      [] f = "noise_reduction_strength" /\ Says(m, "workStatus", "noise_reduction_strength") ->
             m.data["noise_reduction_strength"]
      [] f = "jpeg_quality_level" /\ Says(m, "workStatus", "photo_resolve") ->
             Level(m.data["photo_resolve"])
      [] f = "shutter_count" /\ Says(m, "workStatus", "shutter_count") -> m.data["shutter_count"]
      [] OTHER -> told[f]

Meant(m) == [f \in Fields |-> MeantFor(m, f)]
-----------------------------------------------------------------------------
(* The main thread.                                                        *)

Handle(m) ==
    /\ main' = "handle"
    /\ todo' = Assignments(m)
    /\ told' = Meant(m)
    /\ quality' = IF Says(m, "workStatus", "photo_resolve") THEN m.data["photo_resolve"] ELSE quality
    /\ calm' = FALSE
    /\ UNCHANGED <<setup, sinceGps, client, status, recording, photo, note>>

AfterNoGps_Command == "command"
\* receiveSub goes on to the second subscriber.
AfterNoGps == "work"

\* receiveSub: the GPS subscriber first.
ReceiveGps ==
    /\ main = "gps" /\ gps # <<>>
    /\ gps' = Tail(gps)
    /\ Handle(Head(gps))
    /\ UNCHANGED work

NoGps ==
    /\ main = "gps" /\ gps = <<>>
    /\ main' = AfterNoGps
    /\ UNCHANGED <<setup, sockets, todo, status, recording, ipcu, history>>

ReceiveWork ==
    /\ main = "work" /\ work # <<>>
    /\ work' = Tail(work)
    /\ Handle(Head(work))
    /\ UNCHANGED gps

NoWork ==
    /\ main = "work" /\ work = <<>>
    /\ main' = "command"
    /\ UNCHANGED <<setup, sockets, todo, status, recording, ipcu, history>>

Assign ==
    /\ main = "handle" /\ todo # <<>> /\ Head(todo)[2] # Throw
    /\ status' = [status EXCEPT ![Head(todo)[1]] = Head(todo)[2]]
    /\ todo' = Tail(todo)
    /\ UNCHANGED <<setup, main, sockets, recording, ipcu, history>>

\* The exception ends the process, and with it the IPCU thread.
Terminate ==
    /\ main' = "dead"
    /\ UNCHANGED <<setup, sockets, todo, status, recording, ipcu, history>>

AssignThrows == main = "handle" /\ todo # <<>> /\ Head(todo)[2] = Throw /\ Terminate

AfterMessage_NextTurn == "gps"
\* The command socket is polled in every turn.
AfterMessage == "command"

EndHandle ==
    /\ main = "handle" /\ todo = <<>>
    /\ main' = AfterMessage
    /\ UNCHANGED <<setup, sockets, todo, status, recording, ipcu, history>>

\* The turn ends, and app_abort is looked at.
EndTurn ==
    /\ main' = IF abort THEN "stop" ELSE "gps"
    /\ sinceGps' = IF sinceGps < GpsPeriod THEN sinceGps + 1 ELSE sinceGps

\* handle_cmd, as far as it returns: its result, and the recorder afterwards.
\* That start_record failed is not reported.
HandleCmd(result) ==
    \/ request \notin Commands \ {"unknown"} /\ result = "failed" /\ UNCHANGED recording
    \/ request = "PhotoStorage" /\ result = "success" /\ UNCHANGED recording
    \/ /\ request = "VideoStorage"
       /\ result = IF "video" \in flag THEN "success" ELSE "failed"
       /\ UNCHANGED recording
    \/ /\ request = "VideoStart" /\ "video" \in flag
       /\ \/ recording /\ result = "failed" /\ UNCHANGED recording
          \/ ~recording /\ result = "success" /\ recording' \in BOOLEAN
    \/ /\ request = "VideoStop" /\ "video" \in flag
       /\ result = IF recording THEN "success" ELSE "failed"
       /\ recording' = FALSE

\* receiveCmd: an answer to each request, whatever its result.
ReceiveCmd ==
    /\ main = "command"
    /\ request # "none"
    /\ \E result \in {"success", "failed"} :
          HandleCmd(result) /\ request' = "none" /\ answer' = result
    /\ EndTurn
    /\ UNCHANGED <<setup, gps, work, todo, status, ipcu, history>>

\* A request may have null for its cmd, or for a string that the command reads;
\* the frame rate may be no number; without the video option media_recorder is
\* NULL, which only VideoStorage looks at.
Deadly == {"unknown", "VideoStart"}
          \cup (IF "video" \in flag THEN {"VideoStorage"} ELSE {"VideoStop"})
          \cup (IF "jpeg" \in flag THEN {"PhotoStorage"} ELSE {})

CmdKills ==
    /\ main = "command"
    /\ request \in Deadly
    /\ Terminate

NoCmd ==
    /\ main = "command"
    /\ request = "none"
    /\ EndTurn
    /\ UNCHANGED <<setup, gps, work, client, todo, status, recording, ipcu, history>>

\* The end of main: how the channel closes is in the models of the channel.
Stop ==
    /\ main = "stop"
    /\ main' = "exit"
    /\ UNCHANGED <<setup, sockets, todo, status, recording, ipcu, history>>

Signal ==
    /\ main \notin {"stop", "exit", "dead"} /\ ~abort
    /\ abort' = TRUE
    /\ UNCHANGED <<flag, peers, main, sockets, todo, status, recording, ipcu, history>>
-----------------------------------------------------------------------------
(* The IPCU thread: the EXIF block of a photo.                             *)

Running == main \notin {"exit", "dead"}

\* Entries made of constants, of what came with the photo and of the serial
\* number, which is set before the channel is open.
BeginExif ==
    /\ "camera" \in peers /\ "jpeg" \in flag
    /\ Running /\ photo = "idle"
    /\ photo' = "note"
    /\ calm' = (main # "handle")
    /\ UNCHANGED <<setup, main, sockets, todo, status, recording, note, history>>

\* sprintf's arguments are read in no particular order.
ReadField ==
    /\ Running /\ photo = "note"
    /\ \E f \in NoteFields :
          /\ note[f] = Unread
          /\ note' = [note EXCEPT ![f] = status[f]]
    /\ UNCHANGED <<setup, main, sockets, todo, status, recording, photo, calm, history>>

\* One getGPSData for the GPS entries and the XMP block; with no sample yet
\* they are made of what the stack holds.
ReadPosition ==
    /\ Running /\ photo = "note"
    /\ \A f \in NoteFields : note[f] # Unread
    /\ note' = [note EXCEPT !["position"] = status["position"]]
    /\ photo' = "save"
    /\ UNCHANGED <<setup, main, sockets, todo, status, recording, calm, history>>

FreshNote_Kept == note
\* maker_note and gps_data are local.
FreshNote == [f \in Fields |-> Unread]

SavePhoto ==
    /\ Running /\ photo = "save"
    /\ photo' = "idle"
    /\ note' = FreshNote /\ calm' = FALSE
    /\ UNCHANGED <<setup, main, sockets, todo, status, recording, history>>
-----------------------------------------------------------------------------
(* The other processes.                                                    *)

SendGps ==
    /\ "gps" \in peers /\ sinceGps = GpsPeriod
    /\ Len(gps) < MaxWaiting
    /\ \E m \in GpsMessages : gps' = Append(gps, m)
    /\ sinceGps' = 0
    /\ UNCHANGED <<setup, main, work, client, todo, status, recording, ipcu, history>>

SendWork ==
    /\ "work" \in peers /\ Len(work) < MaxWaiting
    /\ \E m \in WorkMessages : work' = Append(work, m)
    /\ UNCHANGED <<setup, main, gps, sinceGps, client, todo, status, recording, ipcu, history>>

\* A request socket: no second request before the first is answered.
SendRequest ==
    /\ "client" \in peers /\ request = "none" /\ answer = "none"
    /\ \E c \in Commands : request' = c
    /\ UNCHANGED <<setup, main, queues, answer, todo, status, recording, ipcu, history>>

GetAnswer ==
    /\ answer # "none"
    /\ answer' = "none"
    /\ UNCHANGED <<setup, main, queues, request, todo, status, recording, ipcu, history>>
-----------------------------------------------------------------------------
Loop == \/ ReceiveGps \/ NoGps \/ ReceiveWork \/ NoWork \/ Assign \/ AssignThrows \/ EndHandle
        \/ ReceiveCmd \/ CmdKills \/ NoCmd \/ Stop

Photo == BeginExif \/ ReadField \/ ReadPosition \/ SavePhoto

Next == Loop \/ Signal \/ Photo \/ SendGps \/ SendWork \/ SendRequest \/ GetAnswer

Spec == Init /\ [][Next]_vars

\* The main thread never waits; nobody else has to do anything.
FairSpec == Spec /\ WF_vars(Loop)
-----------------------------------------------------------------------------
TypeOK ==
    /\ flag \subseteq Flags /\ peers \subseteq Peers
    /\ {abort, recording, calm} \subseteq BOOLEAN
    /\ main \in {"gps", "work", "handle", "command", "stop", "exit", "dead"}
    /\ gps \in Seq(GpsMessages) /\ work \in Seq(WorkMessages)
    /\ sinceGps \in 0..GpsPeriod
    /\ todo \in Seq(Fields \X Int)
    /\ status \in [Fields -> Int] /\ told \in [Fields -> Int] /\ note \in [Fields -> Int]
    /\ request \in Commands \cup {"none"} /\ answer \in {"none", "success", "failed"}
    /\ photo \in {"idle", "note", "save"}
    /\ quality \in Int

\* If no message was handled while a photo's EXIF block was made, the block
\* has the latest that the messages said of every field, however the fields
\* arrived; only then may it mix what two messages said.
NoteIsLatest ==
    photo = "save" /\ calm => \A f \in NoteFields \cup {"position"} : note[f] = told[f]

\* Every request is answered, however many messages come, unless the server
\* ends.
RequestAnswered ==
    request # "none" ~> answer # "none" \/ main \in {"exit", "dead"}

\* A work status is read although GPS messages go first, as long as they come
\* more seldom than turns of the loop.
WorkStatusRead ==
    []<>(work = <<>>) \/ []<><<ReceiveWork>>_vars \/ <>(main \in {"exit", "dead"})

\* device_status.cpp: "0 for 80-89, 1 for 90-99, 2 for 100".
LevelAsDocumented ==
    main = "command" =>
        /\ quality \in 80..89 => status["jpeg_quality_level"] = 0
        /\ quality \in 90..99 => status["jpeg_quality_level"] = 1
        /\ quality = 100 => status["jpeg_quality_level"] = 2
=============================================================================
