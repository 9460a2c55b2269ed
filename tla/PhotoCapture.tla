---------------------------- MODULE PhotoCapture ----------------------------
(***************************************************************************)
(* JpegCapture (jpeg_capture.cpp): the IPCU thread writes each photo to    *)
(* the next of a few temporary files and announces its name to other       *)
(* processes, which read the file when they come to it.  RawImgCapture and *)
(* YuvCapture run on the same thread, recordings are started by the main   *)
(* thread, and all share the process's descriptors.                        *)
(*                                                                         *)
(* A photo is its number.  A file is the number of the photo it was made   *)
(* for, so that a name and the file opened under it can be told apart; its *)
(* content is, for each of the Parts that are written one by one, the      *)
(* photo the part is of.  Of pictures and recordings only the descriptors  *)
(* they leave open are kept; remove() succeeds if the file exists.         *)
(*                                                                         *)
(* A definition X_Y, just above X, is X with a bug: the runs' properties   *)
(* fail when it takes the place of X.                                      *)
(***************************************************************************)
EXTENDS Naturals, Sequences

CONSTANTS
    TempFiles,    \* JPEG_TEMPFILES_NUMBER
    Parts,        \* writes a photo is made of, 8 in the code
    MaxFd,        \* descriptors the process may have open
    PhotoFaults,  \* steps that may fail: "exif", "open", "write"
    MaxPhotos,    \* bound: photos taken
    MaxLeaks      \* bound: raw and YUV pictures and recordings

ASSUME SizeAssumption == {TempFiles, Parts, MaxFd} \subseteq Nat \ {0}
ASSUME PhotoBoundAssumption == {MaxPhotos, MaxLeaks} \subseteq Nat
ASSUME PhotoFaultAssumption == PhotoFaults \subseteq {"exif", "open", "write"}

Photos == 1..MaxPhotos
Names == 1..TempFiles
None == 0                     \* no photo, no file or no name

VARIABLES
    photos,       \* frames of the JPEG stream so far: the current photo
    num,          \* get_temp_file_name's static counter
    lock,         \* the capture's mutex is held
    jpg,          \* where the IPCU thread is in the JPEG callback
    failed,       \* saveJpegWithExif is going to return false
    ino, part,    \* the file open for writing and the write that is next
    fds,          \* descriptors in use
    dir,          \* the file of each temporary name
    content,      \* of each file
    told,         \* the name under which a photo was announced
    leaks,        \* raw and YUV pictures and recordings so far
    rd,           \* the announcement another process is reading for
    rdIno, got,   \* the file it opened and the parts it read
    prompt,       \* history: it opened it before the name came up again
    faulty        \* history: photos that met a fault

writer == <<photos, num, lock, jpg, failed, ino, part>>
client == <<rd, rdIno, got, prompt>>
photoVars == <<writer, fds, dir, content, told, leaks, client, faulty>>

Blank == [p \in 1..Parts |-> None]

PhotoInit ==
    /\ photos = 0 /\ num = 0 /\ lock = FALSE
    /\ jpg = "idle" /\ failed = FALSE /\ ino = None /\ part = 1
    /\ fds = 0
    /\ dir = [n \in Names |-> None]
    /\ content = [f \in Photos |-> Blank]
    /\ told = [p \in Photos |-> None]
    /\ leaks = 0
    /\ rd = None /\ rdIno = None /\ got = <<>> /\ prompt = FALSE
    /\ faulty = {}
-----------------------------------------------------------------------------
(* The JPEG callback on the IPCU thread.                                   *)

NextNum_OneLess == IF num = TempFiles - 1 THEN 1 ELSE num + 1
\* get_temp_file_name
NextNum == IF num = TempFiles THEN 1 ELSE num + 1

ReceivePhoto ==
    /\ jpg = "idle" /\ photos < MaxPhotos
    /\ photos' = photos + 1
    /\ IF lock THEN UNCHANGED <<num, lock, jpg>>          \* trylock failed
               ELSE num' = NextNum /\ lock' = TRUE /\ jpg' = "exif"
    /\ failed' = FALSE
    /\ UNCHANGED <<ino, part, fds, dir, content, told, leaks, client, faulty>>

\* exif_data_new fails: the photo is not saved, the name's old file stays.
NoExif ==
    /\ jpg = "exif" /\ "exif" \in PhotoFaults
    /\ jpg' = "result"
    /\ failed' = TRUE
    /\ faulty' = faulty \cup {photos}
    /\ UNCHANGED <<photos, num, lock, ino, part, fds, dir, content, told, leaks, client>>

Removed_Kept == dir
\* remove() takes the name away; whoever has the file open keeps it.
Removed == [dir EXCEPT ![num] = None]

Remove ==
    /\ jpg = "exif"
    /\ jpg' = "open"
    /\ dir' = Removed
    /\ UNCHANGED <<photos, num, lock, failed, ino, part, fds, content, told, leaks, client, faulty>>

\* O_CREAT without O_EXCL or O_TRUNC: a file that exists is opened as it is.
OpenFile ==
    /\ jpg = "open" /\ fds < MaxFd
    /\ jpg' = "write" /\ part' = 1
    /\ fds' = fds + 1
    /\ ino' = IF dir[num] = None THEN photos ELSE dir[num]
    /\ dir' = [dir EXCEPT ![num] = ino']
    /\ UNCHANGED <<photos, num, lock, failed, content, told, leaks, client, faulty>>

\* The result stays 0, so saveJpegWithExif returns true.
OpenFails ==
    /\ jpg = "open"
    /\ \/ fds = MaxFd /\ UNCHANGED faulty
       \/ "open" \in PhotoFaults /\ faulty' = faulty \cup {photos}
    /\ jpg' = "result"
    /\ UNCHANGED <<photos, num, lock, failed, ino, part, fds, dir, content, told, leaks, client>>

\* The number of bytes written, or -1, or-ed into the result: it is not 0.
AfterWrite ==
    /\ failed' = TRUE
    /\ part' = part + 1
    /\ jpg' = IF part = Parts THEN "close" ELSE "write"
    /\ UNCHANGED <<photos, num, lock, ino, fds, dir, told, leaks, client>>

Write ==
    /\ jpg = "write"
    /\ content' = [content EXCEPT ![ino][part] = photos]
    /\ AfterWrite
    /\ UNCHANGED faulty

\* The other writes are made all the same.
WriteFails ==
    /\ jpg = "write" /\ "write" \in PhotoFaults
    /\ faulty' = faulty \cup {photos}
    /\ AfterWrite
    /\ UNCHANGED content

AfterClose_Leaked == fds
AfterClose == fds - 1

CloseFile ==
    /\ jpg = "close"
    /\ jpg' = "result"
    /\ ino' = None /\ part' = 1
    /\ fds' = AfterClose
    /\ UNCHANGED <<photos, num, lock, failed, dir, content, told, leaks, client, faulty>>

AfterResult_LockedIfSilent == ~failed
\* The mutex is unlocked whether or not the photo is announced.
AfterResult == FALSE

\* The callback announces the photo if saveJpegWithExif returned 0, that is false.
Result ==
    /\ jpg = "result"
    /\ jpg' = "idle"
    /\ told' = IF failed THEN [told EXCEPT ![photos] = num] ELSE told
    /\ failed' = FALSE
    /\ lock' = AfterResult
    /\ UNCHANGED <<photos, num, ino, part, fds, dir, content, leaks, client, faulty>>

\* A file is opened, if a descriptor is left, and never closed.
LeaveOpen ==
    /\ leaks < MaxLeaks
    /\ leaks' = leaks + 1
    /\ fds' = IF fds < MaxFd THEN fds + 1 ELSE fds
    /\ UNCHANGED <<writer, dir, content, told, client, faulty>>

\* A raw or a YUV picture, on the IPCU thread: save_frame_to_file has no close.
SaveRaw == jpg = "idle" /\ LeaveOpen

\* A VideoStart, on the main thread: neither a later failure in start_record nor
\* stop_record closes the AVIO context that start_record has opened.
StartRecord == LeaveOpen
-----------------------------------------------------------------------------
(* Another process, some time after the announcement, perhaps again.       *)

OpenForReading ==
    /\ rd = None
    /\ \E p \in Photos :
          /\ told[p] # None /\ dir[told[p]] # None
          /\ rd' = p
          /\ rdIno' = dir[told[p]]
          /\ prompt' = (photos - p < TempFiles)
    /\ UNCHANGED <<writer, fds, dir, content, told, leaks, got, faulty>>

ReadPart ==
    /\ rd # None /\ Len(got) < Parts
    /\ got' = Append(got, content[rdIno][Len(got) + 1])
    /\ UNCHANGED <<writer, fds, dir, content, told, leaks, rd, rdIno, prompt, faulty>>

EndReading ==
    /\ rd # None /\ Len(got) = Parts
    /\ rd' = None /\ rdIno' = None /\ got' = <<>> /\ prompt' = FALSE
    /\ UNCHANGED <<writer, fds, dir, content, told, leaks, faulty>>
-----------------------------------------------------------------------------
Capture == ReceivePhoto \/ NoExif \/ Remove \/ OpenFile \/ OpenFails \/ Write \/ WriteFails \/ CloseFile
           \/ Result \/ SaveRaw \/ StartRecord

PhotoNext == Capture \/ OpenForReading \/ ReadPart \/ EndReading

PhotoSpec == PhotoInit /\ [][PhotoNext]_photoVars
-----------------------------------------------------------------------------
PhotoTypeOK ==
    /\ photos \in 0..MaxPhotos /\ num \in 0..TempFiles /\ lock \in BOOLEAN
    /\ jpg \in {"idle", "exif", "open", "write", "close", "result"}
    /\ failed \in BOOLEAN
    /\ ino \in Photos \cup {None} /\ part \in 1..(Parts + 1)
    /\ fds \in 0..MaxFd
    /\ dir \in [Names -> Photos \cup {None}]
    /\ content \in [Photos -> [1..Parts -> Photos \cup {None}]]
    /\ told \in [Photos -> Names \cup {None}]
    /\ leaks \in 0..MaxLeaks
    /\ rd \in Photos \cup {None} /\ rdIno \in Photos \cup {None}
    /\ got \in Seq(Photos \cup {None}) /\ Len(got) <= Parts
    /\ prompt \in BOOLEAN
    /\ faulty \subseteq Photos
    /\ jpg = "write" <=> ino # None /\ part <= Parts
    /\ jpg # "idle" <=> lock

Whole(p) == [i \in 1..Parts |-> p]

\* However slowly another process reads, it never sees parts of two photos; and
\* if it opened the file of an announced photo that met no fault before the name
\* came up again, what it reads is that photo.
ReaderSeesOnePhoto ==
    /\ \A i, j \in 1..Len(got) : got[i] # None /\ got[j] # None => got[i] = got[j]
    /\ prompt /\ rd \notin faulty => \A i \in 1..Len(got) : got[i] = rd

\* As long as raw pictures and recordings have not used the descriptors up, a
\* photo that met no fault is announced, and is whole under its name until the
\* name comes up again, TempFiles photos later.
PhotoStays ==
    \A p \in 1..photos :
        /\ p < photos \/ jpg = "idle"
        /\ p \notin faulty /\ leaks < MaxFd /\ photos - p < TempFiles
        => told[p] # None /\ dir[told[p]] # None /\ content[dir[told[p]]] = Whole(p)
=============================================================================
