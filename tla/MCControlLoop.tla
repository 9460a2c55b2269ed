--------------------------- MODULE MCControlLoop ----------------------------
\* Small instances of ControlLoop for TLC.
EXTENDS ControlLoop

MCStart == [f \in Fields |-> CASE f = "position" -> Missing
                               [] f = "jpeg_quality_level" -> 2
                               [] OTHER -> 0]

\* Messages of the three kinds, with and without the keys that may be missing.
Gps == [cmd |-> "GPS", data |-> [position |-> 1, time_stamp |-> 1]]
Nowhere == [cmd |-> "GPS", data |-> [position |-> Garbled, time_stamp |-> 2]]
Timeless == [cmd |-> "GPS", data |-> [position |-> 2]]
Device == [cmd |-> "DeviceStatus", data |-> [cmos_temp |-> 1, total_voltage |-> 2]]
Cold == [cmd |-> "DeviceStatus", data |-> [total_voltage |-> 2]]
Full == [cmd |-> "workStatus",
         data |-> [shutter_mode |-> 1, photo_resolve |-> 95, shutter_count |-> 1]]
NoCount == [cmd |-> "workStatus", data |-> [shutter_mode |-> 2, shutter_count |-> Null]]
Quality(q) == [cmd |-> "workStatus", data |-> [photo_resolve |-> q]]

\* A photo while messages come, or a client who asks.
MCSettings ==
    {[flag |-> {"jpeg"}, peers |-> {"gps", "work", "camera"}]} \cup
    {[flag |-> f, peers |-> {"gps", "work", "client"}] : f \in {{}, {"video", "jpeg"}}}

FewGps == {Gps, Nowhere, Timeless}
FewMessages == {Device, Cold, Full, NoCount}
Qualities == {Quality(q) : q \in {80, 89, 90, 91, 99, 100}}
=============================================================================
