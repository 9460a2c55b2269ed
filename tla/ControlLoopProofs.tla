-------------------------- MODULE ControlLoopProofs -------------------------
(***************************************************************************)
(* Proofs about ControlLoop, for any messages, any number of them waiting  *)
(* and any rate.  The invariant says of a message in the hands of          *)
(* handle_sub_msg that each field has what was meant for it or has still   *)
(* an assignment coming, and of an undisturbed photo that what it read of  *)
(* the status is still true.                                               *)
(***************************************************************************)
EXTENDS ControlLoop, TLAPS

Messages == GpsMessages \cup WorkMessages

FieldValues == Fields \X Int

\* The assignments of a sequence of them.
Pairs(s) == {s[k] : k \in 1..Len(s)}

\* Every field of s has its value in v or an assignment of that value to come.
Owed(pairs, s, v) ==
    /\ \A p \in pairs : p[2] = v[p[1]] \/ p[2] = Throw
    /\ \A f \in Fields : s[f] = v[f] \/ \E p \in pairs : p[1] = f

Settled == main \notin {"handle", "dead"} => todo = <<>> /\ status = told

Pending == main = "handle" => Owed(Pairs(todo), status, told)

Calm == calm => /\ main # "handle" /\ status = told
                /\ photo = "note" => \A f \in NoteFields : note[f] \in {Unread, told[f]}
                /\ photo = "save" => \A f \in NoteFields \cup {"position"} : note[f] = told[f]

Blank == photo = "idle" => note = FreshNote

IInv == TypeOK /\ Settled /\ Pending /\ Calm /\ Blank
-----------------------------------------------------------------------------
LEMMA PairsOfConcat ==
    ASSUME NEW S, NEW s \in Seq(S), NEW t \in Seq(S)
    PROVE  s \o t \in Seq(S) /\ Pairs(s \o t) = Pairs(s) \cup Pairs(t)
<1>1. /\ s \o t \in Seq(S) /\ Len(s \o t) = Len(s) + Len(t) /\ Len(s) \in Nat /\ Len(t) \in Nat
      /\ \A k \in 1..Len(s) : (s \o t)[k] = s[k]
      /\ \A k \in 1..Len(t) : (s \o t)[Len(s) + k] = t[k]
  OBVIOUS
<1>2. Pairs(s \o t) \subseteq Pairs(s) \cup Pairs(t)
  <2>1. SUFFICES ASSUME NEW k \in 1..Len(s \o t) PROVE (s \o t)[k] \in Pairs(s) \cup Pairs(t)
    BY DEF Pairs
  <2>2. CASE k \in 1..Len(s)  BY <1>1, <2>2 DEF Pairs
  <2>3. CASE k \notin 1..Len(s)
    <3>1. k - Len(s) \in 1..Len(t) /\ Len(s) + (k - Len(s)) = k  BY <1>1, <2>1, <2>3
    <3>2. QED BY <1>1, <3>1 DEF Pairs
  <2>4. QED BY <2>2, <2>3
<1>3. Pairs(s) \subseteq Pairs(s \o t)
  <2>1. \A k \in 1..Len(s) : k \in 1..Len(s \o t)  BY <1>1
  <2>2. QED BY <1>1, <2>1 DEF Pairs
<1>4. Pairs(t) \subseteq Pairs(s \o t)
  <2>1. \A k \in 1..Len(t) : Len(s) + k \in 1..Len(s \o t)  BY <1>1
  <2>2. QED BY <1>1, <2>1 DEF Pairs
<1>5. QED BY <1>1, <1>2, <1>3, <1>4

LEMMA PairsOfOne == ASSUME NEW p PROVE Pairs(<<p>>) = {p} /\ Pairs(<<>>) = {}
BY DEF Pairs

LEMMA PairsOfTail ==
    ASSUME NEW S, NEW s \in Seq(S), s # <<>>
    PROVE  Pairs(s) = {Head(s)} \cup Pairs(Tail(s)) /\ Tail(s) \in Seq(S) /\ Head(s) \in S
<1>1. /\ Tail(s) \in Seq(S) /\ Len(Tail(s)) = Len(s) - 1 /\ Head(s) = s[1] /\ Head(s) \in S
      /\ Len(s) \in Nat /\ Len(s) # 0
      /\ \A k \in 1..(Len(s) - 1) : Tail(s)[k] = s[k + 1]
  OBVIOUS
<1>2. \A k \in 1..Len(s) : k = 1 \/ (k - 1 \in 1..(Len(s) - 1) /\ (k - 1) + 1 = k)  BY <1>1
<1>3. \A k \in 1..(Len(s) - 1) : k + 1 \in 1..Len(s)  BY <1>1
<1>4. 1 \in 1..Len(s)  BY <1>1
<1>5. Pairs(s) \subseteq {Head(s)} \cup Pairs(Tail(s))
  <2>1. SUFFICES ASSUME NEW k \in 1..Len(s), k # 1 PROVE s[k] \in Pairs(Tail(s))
    BY <1>1 DEF Pairs
  <2>2. k - 1 \in 1..(Len(s) - 1) /\ Tail(s)[k - 1] = s[k]  BY <1>1, <1>2, <2>1
  <2>3. QED BY <1>1, <2>2 DEF Pairs
<1>6. {Head(s)} \cup Pairs(Tail(s)) \subseteq Pairs(s)  BY <1>1, <1>3, <1>4 DEF Pairs
<1>7. QED BY <1>1, <1>5, <1>6
-----------------------------------------------------------------------------
LEMMA Values ==
    ASSUME NEW m \in Messages, NEW key
    PROVE  /\ getStrFromJson(m, key) \in Int /\ getFloatFromJson(m, key) \in Int
           /\ Number(getStrFromJson(m, key)) \in Int
           /\ Level(Number(getStrFromJson(m, key))) \in Int
           /\ key \notin DOMAIN m.data <=> getStrFromJson(m, key) = Missing
           /\ key \in DOMAIN m.data =>
                 /\ Number(getStrFromJson(m, key)) \in {m.data[key], Throw}
                 /\ Level(Number(getStrFromJson(m, key))) \in {Level(m.data[key]), Throw}
                 /\ Level(m.data[key]) \in Int /\ m.data[key] \in Int
                 /\ getStrFromJson(m, key) \in {m.data[key], Throw}
           /\ key \notin DOMAIN m.data => getFloatFromJson(m, key) = 0
<1>1. key \in DOMAIN m.data => m.data[key] \in Nat \cup {Garbled, Null}
  BY MessageAssumption DEF Messages, Message
<1>2. CASE key \in DOMAIN m.data
  BY <1>1, <1>2
     DEF getStrFromJson, getFloatFromJson, Number, Level, Missing, Garbled, Null, Throw
<1>3. CASE key \notin DOMAIN m.data
  BY <1>3 DEF getStrFromJson, getFloatFromJson, Number, Level, Missing, Garbled, Throw
<1>4. QED BY <1>2, <1>3

\* s holds the assignment of field f, if v gives it another value.
SetsOnly(s, f, v) ==
    /\ s \in Seq(FieldValues)
    /\ \A x \in Pairs(s) : x[1] = f /\ x[2] \in {v[f], Throw}
    /\ v[f] = told[f] \/ \E x \in Pairs(s) : x[1] = f

LEMMA OneSets ==
    ASSUME NEW v, NEW f \in Fields, NEW n \in Int, n \in {v[f], Throw}, NEW s, s = << <<f, n>> >>
    PROVE  SetsOnly(s, f, v)
<1>. DEFINE x == <<f, n>>
<1>1. x \in FieldValues /\ x[1] = f /\ x[2] = n  BY DEF FieldValues
<1>2. Pairs(s) = {x}  BY PairsOfOne
<1>3. s \in Seq(FieldValues)  BY <1>1
<1>4. QED BY <1>1, <1>2, <1>3 DEF SetsOnly

LEMMA NoneSets ==
    ASSUME NEW v, NEW f, v[f] = told[f], NEW s, s = <<>>
    PROVE  SetsOnly(s, f, v)
<1>1. Pairs(s) = {}  BY PairsOfOne
<1>2. s \in Seq(FieldValues)  OBVIOUS
<1>3. QED BY <1>1, <1>2 DEF SetsOnly

\* What handle_sub_msg is going to assign is what the message means.
LEMMA AssignmentsAreMeant ==
    ASSUME TypeOK, NEW m \in Messages
    PROVE  /\ Assignments(m) \in Seq(FieldValues)
           /\ Meant(m) \in [Fields -> Int]
           /\ Owed(Pairs(Assignments(m)), told, Meant(m))
<1>. DEFINE A == Assignments(m)  v == Meant(m)
<1>1. told \in [Fields -> Int]  BY DEF TypeOK
<1>2. \A f \in Fields : v[f] = MeantFor(m, f)  BY DEF Meant
<1>3. v \in [Fields -> Int]
  <2>1. SUFFICES ASSUME NEW f \in Fields PROVE MeantFor(m, f) \in Int  BY DEF Meant
  <2>2. told[f] \in Int  BY <1>1
  <2>3. \A key : /\ getFloatFromJson(m, key) \in Int
                 /\ key \in DOMAIN m.data => m.data[key] \in Int /\ Level(m.data[key]) \in Int
    BY Values
  <2>4. QED BY <2>2, <2>3 DEF MeantFor, Says
<1>4. CASE m.cmd = "GPS"
  <2>. DEFINE n == IF Number(getStrFromJson(m, "time_stamp")) = Throw THEN Throw
                   ELSE getStrFromJson(m, "position")
  <2>1. A = GpsAssignments(m)  BY <1>4 DEF Assignments
  <2>2. \A f \in Fields \ {"position"} : v[f] = told[f]
    BY <1>2, <1>4 DEF Fields, MeantFor, Says
  <2>3. "position" \in Fields  BY DEF Fields
  <2>4. SetsOnly(A, "position", v)
    <3>1. CASE getStrFromJson(m, "position") \in {Missing, Garbled}
      <4>1. A = <<>>  BY <2>1, <3>1 DEF GpsAssignments
      <4>2. "position" \in DOMAIN m.data => m.data["position"] = Garbled
        BY <3>1, Values DEF Missing, Garbled, Throw, getStrFromJson
      <4>3. v["position"] = told["position"]
        BY <1>2, <1>4, <2>3, <4>2 DEF MeantFor, Says
      <4>. HIDE DEF A, v
      <4>4. QED BY <4>1, <4>3, NoneSets
    <3>2. CASE getStrFromJson(m, "position") \notin {Missing, Garbled}
      <4>1. A = << <<"position", n>> >>  BY <2>1, <3>2 DEF GpsAssignments
      <4>2. "position" \in DOMAIN m.data  BY <3>2, Values
      <4>3. n \in Int /\ n \in {m.data["position"], Throw}
        <5>1. getStrFromJson(m, "position") \in {m.data["position"], Throw}  BY <4>2, Values
        <5>2. getStrFromJson(m, "position") \in Int /\ Throw \in Int  BY Values DEF Throw
        <5>3. QED BY <5>1, <5>2
      <4>4. m.data["position"] # Garbled
        BY <3>2, <4>2 DEF getStrFromJson, Garbled, Null
      <4>5. v["position"] = m.data["position"]
        BY <1>2, <1>4, <2>3, <4>2, <4>4 DEF MeantFor, Says
      <4>6. n \in {v["position"], Throw}  BY <4>3, <4>5
      <4>. HIDE DEF A, v, n
      <4>7. QED BY <2>3, <4>1, <4>3, <4>6, OneSets
    <3>3. QED BY <3>1, <3>2
  <2>5. Owed(Pairs(A), told, v)
    <3>. HIDE DEF A, v
    <3>1. QED BY <2>2, <2>4 DEF SetsOnly, Owed
  <2>6. QED BY <1>3, <2>4, <2>5 DEF SetsOnly
<1>5. CASE m.cmd = "DeviceStatus"
  <2>. DEFINE c == Number(getStrFromJson(m, "cmos_temp"))
              w == Number(getStrFromJson(m, "total_voltage"))
              p == <<"cmos_temperature", c>>
              q == <<"input_voltage", w>>
  <2>1. A = <<p, q>>  BY <1>5 DEF Assignments, DeviceAssignments
  <2>2. p \in FieldValues /\ q \in FieldValues  BY Values DEF Fields, FieldValues
  <2>3. A \in Seq(FieldValues) /\ Pairs(A) = {p, q}
    <3>. DEFINE sp == <<p>>  sq == <<q>>
    <3>0. A = sp \o sq  BY <2>1
    <3>1. sp \in Seq(FieldValues) /\ sq \in Seq(FieldValues)
      <4>. HIDE DEF p, q
      <4>1. QED BY <2>2
    <3>2. A \in Seq(FieldValues) /\ Pairs(A) = Pairs(sp) \cup Pairs(sq)
      <4>. HIDE DEF sp, sq, A
      <4>1. QED BY <3>0, <3>1, PairsOfConcat
    <3>3. QED BY <3>2, PairsOfOne
  <2>4. c \in {v["cmos_temperature"], Throw}
    <3>1. CASE "cmos_temp" \in DOMAIN m.data
      <4>1. c \in {m.data["cmos_temp"], Throw}  BY <3>1, Values
      <4>2. QED BY <1>2, <1>5, <3>1, <4>1 DEF Fields, MeantFor, Says
    <3>2. CASE "cmos_temp" \notin DOMAIN m.data  BY <3>2, Values DEF Number
    <3>3. QED BY <3>1, <3>2
  <2>5. w \in {v["input_voltage"], Throw}
    <3>1. CASE "total_voltage" \in DOMAIN m.data
      <4>1. w \in {m.data["total_voltage"], Throw}  BY <3>1, Values
      <4>2. QED BY <1>2, <1>5, <3>1, <4>1 DEF Fields, MeantFor, Says
    <3>2. CASE "total_voltage" \notin DOMAIN m.data  BY <3>2, Values DEF Number
    <3>3. QED BY <3>1, <3>2
  <2>6. \A f \in Fields \ {"cmos_temperature", "input_voltage"} : v[f] = told[f]
    BY <1>2, <1>5 DEF Fields, MeantFor, Says
  <2>7. Owed(Pairs(A), told, v)
    <3>1. p[1] = "cmos_temperature" /\ p[2] = c /\ q[1] = "input_voltage" /\ q[2] = w  OBVIOUS
    <3>2. QED BY <2>3, <2>4, <2>5, <2>6, <3>1 DEF Owed
  <2>8. QED BY <1>3, <2>3, <2>7
<1>6. CASE m.cmd = "workStatus"
  <2>. DEFINE p == <<"shutter_mode", getFloatFromJson(m, "shutter_mode")>>
              nr == SetIfThere(m, "noise_reduction_strength", "noise_reduction_strength",
                               Number(getStrFromJson(m, "noise_reduction_strength")))
              jq == SetIfThere(m, "photo_resolve", "jpeg_quality_level",
                               Level(Number(getStrFromJson(m, "photo_resolve"))))
              sc == SetIfThere(m, "shutter_count", "shutter_count",
                               Number(getStrFromJson(m, "shutter_count")))
  <2>1. A = ((<<p>> \o nr) \o jq) \o sc  BY <1>6 DEF Assignments, WorkAssignments
  <2>2. SetsOnly(<<p>>, "shutter_mode", v)
    <3>1. "shutter_mode" \in Fields  BY DEF Fields
    <3>2. v["shutter_mode"] = getFloatFromJson(m, "shutter_mode")
      BY <1>2, <1>6, <3>1 DEF MeantFor
    <3>3. QED BY <3>1, <3>2, Values, OneSets
  <2>3. SetsOnly(nr, "noise_reduction_strength", v)
    <3>. DEFINE n == Number(getStrFromJson(m, "noise_reduction_strength"))
    <3>1. "noise_reduction_strength" \in Fields  BY DEF Fields
    <3>2. CASE "noise_reduction_strength" \in DOMAIN m.data
      <4>1. nr = << <<"noise_reduction_strength", n>> >>  BY <3>2, Values DEF SetIfThere
      <4>2. n \in Int /\ n \in {m.data["noise_reduction_strength"], Throw}  BY <3>2, Values
      <4>3. v["noise_reduction_strength"] = m.data["noise_reduction_strength"]
        BY <1>2, <1>6, <3>1, <3>2 DEF MeantFor, Says
      <4>4. n \in {v["noise_reduction_strength"], Throw}  BY <4>2, <4>3
      <4>. HIDE DEF n, nr, v
      <4>5. QED BY <3>1, <4>1, <4>2, <4>4, OneSets
    <3>3. CASE "noise_reduction_strength" \notin DOMAIN m.data
      <4>1. nr = <<>>  BY <3>3, Values DEF SetIfThere
      <4>2. v["noise_reduction_strength"] = told["noise_reduction_strength"]
        BY <1>2, <1>6, <3>1, <3>3 DEF MeantFor, Says
      <4>. HIDE DEF nr, v
      <4>3. QED BY <4>1, <4>2, NoneSets
    <3>4. QED BY <3>2, <3>3
  <2>4. SetsOnly(jq, "jpeg_quality_level", v)
    <3>. DEFINE n == Level(Number(getStrFromJson(m, "photo_resolve")))
    <3>1. "jpeg_quality_level" \in Fields  BY DEF Fields
    <3>2. CASE "photo_resolve" \in DOMAIN m.data
      <4>1. jq = << <<"jpeg_quality_level", n>> >>  BY <3>2, Values DEF SetIfThere
      <4>2. n \in Int /\ n \in {Level(m.data["photo_resolve"]), Throw}  BY <3>2, Values
      <4>3. v["jpeg_quality_level"] = Level(m.data["photo_resolve"])
        BY <1>2, <1>6, <3>1, <3>2 DEF MeantFor, Says
      <4>4. n \in {v["jpeg_quality_level"], Throw}  BY <4>2, <4>3
      <4>. HIDE DEF n, jq, v
      <4>5. QED BY <3>1, <4>1, <4>2, <4>4, OneSets
    <3>3. CASE "photo_resolve" \notin DOMAIN m.data
      <4>1. jq = <<>>  BY <3>3, Values DEF SetIfThere
      <4>2. v["jpeg_quality_level"] = told["jpeg_quality_level"]
        BY <1>2, <1>6, <3>1, <3>3 DEF MeantFor, Says
      <4>. HIDE DEF jq, v
      <4>3. QED BY <4>1, <4>2, NoneSets
    <3>4. QED BY <3>2, <3>3
  <2>5. SetsOnly(sc, "shutter_count", v)
    <3>. DEFINE n == Number(getStrFromJson(m, "shutter_count"))
    <3>1. "shutter_count" \in Fields  BY DEF Fields
    <3>2. CASE "shutter_count" \in DOMAIN m.data
      <4>1. sc = << <<"shutter_count", n>> >>  BY <3>2, Values DEF SetIfThere
      <4>2. n \in Int /\ n \in {m.data["shutter_count"], Throw}  BY <3>2, Values
      <4>3. v["shutter_count"] = m.data["shutter_count"]
        BY <1>2, <1>6, <3>1, <3>2 DEF MeantFor, Says
      <4>4. n \in {v["shutter_count"], Throw}  BY <4>2, <4>3
      <4>. HIDE DEF n, sc, v
      <4>5. QED BY <3>1, <4>1, <4>2, <4>4, OneSets
    <3>3. CASE "shutter_count" \notin DOMAIN m.data
      <4>1. sc = <<>>  BY <3>3, Values DEF SetIfThere
      <4>2. v["shutter_count"] = told["shutter_count"]
        BY <1>2, <1>6, <3>1, <3>3 DEF MeantFor, Says
      <4>. HIDE DEF sc, v
      <4>3. QED BY <4>1, <4>2, NoneSets
    <3>4. QED BY <3>2, <3>3
  <2>6. \A f \in {"position", "cmos_temperature", "input_voltage"} : v[f] = told[f]
    BY <1>2, <1>6 DEF Fields, MeantFor, Says
  <2>. HIDE DEF p, nr, jq, sc, v, A
  <2>7. A \in Seq(FieldValues) /\ Pairs(A) = ((Pairs(<<p>>) \cup Pairs(nr)) \cup Pairs(jq)) \cup Pairs(sc)
    <3>. DEFINE sp == <<p>>  s1 == sp \o nr  s2 == s1 \o jq
    <3>0. A = s2 \o sc  BY <2>1
    <3>1. sp \in Seq(FieldValues) /\ nr \in Seq(FieldValues) /\ jq \in Seq(FieldValues)
          /\ sc \in Seq(FieldValues)
      BY <2>2, <2>3, <2>4, <2>5 DEF SetsOnly
    <3>. HIDE DEF sp
    <3>2. s1 \in Seq(FieldValues) /\ Pairs(s1) = Pairs(sp) \cup Pairs(nr)
      BY <3>1, PairsOfConcat
    <3>. HIDE DEF s1
    <3>3. s2 \in Seq(FieldValues) /\ Pairs(s2) = Pairs(s1) \cup Pairs(jq)
      BY <3>1, <3>2, PairsOfConcat
    <3>. HIDE DEF s2
    <3>4. A \in Seq(FieldValues) /\ Pairs(A) = Pairs(s2) \cup Pairs(sc)
      BY <3>0, <3>1, <3>3, PairsOfConcat
    <3>5. QED BY <3>2, <3>3, <3>4 DEF sp
  <2>8. Owed(Pairs(A), told, v)
    <3>1. \A x \in Pairs(A) : x[2] = v[x[1]] \/ x[2] = Throw
      BY <2>2, <2>3, <2>4, <2>5, <2>7 DEF SetsOnly
    <3>2. \A f \in Fields : told[f] = v[f] \/ \E x \in Pairs(A) : x[1] = f
      BY <2>2, <2>3, <2>4, <2>5, <2>6, <2>7 DEF Fields, SetsOnly
    <3>3. QED BY <3>1, <3>2 DEF Owed
  <2>9. QED BY <1>3, <2>7, <2>8 DEF A, v
<1>7. CASE m.cmd \notin {"GPS", "DeviceStatus", "workStatus"}
  <2>1. A = <<>>  BY <1>7 DEF Assignments
  <2>2. \A f \in Fields : v[f] = told[f]  BY <1>2, <1>7 DEF Fields, MeantFor, Says
  <2>3. Pairs(A) = {}  BY <2>1, PairsOfOne
  <2>4. Owed(Pairs(A), told, v)  BY <2>2, <2>3 DEF Owed
  <2>5. QED BY <1>3, <2>1, <2>4
<1>8. QED BY <1>4, <1>5, <1>6, <1>7
-----------------------------------------------------------------------------
LEMMA InitIInv == ASSUME Init PROVE IInv
<1>1. PICK t \in Settings : flag = t.flag /\ peers = t.peers  BY DEF Init
<1>2. TypeOK
  <2>1. flag \subseteq Flags /\ peers \subseteq Peers  BY <1>1, SettingAssumption
  <2>2. gps \in Seq(GpsMessages) /\ work \in Seq(WorkMessages) /\ todo \in Seq(Fields \X Int)
    BY DEF Init
  <2>3. note \in [Fields -> Int]  BY DEF Init, Unread
  <2>4. sinceGps \in 0..GpsPeriod  BY RateAssumption DEF Init
  <2>5. status \in [Fields -> Int] /\ told \in [Fields -> Int]  BY StartAssumption DEF Init
  <2>6. {abort, recording, calm} \subseteq BOOLEAN  BY DEF Init
  <2>7. quality \in Int  BY DEF Init, Missing
  <2>8. QED BY <2>1, <2>2, <2>3, <2>4, <2>5, <2>6, <2>7 DEF Init, TypeOK
<1>3. QED BY <1>2 DEF Init, IInv, Settled, Pending, Calm, Blank, FreshNote

\* A message is taken out of a subscriber.
LEMMA HandleIInv == ASSUME IInv, ReceiveGps \/ ReceiveWork PROVE IInv'
<1>1. PICK m \in Messages : Handle(m)
  <2>1. CASE ReceiveGps
    <3>1. Head(gps) \in GpsMessages  BY <2>1 DEF ReceiveGps, IInv, TypeOK
    <3>2. QED BY <2>1, <3>1 DEF ReceiveGps, Messages
  <2>2. CASE ReceiveWork
    <3>1. Head(work) \in WorkMessages  BY <2>2 DEF ReceiveWork, IInv, TypeOK
    <3>2. QED BY <2>2, <3>1 DEF ReceiveWork, Messages
  <2>3. QED BY <2>1, <2>2
<1>2. gps' \in Seq(GpsMessages) /\ work' \in Seq(WorkMessages)
  <2>1. gps \in Seq(GpsMessages) /\ work \in Seq(WorkMessages)  BY DEF IInv, TypeOK
  <2>2. CASE ReceiveGps
    <3>1. gps # <<>> /\ gps' = Tail(gps) /\ work' = work  BY <2>2 DEF ReceiveGps
    <3>2. QED BY <2>1, <3>1
  <2>3. CASE ReceiveWork
    <3>1. work # <<>> /\ work' = Tail(work) /\ gps' = gps  BY <2>3 DEF ReceiveWork
    <3>2. QED BY <2>1, <3>1
  <2>4. QED BY <2>2, <2>3
<1>3. /\ Assignments(m) \in Seq(FieldValues) /\ Meant(m) \in [Fields -> Int]
      /\ Owed(Pairs(Assignments(m)), told, Meant(m))
  BY AssignmentsAreMeant DEF IInv
<1>4. /\ main' = "handle" /\ todo' = Assignments(m) /\ told' = Meant(m) /\ calm' = FALSE
      /\ UNCHANGED <<setup, sinceGps, client, status, recording, photo, note>>
  BY <1>1 DEF Handle
<1>5. quality' \in Int
  <2>1. quality \in Int  BY DEF IInv, TypeOK
  <2>2. Says(m, "workStatus", "photo_resolve") => m.data["photo_resolve"] \in Int
    BY Values DEF Says
  <2>3. QED BY <1>1, <2>1, <2>2 DEF Handle
<1>6. TypeOK'
  BY <1>2, <1>3, <1>4, <1>5 DEF IInv, TypeOK, setup, client, FieldValues
<1>7. status = told  BY DEF ReceiveGps, ReceiveWork, IInv, Settled
<1>8. Pending'
  <2>1. Pairs(todo)' = Pairs(Assignments(m))  BY <1>4 DEF Pairs
  <2>2. QED BY <1>3, <1>4, <1>7, <2>1 DEF Pending, Owed
<1>9. Settled' /\ Calm'  BY <1>4 DEF Settled, Calm
<1>10. Blank'  BY <1>4 DEF IInv, Blank, FreshNote
<1>11. QED BY <1>6, <1>8, <1>9, <1>10 DEF IInv

LEMMA AssignIInv == ASSUME IInv, Assign PROVE IInv'
<1>. DEFINE p == Head(todo)
<1>1. /\ todo \in Seq(FieldValues) /\ todo # <<>> /\ main = "handle" /\ calm = FALSE
      /\ Owed(Pairs(todo), status, told)
  BY DEF IInv, TypeOK, FieldValues, Pending, Calm, Assign
<1>2. Pairs(todo) = {p} \cup Pairs(Tail(todo)) /\ Tail(todo) \in Seq(FieldValues) /\ p \in FieldValues
  BY <1>1, PairsOfTail
<1>3. /\ todo' = Tail(todo) /\ status' = [status EXCEPT ![p[1]] = p[2]] /\ p[2] # Throw
      /\ UNCHANGED <<setup, main, sockets, recording, ipcu, history>>
  BY DEF Assign
<1>. HIDE DEF p
<1>4. p[1] \in Fields /\ p[2] \in Int  BY <1>2 DEF FieldValues
<1>5. p[2] = told[p[1]]  BY <1>1, <1>2, <1>3 DEF Owed
<1>6. Owed(Pairs(Tail(todo)), status', told)
  <2>1. \A q \in Pairs(Tail(todo)) : q[2] = told[q[1]] \/ q[2] = Throw  BY <1>1, <1>2 DEF Owed
  <2>2. ASSUME NEW f \in Fields
        PROVE  status'[f] = told[f] \/ \E q \in Pairs(Tail(todo)) : q[1] = f
    <3>1. CASE f = p[1]  BY <1>3, <1>4, <1>5, <3>1 DEF IInv, TypeOK
    <3>2. CASE f # p[1]
      <4>1. status'[f] = status[f]  BY <1>3, <1>4, <3>2 DEF IInv, TypeOK
      <4>2. status[f] = told[f] \/ \E q \in Pairs(todo) : q[1] = f  BY <1>1 DEF Owed
      <4>3. QED BY <1>2, <3>2, <4>1, <4>2
    <3>3. QED BY <3>1, <3>2
  <2>3. QED BY <2>1, <2>2 DEF Owed
<1>7. Pending'
  <2>1. Pairs(todo)' = Pairs(Tail(todo)) /\ told' = told  BY <1>3 DEF Pairs, history
  <2>2. QED BY <1>6, <2>1 DEF Pending, Owed
<1>8. TypeOK'
  BY <1>2, <1>3, <1>4 DEF IInv, TypeOK, FieldValues, setup, sockets, queues, client, ipcu, history
<1>9. Settled' /\ Calm' /\ Blank'
  BY <1>1, <1>3 DEF IInv, Settled, Calm, Blank, FreshNote, ipcu
<1>10. QED BY <1>7, <1>8, <1>9 DEF IInv

LEMMA EndHandleIInv == ASSUME IInv, EndHandle PROVE IInv'
<1>1. main = "handle" /\ todo = <<>> /\ main' = "command" /\ calm = FALSE
      /\ UNCHANGED <<setup, sockets, todo, status, recording, ipcu, history>>
  BY DEF EndHandle, AfterMessage, IInv, Calm
<1>2. status = told
  <2>1. Pairs(todo) = {}  BY <1>1, PairsOfOne
  <2>2. \A f \in Fields : status[f] = told[f]  BY <1>1, <2>1 DEF IInv, Pending, Owed
  <2>3. QED BY <2>2 DEF IInv, TypeOK
<1>3. TypeOK'
  BY <1>1 DEF IInv, TypeOK, setup, sockets, queues, client, ipcu, history
<1>4. Settled' /\ Pending'  BY <1>1, <1>2 DEF Settled, Pending, history
<1>5. Calm' /\ Blank'  BY <1>1 DEF IInv, Calm, Blank, FreshNote, ipcu
<1>6. QED BY <1>3, <1>4, <1>5 DEF IInv

\* The other steps of the main thread, and those of the other processes.
LEMMA OtherIInv ==
    ASSUME IInv,
           \/ NoGps \/ NoWork \/ AssignThrows \/ ReceiveCmd \/ CmdKills \/ NoCmd \/ Stop \/ Signal
           \/ SendGps \/ SendWork \/ SendRequest \/ GetAnswer \/ UNCHANGED vars
    PROVE  IInv'
<1>. USE DEF setup, sockets, queues, client, ipcu, history, vars
<1>1. /\ UNCHANGED <<todo, status, told, quality, photo, note, calm>>
      /\ main' = main \/ (main' # "handle" /\ main # "dead" /\ (main = "handle" => main' = "dead"))
  BY DEF NoGps, AfterNoGps, NoWork, AssignThrows, Terminate, ReceiveCmd, EndTurn, CmdKills, NoCmd,
         Stop, Signal, SendGps, SendWork, SendRequest, GetAnswer
<1>2. TypeOK'
  <2>. USE RateAssumption DEF IInv, TypeOK
  <2>1. CASE NoGps \/ NoWork \/ AssignThrows \/ CmdKills \/ Stop \/ Signal \/ UNCHANGED vars
    BY <2>1 DEF NoGps, AfterNoGps, NoWork, AssignThrows, Terminate, CmdKills, Stop, Signal
  <2>2. CASE ReceiveCmd
    <3>1. recording' \in BOOLEAN
      <4>1. PICK result : HandleCmd(result)  BY <2>2 DEF ReceiveCmd
      <4>2. recording \in BOOLEAN  OBVIOUS
      <4>3. QED BY <4>1, <4>2 DEF HandleCmd
    <3>2. sinceGps' \in 0..GpsPeriod  BY <2>2 DEF ReceiveCmd, EndTurn
    <3>3. main' \in {"gps", "stop"} /\ request' = "none" /\ answer' \in {"success", "failed"}
      BY <2>2 DEF ReceiveCmd, EndTurn
    <3>4. UNCHANGED <<flag, peers, abort, gps, work, todo, status, told, quality, photo, note, calm>>
      BY <2>2 DEF ReceiveCmd
    <3>5. {abort', recording', calm'} \subseteq BOOLEAN  BY <3>1, <3>4
    <3>6. QED BY <3>2, <3>3, <3>4, <3>5
  <2>3. CASE NoCmd  BY <2>3 DEF NoCmd, EndTurn
  <2>4. CASE SendGps  BY <2>4 DEF SendGps
  <2>5. CASE SendWork  BY <2>5 DEF SendWork
  <2>6. CASE SendRequest \/ GetAnswer  BY <2>6 DEF SendRequest, GetAnswer
  <2>7. QED BY <2>1, <2>2, <2>3, <2>4, <2>5, <2>6
<1>3. Settled'  BY <1>1 DEF IInv, Settled
<1>4. Pending'
  <2>1. Pairs(todo)' = Pairs(todo)  BY <1>1 DEF Pairs
  <2>2. main' = "handle" => main = "handle"  BY <1>1
  <2>3. QED BY <1>1, <2>1, <2>2 DEF IInv, Pending, Owed
<1>5. Calm' /\ Blank'  BY <1>1 DEF IInv, Calm, Blank, FreshNote
<1>6. QED BY <1>2, <1>3, <1>4, <1>5 DEF IInv

LEMMA PhotoIInv == ASSUME IInv, Photo PROVE IInv'
<1>. USE DEF setup, sockets, queues, client, ipcu, history
<1>1. UNCHANGED <<setup, main, sockets, todo, status, recording, history>>
  BY DEF Photo, BeginExif, ReadField, ReadPosition, SavePhoto
<1>2. Settled' /\ Pending'  BY <1>1 DEF IInv, Settled, Pending, Pairs, Owed
<1>3. \A f \in Fields : status[f] \in Int  BY DEF IInv, TypeOK
<1>4. CASE BeginExif
  <2>1. photo' = "note" /\ note' = note /\ calm' = (main # "handle") /\ main # "dead"
    BY <1>4 DEF BeginExif, Running
  <2>2. calm' => status = told  BY <2>1 DEF IInv, Settled
  <2>3. QED
    <3>1. TypeOK'  BY <1>1, <2>1 DEF IInv, TypeOK
    <3>2. note = [f \in Fields |-> Unread]  BY <1>4 DEF BeginExif, IInv, Blank, FreshNote
    <3>3. \A f \in NoteFields : note[f] = Unread  BY <3>2 DEF NoteFields
    <3>4. Calm'  BY <1>1, <2>1, <2>2, <3>3 DEF Calm
    <3>5. Blank'  BY <2>1 DEF Blank
    <3>6. QED BY <1>2, <3>1, <3>4, <3>5 DEF IInv
<1>5. CASE ReadField
  <2>1. PICK f \in NoteFields : note' = [note EXCEPT ![f] = status[f]] /\ photo = "note"
                                /\ photo' = photo /\ calm' = calm
    BY <1>5 DEF ReadField
  <2>2. f \in Fields  BY DEF NoteFields
  <2>3. TypeOK'  BY <1>1, <1>3, <2>1, <2>2 DEF IInv, TypeOK
  <2>4. \A g \in NoteFields : note'[g] = IF g = f THEN status[f] ELSE note[g]
    BY <2>1 DEF IInv, TypeOK, NoteFields
  <2>5. Calm'  BY <1>1, <2>1, <2>4 DEF IInv, Calm
  <2>6. Blank'  BY <2>1 DEF Blank
  <2>7. QED BY <1>2, <2>3, <2>5, <2>6 DEF IInv
<1>6. CASE ReadPosition
  <2>1. /\ note' = [note EXCEPT !["position"] = status["position"]]
        /\ photo = "note" /\ photo' = "save" /\ calm' = calm
        /\ \A f \in NoteFields : note[f] # Unread
    BY <1>6 DEF ReadPosition
  <2>2. "position" \in Fields /\ "position" \notin NoteFields  BY DEF Fields, NoteFields
  <2>3. TypeOK'  BY <1>1, <1>3, <2>1, <2>2 DEF IInv, TypeOK
  <2>4. note'["position"] = status["position"] /\ \A f \in NoteFields : note'[f] = note[f]
    BY <2>1, <2>2 DEF IInv, TypeOK, NoteFields
  <2>5. Calm'  BY <1>1, <2>1, <2>4 DEF IInv, Calm
  <2>6. Blank'  BY <2>1 DEF Blank
  <2>7. QED BY <1>2, <2>3, <2>5, <2>6 DEF IInv
<1>7. CASE SavePhoto
  <2>1. photo' = "idle" /\ calm' = FALSE /\ note' = [f \in Fields |-> Unread]
    BY <1>7 DEF SavePhoto, FreshNote
  <2>2. TypeOK'
    <3>1. note' \in [Fields -> Int]  BY <2>1 DEF Unread
    <3>2. QED BY <1>1, <2>1, <3>1 DEF IInv, TypeOK
  <2>3. Calm' /\ Blank'  BY <2>1 DEF Calm, Blank, FreshNote
  <2>4. QED BY <1>2, <2>2, <2>3 DEF IInv
<1>8. QED BY <1>4, <1>5, <1>6, <1>7 DEF Photo

\* The inductive invariant of the main loop holds in every reachable state.
THEOREM Invariant == Spec => []IInv
<1>1. Init => IInv  BY InitIInv
<1>2. IInv /\ [Next]_vars => IInv'
  BY HandleIInv, AssignIInv, EndHandleIInv, OtherIInv, PhotoIInv DEF Next, Loop
<1>3. QED BY <1>1, <1>2, PTL DEF Spec

\* Every variable of the main loop keeps its type.
THEOREM TypeCorrect == Spec => []TypeOK
<1>1. IInv => TypeOK  BY DEF IInv
<1>2. QED BY <1>1, Invariant, PTL

\* A photo whose EXIF block is made while no message is handled says of every
\* field the latest that the messages said, whatever messages came before.
THEOREM UndisturbedNotesAreLatest == Spec => []NoteIsLatest
<1>1. IInv => NoteIsLatest  BY DEF IInv, Calm, NoteIsLatest
<1>2. QED BY <1>1, Invariant, PTL
=============================================================================
