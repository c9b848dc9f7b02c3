----------------------------- MODULE Parameters ------------------------------
(***************************************************************************)
(* The parameters of a terminal: the table that gives every identifier its *)
(* codec, the list of an 8103 or 0104 message, and the update of a stored  *)
(* list by a received one.  An entry is [id, value]; its value is a record *)
(* with the fields of its layout.                                          *)
(***************************************************************************)
EXTENDS Octets

DoubleWordParams ==
    1..7 \cup {\h18, \h19, \h1B, \h1C} \cup \h20..\h22 \cup \h27..\h29 \cup \h2C..\h30
    \cup \h45..\h47 \cup \h50..\h5A \cup {\h64, \h65} \cup \h70..\h74 \cup {\h80, \h93, \h95, \h100, \h102}
WordParams == {\h31} \cup \h5B..\h5E \cup {\h81, \h82, \h101, \h103}
ByteParams == {\h84} \cup \h90..\h92 \cup {\h94}
TextParams == \h10..\h17 \cup {\h1A, \h1D} \cup \h23..\h26 \cup \h40..\h44 \cup {\h48, \h49, \h83, \h110}
BCDParams == {\h32} \cup \h75..\h77 \cup \h79..\h7C
DsmParam == \hF365

SupportedIds ==
    {0} \X (DoubleWordParams \cup WordParams \cup ByteParams \cup TextParams \cup BCDParams \cup {DsmParam})
Supported(id) == id \in SupportedIds

DsmSwitches ==
    <<Byte("AlarmSpeedThreshold"), Byte("AlarmVolume"), Byte("ProactivePhotoStrategy"),
      Word("ProactivePhotoInterval"), Word("ProactivePhotoDistanceInterval"),
      Byte("ProactivePhotoCount"), Byte("ProactivePhotoIntervalTime"),
      Byte("PhotoResolution"), Byte("VideoResolution"),
      DoubleWord("AlarmEnabled"), DoubleWord("EventEnabled"),
      Word("SmokingAlarmInterval"), Word("PhoneCallAlarmInterval"),
      Byte("ReservedField1"), Byte("ReservedField2"), Byte("ReservedField3")>>

DsmAlarms ==
    <<Byte("FatigueDrivingSpeedThreshold"), Byte("FatigueDrivingVideoRecordingTime"),
      Byte("FatigueDrivingPhotoCount"), Byte("FatigueDrivingPhotoInterval"),
      Byte("PhoneCallAlarmSpeedThreshold"), Byte("PhoneCallAlarmVideoRecordingTime"),
      Byte("PhoneCallDriverFacePhotoCount"), Byte("PhoneCallDriverFaceFeatureInterval"),
      Byte("SmokingAlarmSpeedThreshold"), Byte("SmokingAlarmVideoRecordingTime"),
      Byte("SmokingAlarmDriverFacePhotoCount"), Byte("SmokingAlarmDriverFacePhotoInterval"),
      Byte("DistractedDrivingSpeedThreshold"), Byte("DistractedDrivingVideoRecordingTime"),
      Byte("DistractedDrivingPhotoCount"), Byte("DistractedDrivingPhotoInterval"),
      Byte("AbnormalDrivingSpeedThreshold"), Byte("AbnormalDrivingVideoRecordingTime"),
      Byte("AbnormalDrivingSnapPhotoCount"), Byte("AbnormalDrivingSnapPhotoInterval"),
      Byte("DriverIdentificationTrigger"), Byte("ReservedField4"), Byte("ReservedField5")>>

\* The fields of a supported parameter.  Only text and digits heed the length n.
ParamLayout(id, n) ==
    CASE id[2] \in DoubleWordParams -> <<DoubleWord("value")>>
      [] id[2] \in WordParams       -> <<Word("value")>>
      [] id[2] \in ByteParams       -> <<Byte("value")>>
      [] id[2] \in TextParams       -> <<Bytes("value", n)>>
      [] id[2] \in BCDParams        -> <<BCD("value", n)>>
      [] id[2] = DsmParam           -> DsmSwitches \o DsmAlarms

-----------------------------------------------------------------------------
(* A list of parameters.                                                   *)

ParamHead == <<DoubleWord("ParamID"), Byte("ParamLen")>>

\* The next parameter after those in r.  An unsupported one has no codec to call.
ReadParam(s, r) ==
    LET at == From(s, r.idx)
        head == ReadAll(at, ParamHead)
        layout == ParamLayout(head.ParamID, head.ParamLen)
        value == From(at, SizeOf(ParamHead))
    IN IF r.panic \/ ~Readable(at, ParamHead)
       THEN [r EXCEPT !.panic = TRUE]
       ELSE IF ~Supported(head.ParamID) \/ ~Readable(value, layout)
       THEN [r EXCEPT !.panic = TRUE]
       ELSE [panic |-> FALSE,
             idx |-> r.idx + SizeOf(ParamHead) + SizeOf(layout),
             params |-> Append(r.params, [id |-> head.ParamID, value |-> ReadAll(value, layout)])]

ReadParams(s, cnt) ==
    Through(LAMBDA r, i : ReadParam(s, r),
             [panic |-> FALSE, idx |-> 0, params |-> <<>>],
             [i \in 1..cnt |-> i])

WriteParam(p) ==
    LET value == WriteAll(ParamLayout(p.id, 0), p.value) IN
    WriteDoubleWord(p.id) \o <<Len(value) % 256>> \o value

\* What has no codec is left out, and counted.
WriteParams(params) ==
    <<Len(params) % 256>>
    \o FlattenSeq([k \in DOMAIN params |->
                     IF Supported(params[k].id) THEN WriteParam(params[k]) ELSE <<>>])

\* A list whose values fit their types, and whose lengths fit their octets
HoldsParam(p) ==
    LET n == Len(WriteAll(ParamLayout(p.id, 0), p.value))
        layout == ParamLayout(p.id, n)
    IN /\ Supported(p.id)
       /\ p = [id |-> p.id, value |-> [x \in Names(layout) |-> p.value[x]]]
       /\ HoldAll(layout, p.value)
       /\ n \in Octet
HoldsParams(list) ==
    list \in Seq(Range(list)) /\ Len(list) < 2^8 /\ \A k \in DOMAIN list : HoldsParam(list[k])

\* DWORDs in their order
LessId(a, b) == a[1] < b[1] \/ (a[1] = b[1] /\ a[2] < b[2])
Entry(params, id) == params[CHOOSE k \in DOMAIN params :
                              params[k].id = id /\ \A j \in DOMAIN params : params[j].id = id => j <= k]
Ids(params) == {params[k].id : k \in DOMAIN params}

\* A set of identifiers in their order: before the k-th there are k - 1.
Below(ids, id) == {a \in ids : LessId(a, id)}
Sorted(ids) ==
    [k \in 1..Cardinality(ids) |-> CHOOSE id \in ids : Cardinality(Below(ids, id)) = k - 1]

FaultyUpdate(params, new) ==
    LET ids == Sorted(Ids(params) \cup Ids(new)) IN
    [k \in DOMAIN ids |-> Entry(IF ids[k] \in Ids(params) THEN params ELSE new, ids[k])]
\* What is stored takes its new value; what is not stored is not added.
Update(params, new) ==
    LET ids == Sorted(Ids(params)) IN
    [k \in DOMAIN ids |-> Entry(IF ids[k] \in Ids(new) THEN new ELSE params, ids[k])]
=============================================================================
