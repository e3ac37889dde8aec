-------------------------- MODULE RequestDecoderProofs --------------------------
(***************************************************************************)
(* The type invariant and the checks of RequestDecoder, for every set of     *)
(* requests (well-formed or not), every chunking, every size of the buffer   *)
(* and every limit on the size of a body.                                    *)
(***************************************************************************)
EXTENDS RequestDecoder, FiniteSetTheorems, TLAPS

(***************************************************************************)
(* The inductive invariant: while a body is being decoded, the view and the  *)
(* remaining content length shrink together, so what is known when           *)
(* DecodeMessageBody starts stays true in its loop.                          *)
(***************************************************************************)
BodyFunction == {"DecodeParamName", "DecodeParamValue", "DecodeParamSeparator"}

\* A function is set exactly while a request can be decoded.
FunctionInv ==
    /\ pc \in {"call", "return", "body"} => decode_function # "nullptr"
    /\ pc = "body" => ~is_decoding_header /\ ~is_final_input
    /\ is_decoding_header => ~is_final_input

InBody == ~is_decoding_header /\ decode_function # "nullptr"

BodyInv ==
    InBody =>
        /\ decode_function \in BodyFunction
        /\ found_content_length /\ request.http_method = "PUT"
        /\ \/ pc = "call"
           \/ pc = "return" /\ status = "kNeedMoreInput"
           => /\ Len(view) <= remaining_content_length
              /\ is_final_input <=> Len(view) = remaining_content_length
        /\ pc = "return" /\ status = "200" => remaining_content_length = 0
        /\ pc = "idle" => Len(view) < remaining_content_length /\ ~is_final_input

PathInv ==
    decode_function = "DecodeEndOfPath" =>
        /\ pc \in {"call", "return"}
        /\ Len(view) > 0
        /\ pc = "return" => status # "kNeedMoreInput"

IInv == TypeOK /\ FunctionInv /\ BodyInv /\ PathInv
-----------------------------------------------------------------------------
\* A count of leading symbols is at most the length of the text.
LEMMA CountFact ==
    ASSUME NEW T, NEW text \in Seq(T), NEW S
    PROVE  FindFirstNotOf(text, S) \in 0 .. Len(text)
<1> DEFINE leading == {i \in 1 .. Len(text) : \A j \in 1 .. i : text[j] \in S}
<1>1. leading \subseteq 1 .. Len(text)
  BY DEF leading
<1>2. IsFiniteSet(1 .. Len(text)) /\ Cardinality(1 .. Len(text)) = Len(text)
  <2>1. Len(text) \in Nat
    OBVIOUS
  <2> HIDE DEF leading
  <2>2. \A n \in Nat : IsFiniteSet(1 .. n) /\ Cardinality(1 .. n) = n
    <3> TAKE n \in Nat
    <3>1. 1 \in Int /\ n \in Int
      OBVIOUS
    <3>2. /\ IsFiniteSet(1 .. n)
          /\ Cardinality(1 .. n) = IF 1 > n THEN 0 ELSE n - 1 + 1
      BY <3>1, FS_Interval, Zenon
    <3> QED
      BY <3>2
  <2> QED
    BY <2>1, <2>2
<1>3. Cardinality(leading) <= Len(text) /\ Cardinality(leading) \in Nat
  BY <1>1, <1>2, FS_Subset, FS_CardinalityType
<1> QED
  BY <1>3 DEF FindFirstNotOf

\* The rest of a text.
LEMMA RestFact ==
    ASSUME NEW T, NEW text \in Seq(T), NEW n \in 0 .. Len(text)
    PROVE  /\ SubSeq(text, n + 1, Len(text)) \in Seq(T)
           /\ Len(SubSeq(text, n + 1, Len(text))) = Len(text) - n
           /\ SubSeq(text, 1, n) \in Seq(T)
           /\ Len(SubSeq(text, 1, n)) = n
OBVIOUS

\* Consuming part of the view keeps the type and, in the body, the difference
\* between what remains and what is in view.
LEMMA ConsumeFact ==
    ASSUME TypeOK, NEW n \in 0 .. Len(view), Consume(n),
           is_decoding_header \/ Len(view) <= remaining_content_length
    PROVE  /\ view' \in Seq(Symbol) /\ Len(view') <= BufferSize
           /\ Len(view') = Len(view) - n
           /\ remaining_content_length' \in 0 .. kMaxPayloadSize
           /\ ~is_decoding_header =>
                 remaining_content_length' - Len(view') = remaining_content_length - Len(view)
           /\ is_decoding_header => remaining_content_length' = remaining_content_length
<1> USE DEF TypeOK, Consume
<1>1. /\ view' \in Seq(Symbol)
      /\ Len(view') = Len(view) - n
  BY RestFact
<1>2. CASE is_decoding_header
  BY <1>1, <1>2, DecoderAssumption
<1>3. CASE ~is_decoding_header
  <2>1. remaining_content_length' = remaining_content_length - n
    BY <1>3
  <2>2. /\ Len(view) \in Nat /\ Len(view) <= BufferSize /\ BufferSize \in Nat
        /\ remaining_content_length \in 0 .. kMaxPayloadSize /\ kMaxPayloadSize \in Nat
    BY DecoderAssumption
  <2> HIDE DEF TypeOK, Consume
  <2> QED
    BY <1>1, <1>3, <2>1, <2>2
<1> QED
  BY <1>2, <1>3

\* The word that ExtractAndProcessName looks at is part of the view.
LEMMA NameFact ==
    ASSUME TypeOK
    PROVE  NameLength \in 0 .. Len(view)
BY CountFact DEF TypeOK, NameLength

\* The constructors establish the invariant.
LEMMA InitIInv == Init => IInv
<1> SUFFICES ASSUME Init PROVE IInv
  OBVIOUS
<1>1. request \in AlpacaRequest
  <2>1. [p \in BuiltInParameter |-> << >>] \in [BuiltInParameter -> Seq(Symbol)]
    OBVIOUS
  <2> QED
    BY <2>1 DEF Init, AlpacaRequest, EAlpacaApi
<1>2. /\ unsent \in Seq(Symbol)
      /\ view \in Seq(Symbol) /\ Len(view) <= BufferSize
      /\ remaining_content_length \in 0 .. kMaxPayloadSize
      /\ start_size \in 0 .. BufferSize
  BY DecoderAssumption DEF Init
<1>3. /\ decode_function \in DecodeFunction \cup {"nullptr"}
      /\ current \in Parameter \cup HttpHeader \cup {"kUnknown"}
      /\ decoder_status \in {"kReset", "kDecoding", "kDecoded"}
      /\ status \in {"kContinueDecoding", "kNeedMoreInput"} \cup FinalStatus
      /\ pc \in {"idle", "body", "call", "return", "done"}
      /\ {is_decoding_header, is_final_input, found_content_length, buffer_is_full} \subseteq BOOLEAN
  BY DEF Init
<1>4. TypeOK
  BY <1>1, <1>2, <1>3 DEF TypeOK
<1> QED
  BY <1>4 DEF Init, IInv, FunctionInv, BodyInv, PathInv, InBody
-----------------------------------------------------------------------------
\* What a call of a decode function has to satisfy.  It leaves the flags alone;
\* in the body, it hands over to functions of the body only, and succeeds only
\* with all of the final input.
CallOutcome(n) ==
    /\ pc = "call"
    /\ Consume(n)
    /\ Fixed
    /\ UNCHANGED flags
    /\ pc' \in {"call", "return"}
    /\ status' \in {"kContinueDecoding", "kNeedMoreInput"} \cup FinalStatus
    /\ decode_function' \in DecodeFunction
    /\ current' \in Parameter \cup HttpHeader \cup {"kUnknown"}
    /\ request' \in AlpacaRequest
    /\ ~is_decoding_header =>
          /\ decode_function' \in BodyFunction
          /\ request'.http_method = request.http_method
          /\ pc' = "return" /\ status' = "200" => is_final_input /\ n = Len(view)
    /\ decode_function' = "DecodeEndOfPath" =>
          /\ n < Len(view)
          /\ pc' = "return" => status' # "kNeedMoreInput"

LEMMA CallStep ==
    ASSUME IInv, NEW n \in 0 .. Len(view), CallOutcome(n)
    PROVE  IInv'
<1>1. TypeOK /\ FunctionInv /\ BodyInv /\ PathInv
  BY DEF IInv
<1>2. is_decoding_header \/ Len(view) <= remaining_content_length
  BY <1>1 DEF BodyInv, InBody, FunctionInv, CallOutcome, TypeOK
<1>3. /\ view' \in Seq(Symbol) /\ Len(view') <= BufferSize
      /\ Len(view') = Len(view) - n
      /\ remaining_content_length' \in 0 .. kMaxPayloadSize
      /\ ~is_decoding_header =>
            remaining_content_length' - Len(view') = remaining_content_length - Len(view)
  BY <1>1, <1>2, ConsumeFact DEF CallOutcome
<1>4. TypeOK'
  BY <1>1, <1>3 DEF CallOutcome, TypeOK, Fixed, input, locals, flags
<1>5. FunctionInv'
  <2>1. "nullptr" \notin DecodeFunction
    BY DEF DecodeFunction, NameFunction
  <2> QED
    BY <1>1, <2>1 DEF FunctionInv, CallOutcome, flags
<1>6. BodyInv'
  <2> SUFFICES ASSUME ~is_decoding_header PROVE BodyInv'
    BY DEF BodyInv, InBody, CallOutcome, flags
  <2>1. /\ found_content_length /\ request.http_method = "PUT"
        /\ Len(view) <= remaining_content_length
        /\ is_final_input <=> Len(view) = remaining_content_length
    BY <1>1 DEF BodyInv, InBody, FunctionInv, CallOutcome
  <2>2. /\ Len(view') <= remaining_content_length'
        /\ is_final_input' <=> Len(view') = remaining_content_length'
    <3>1. /\ Len(view) \in Nat /\ Len(view') \in Nat
          /\ remaining_content_length \in Nat /\ remaining_content_length' \in Nat
      BY <1>1, <1>3, DecoderAssumption DEF TypeOK
    <3>2. is_final_input' = is_final_input
      BY DEF CallOutcome, flags
    <3> QED
      BY <1>3, <2>1, <3>1, <3>2
  <2>3. pc' = "return" /\ status' = "200" => remaining_content_length' = 0
    <3> HAVE pc' = "return" /\ status' = "200"
    <3>1. is_final_input /\ n = Len(view)
      BY DEF CallOutcome
    <3> QED
      BY <1>1, <1>3, <2>1, <3>1, DecoderAssumption DEF TypeOK
  <2> QED
    BY <2>1, <2>2, <2>3 DEF BodyInv, CallOutcome, flags
<1>7. PathInv'
  <2> SUFFICES ASSUME decode_function' = "DecodeEndOfPath"
               PROVE  Len(view') > 0
    BY DEF PathInv, CallOutcome
  <2> QED
    BY <1>1, <1>3 DEF CallOutcome, TypeOK
<1> QED
  BY <1>4, <1>5, <1>6, <1>7 DEF IInv
-----------------------------------------------------------------------------
\* The functions of the start line and the headers are not called in the body.
LEMMA HeaderOnly ==
    ASSUME IInv, pc = "call", decode_function \notin BodyFunction
    PROVE  is_decoding_header
BY DEF IInv, TypeOK, FunctionInv, BodyInv, InBody

\* The assignments of the decode functions to the AlpacaRequest keep its type.
LEMMA RequestFact ==
    ASSUME request \in AlpacaRequest
    PROVE  /\ \A method \in HttpMethod :
                 [request EXCEPT !.http_method = method] \in AlpacaRequest
           /\ \A group \in ApiGroup :
                 [request EXCEPT !.api_group = group] \in AlpacaRequest
           /\ \A api \in EAlpacaApi :
                 [request EXCEPT !.api = api] \in AlpacaRequest
           /\ \A group \in ApiGroup, api \in EAlpacaApi :
                 [request EXCEPT !.api_group = group, !.api = api] \in AlpacaRequest
           /\ \A b \in BOOLEAN : [request EXCEPT !.do_close = b] \in AlpacaRequest
<1> USE DEF AlpacaRequest
<1>1. \A method \in HttpMethod : [request EXCEPT !.http_method = method] \in AlpacaRequest
  OBVIOUS
<1>2. \A group \in ApiGroup : [request EXCEPT !.api_group = group] \in AlpacaRequest
  OBVIOUS
<1>3. \A api \in EAlpacaApi : [request EXCEPT !.api = api] \in AlpacaRequest
  OBVIOUS
<1>4. \A group \in ApiGroup, api \in EAlpacaApi :
          [request EXCEPT !.api_group = group, !.api = api] \in AlpacaRequest
  OBVIOUS
<1>5. \A b \in BOOLEAN : [request EXCEPT !.do_close = b] \in AlpacaRequest
  OBVIOUS
<1> QED
  BY <1>1, <1>2, <1>3, <1>4, <1>5

\* Setting a parameter in the body leaves the method alone.
LEMMA ParamFact ==
    ASSUME request \in AlpacaRequest, NEW p \in BuiltInParameter, NEW value \in Seq(Symbol)
    PROVE  /\ [request EXCEPT !.params[p] = value] \in AlpacaRequest
           /\ [request EXCEPT !.params[p] = value].http_method = request.http_method
<1>1. [request.params EXCEPT ![p] = value] \in [BuiltInParameter -> Seq(Symbol)]
  BY DEF AlpacaRequest
<1> QED
  BY <1>1 DEF AlpacaRequest

\* ExtractAndProcessName without a valid name: more input is needed, or 400.
LEMMA NameStep ==
    ASSUME IInv, NameIncomplete \/ BadTerminator
    PROVE  IInv'
<1>1. TypeOK /\ NameLength \in 0 .. Len(view)
  BY NameFact DEF IInv
<1>2. decode_function \in NameFunction /\ decode_function \in DecodeFunction
  BY DEF NameIncomplete, BadTerminator, DecodeFunction
<1>3. decode_function # "DecodeEndOfPath"
  BY <1>2 DEF NameFunction
<1>4. ~is_decoding_header => decode_function \in BodyFunction
  BY HeaderOnly DEF NameIncomplete, BadTerminator
<1>5. CASE NameIncomplete
  <2>1. Consume(0)
    BY <1>1, <1>5 DEF NameIncomplete, Consume, TypeOK
  <2>2. CallOutcome(0)
    BY <1>1, <1>2, <1>3, <1>4, <1>5, <2>1
       DEF NameIncomplete, CallOutcome, NeedMoreInput, Return, TypeOK
  <2> QED
    BY <1>1, <2>2, CallStep DEF TypeOK
<1>6. CASE BadTerminator
  <2>1. CallOutcome(NameLength)
    BY <1>1, <1>2, <1>3, <1>4, <1>6
       DEF BadTerminator, CallOutcome, Return, TypeOK, FinalStatus
  <2> QED
    BY <1>1, <2>1, CallStep
<1> QED
  BY <1>5, <1>6

\* The steps of the start line: one n for each, and a valid request.
LEMMA StartLineStep ==
    ASSUME IInv,
           \/ ProcessHttpMethod \/ MatchStartOfPath \/ ProcessApiGroup
           \/ ProcessManagementType \/ ProcessManagementMethod \/ ProcessApiVersion
           \/ ProcessDeviceType \/ ProcessDeviceNumber \/ ProcessDeviceMethod
           \/ DecodeEndOfPath \/ MatchHttpVersion
    PROVE  IInv'
<1>1. TypeOK /\ NameLength \in 0 .. Len(view) /\ request \in AlpacaRequest
      /\ view \in Seq(Symbol)
      /\ current \in Parameter \cup HttpHeader \cup {"kUnknown"}
  BY NameFact DEF IInv, TypeOK
<1>2. Len(view) \in Nat
  BY <1>1
<1> USE DEF NameFound, Calling, SetDecodeFunction, Return, NeedMoreInput
<1>3. CASE ProcessHttpMethod
  <2>1. is_decoding_header
    BY <1>3, HeaderOnly DEF ProcessHttpMethod, BodyFunction
  <2>2. request' \in AlpacaRequest
    BY <1>1, <1>3, RequestFact DEF ProcessHttpMethod
  <2>3. NameLength + 1 \in 0 .. Len(view)
    BY <1>1, <1>2, <1>3 DEF ProcessHttpMethod
  <2>4. CallOutcome(NameLength + 1)
    BY <1>1, <1>3, <2>1, <2>2
       DEF ProcessHttpMethod, CallOutcome, FinalStatus, DecodeFunction, NameFunction
  <2> QED
    BY <2>3, <2>4, CallStep
<1>4. CASE MatchStartOfPath
  <2>1. is_decoding_header
    BY <1>4, HeaderOnly DEF MatchStartOfPath, BodyFunction
  <2>2. PICK n \in {0, 1} : Consume(n) /\ n <= Len(view)
    BY <1>1, <1>2, <1>4 DEF MatchStartOfPath
  <2>4. CallOutcome(n)
    BY <1>1, <1>4, <2>1, <2>2
       DEF MatchStartOfPath, CallOutcome, FinalStatus, DecodeFunction, NameFunction
  <2> QED
    BY <1>2, <2>2, <2>4, CallStep
<1>5. CASE ProcessApiGroup
  <2>1. is_decoding_header
    BY <1>5, HeaderOnly DEF ProcessApiGroup, BodyFunction
  <2>2. request' \in AlpacaRequest
    <3>1. CASE UNCHANGED request
      BY <1>1, <3>1
    <3>2. CASE \E group \in ApiGroup : request' = [request EXCEPT !.api_group = group]
      BY <1>1, <3>2, RequestFact
    <3>3. CASE \E group \in ApiGroup, api \in EAlpacaApi :
                  request' = [request EXCEPT !.api_group = group, !.api = api]
      BY <1>1, <3>3, RequestFact
    <3>4. {"kServerSetup", "kDeviceSetup", "kDeviceApi"} \subseteq EAlpacaApi
      BY DEF EAlpacaApi
    <3> QED
      BY <1>5, <3>1, <3>2, <3>3, <3>4, Zenon DEF ProcessApiGroup
  <2> DEFINE n == NameLength + (IF Matches(ApiGroup) /\ Terminator = "/" THEN 1 ELSE 0)
  <2>a. /\ NameLength < Len(view)
        /\ Consume(n) /\ pc = "call" /\ Fixed /\ UNCHANGED <<flags, current>>
        /\ decode_function = "DecodeApiGroup"
    BY <1>5, Zenon DEF ProcessApiGroup
  <2>3. n \in 0 .. Len(view)
    BY <1>1, <1>2, <2>a
  <2>b. /\ \/ pc' = "return" /\ status' \in FinalStatus
              /\ decode_function' = decode_function
           \/ pc' = "call" /\ status' = "kContinueDecoding"
              /\ decode_function' \in {"DecodeManagementType", "DecodeApiVersion", "DecodeEndOfPath"}
        /\ decode_function' = "DecodeEndOfPath" => Terminator # "/" /\ pc' = "call"
    BY <1>5 DEF ProcessApiGroup, FinalStatus
  <2>4. decode_function' = "DecodeEndOfPath" => n < Len(view) /\ pc' = "call"
    BY <1>1, <1>2, <2>a, <2>b
  <2>5. CallOutcome(n)
    <3>1. /\ pc' \in {"call", "return"}
          /\ status' \in {"kContinueDecoding", "kNeedMoreInput"} \cup FinalStatus
          /\ decode_function' \in DecodeFunction
      BY <2>a, <2>b DEF DecodeFunction, NameFunction
    <3> HIDE DEF n
    <3> QED
      BY <1>1, <2>1, <2>2, <2>4, <2>a, <3>1 DEF CallOutcome
  <2> QED
    BY <2>3, <2>5, CallStep
<1>6. CASE ProcessManagementType
  <2>1. is_decoding_header
    BY <1>6, HeaderOnly DEF ProcessManagementType, BodyFunction
  <2>2. request' \in AlpacaRequest
    BY <1>1, <1>6, RequestFact DEF ProcessManagementType, EAlpacaApi
  <2> DEFINE n == NameLength + (IF Name = <<"v1">> /\ Terminator = "/" THEN 1 ELSE 0)
  <2>3. n \in 0 .. Len(view)
    BY <1>1, <1>2, <1>6 DEF ProcessManagementType
  <2>a. <<"v1">> # <<"apiversions">>
    <3>1. <<"v1">>[1] # <<"apiversions">>[1]
      OBVIOUS
    <3> QED
      BY <3>1
  <2>4. decode_function' = "DecodeEndOfPath" => n < Len(view) /\ pc' = "call"
    BY <1>1, <1>2, <1>6, <2>a DEF ProcessManagementType
  <2>5. CallOutcome(n)
    <3>1. Consume(n) /\ pc = "call" /\ Fixed /\ UNCHANGED <<flags, current>>
      BY <1>6 DEF ProcessManagementType
    <3>2. /\ pc' \in {"call", "return"}
          /\ status' \in {"kContinueDecoding", "kNeedMoreInput"} \cup FinalStatus
          /\ decode_function' \in DecodeFunction
      BY <1>6 DEF ProcessManagementType, FinalStatus, DecodeFunction, NameFunction
    <3> QED
      BY <1>1, <2>1, <2>2, <2>4, <3>1, <3>2 DEF CallOutcome
  <2> QED
    BY <2>3, <2>5, CallStep
<1>7. CASE ProcessManagementMethod
  <2>1. is_decoding_header
    BY <1>7, HeaderOnly DEF ProcessManagementMethod, BodyFunction
  <2>2. request' \in AlpacaRequest
    BY <1>1, <1>7, RequestFact DEF ProcessManagementMethod, EAlpacaApi
  <2>3. NameLength + 0 = NameLength /\ NameLength < Len(view)
    BY <1>1, <1>7 DEF ProcessManagementMethod
  <2>4. CallOutcome(NameLength)
    BY <1>1, <1>7, <2>1, <2>2, <2>3
       DEF ProcessManagementMethod, CallOutcome, FinalStatus, DecodeFunction, NameFunction
  <2> QED
    BY <1>1, <2>4, CallStep
<1>8. CASE ProcessApiVersion \/ ProcessDeviceType \/ ProcessDeviceNumber
  <2>1. PICK func \in {"DecodeApiVersion", "DecodeDeviceType", "DecodeDeviceNumber"},
             next \in {"DecodeDeviceType", "DecodeDeviceNumber", "DecodeDeviceMethod"},
             valid \in BOOLEAN : PathSegment(func, 1, valid, next)
    BY <1>8 DEF ProcessApiVersion, ProcessDeviceType, ProcessDeviceNumber, Matches
  <2>2. is_decoding_header
    BY <2>1, HeaderOnly DEF PathSegment, BodyFunction
  <2>3. NameLength + 1 \in 0 .. Len(view)
    BY <1>1, <1>2, <2>1 DEF PathSegment
  <2>4. CallOutcome(NameLength + 1)
    BY <1>1, <2>1, <2>2
       DEF PathSegment, CallOutcome, FinalStatus, DecodeFunction, NameFunction
  <2> QED
    BY <2>3, <2>4, CallStep
<1>9. CASE ProcessDeviceMethod
  <2>1. PICK valid : PathSegment("DecodeDeviceMethod", 0, valid, "DecodeEndOfPath")
    BY <1>9 DEF ProcessDeviceMethod
  <2>2. is_decoding_header
    BY <2>1, HeaderOnly DEF PathSegment, BodyFunction
  <2>3. NameLength + 0 = NameLength /\ NameLength < Len(view)
    BY <1>1, <2>1 DEF PathSegment
  <2>4. CallOutcome(NameLength)
    BY <1>1, <2>1, <2>2, <2>3
       DEF PathSegment, CallOutcome, FinalStatus, DecodeFunction, NameFunction
  <2> QED
    BY <1>1, <2>4, CallStep
<1>10. CASE DecodeEndOfPath
  <2>1. is_decoding_header
    BY <1>10, HeaderOnly DEF DecodeEndOfPath, BodyFunction
  <2>2. Len(view) >= 1
    <3>1. decode_function = "DecodeEndOfPath"
      BY <1>10 DEF DecodeEndOfPath
    <3>2. PathInv
      BY DEF IInv
    <3> QED
      BY <1>2, <3>1, <3>2 DEF PathInv
  <2>3. PICK n \in {0, 1} :
            Consume(n) /\ (decode_function' = "DecodeEndOfPath" => n = 0 /\ status' = "400")
    BY <1>10 DEF DecodeEndOfPath
  <2>a. /\ pc = "call" /\ Fixed /\ UNCHANGED <<flags, current, request>>
        /\ pc' \in {"call", "return"}
        /\ status' \in {"kContinueDecoding", "400"}
        /\ decode_function' \in {"DecodeParamName", "MatchHttpVersion", "DecodeEndOfPath"}
    BY <1>10 DEF DecodeEndOfPath
  <2>4. CallOutcome(n)
    <3>1. /\ status' \in {"kContinueDecoding", "kNeedMoreInput"} \cup FinalStatus
          /\ decode_function' \in DecodeFunction
      BY <2>a DEF FinalStatus, DecodeFunction, NameFunction
    <3>2. decode_function' = "DecodeEndOfPath" => n < Len(view) /\ status' # "kNeedMoreInput"
      BY <1>2, <2>2, <2>3
    <3> QED
      BY <1>1, <2>1, <2>3, <2>a, <3>1, <3>2 DEF CallOutcome
  <2> QED
    BY <1>2, <2>2, <2>4, CallStep
<1>11. CASE MatchHttpVersion
  <2>1. is_decoding_header
    BY <1>11, HeaderOnly DEF MatchHttpVersion, BodyFunction
  <2>2. PICK n \in {0, 3} : Consume(n) /\ n <= Len(view)
    BY <1>1, <1>2, <1>11 DEF MatchHttpVersion, StartsWith, HttpVersionEndOfLine
  <2>4. CallOutcome(n)
    BY <1>1, <1>11, <2>1, <2>2
       DEF MatchHttpVersion, CallOutcome, FinalStatus, DecodeFunction, NameFunction
  <2> QED
    BY <1>2, <2>2, <2>4, CallStep
<1> QED
  BY <1>3, <1>4, <1>5, <1>6, <1>7, <1>8, <1>9, <1>10, <1>11

-----------------------------------------------------------------------------
\* The functions that decode parameters, in the query or in the body.
LEMMA ParamStep ==
    ASSUME IInv, ProcessParamName \/ DecodeParamValue \/ DecodeParamSeparator
    PROVE  IInv'
<1>1. TypeOK /\ NameLength \in 0 .. Len(view) /\ request \in AlpacaRequest
      /\ view \in Seq(Symbol)
      /\ current \in Parameter \cup HttpHeader \cup {"kUnknown"}
  BY NameFact DEF IInv, TypeOK
<1>2. Len(view) \in Nat
  BY <1>1
<1>3. BodyFunction \subseteq DecodeFunction /\ "DecodeEndOfPath" \notin BodyFunction
  BY DEF BodyFunction, DecodeFunction, NameFunction
<1> USE DEF NameFound, Calling, SetDecodeFunction, Return, NeedMoreInput
<1>4. CASE ProcessParamName
  <2>1. NameLength + 1 \in 0 .. Len(view)
    BY <1>1, <1>2, <1>4 DEF ProcessParamName
  <2>2. /\ Consume(NameLength + 1) /\ Fixed /\ UNCHANGED <<flags, request>>
        /\ pc = "call" /\ pc' = "call" /\ status' = "kContinueDecoding"
        /\ decode_function' = "DecodeParamValue"
        /\ current' \in Parameter \cup HttpHeader \cup {"kUnknown"}
    BY <1>4 DEF ProcessParamName
  <2>3. CallOutcome(NameLength + 1)
    BY <1>1, <1>3, <2>2 DEF CallOutcome, BodyFunction
  <2> QED
    BY <2>1, <2>3, CallStep
<1>5. CASE DecodeParamValue
  <2> DEFINE n == FindFirstNotOf(view, IsParamValueChar)
             value == SubSeq(view, 1, n)
  <2>1. n \in 0 .. Len(view)
    BY <1>1, CountFact
  <2>2. value \in Seq(Symbol)
    BY <1>1, <2>1, RestFact
  <2> HIDE DEF n, value
  <2>3. /\ pc = "call" /\ decode_function = "DecodeParamValue"
        /\ Fixed /\ UNCHANGED <<flags, current>>
        /\ \/ /\ Consume(0) /\ pc' = "return" /\ status' = "kNeedMoreInput"
              /\ UNCHANGED <<decode_function, request>>
           \/ /\ Consume(n) /\ pc' = "return" /\ status' = "400"
              /\ UNCHANGED <<decode_function, request>>
           \/ /\ Consume(n) /\ pc' = "call" /\ status' = "kContinueDecoding"
              /\ decode_function' = "DecodeParamSeparator"
              /\ \/ UNCHANGED request
                 \/ /\ current \in BuiltInParameter
                    /\ request' = [request EXCEPT !.params[current] = value]
    BY <1>5, Zenon DEF DecodeParamValue, n, value
  <2>4. request' \in AlpacaRequest /\ request'.http_method = request.http_method
    <3>1. CASE UNCHANGED request
      BY <1>1, <3>1
    <3>2. CASE /\ current \in BuiltInParameter
               /\ request' = [request EXCEPT !.params[current] = value]
      BY <1>1, <2>2, <3>2, ParamFact, Zenon
    <3> QED
      BY <2>3, <3>1, <3>2
  <2>5. decode_function' \in BodyFunction /\ status' # "200"
    BY <2>3 DEF BodyFunction
  <2>6. PICK k \in {0, n} : Consume(k)
    BY <2>3
  <2>7. CallOutcome(k)
    BY <1>1, <1>3, <2>3, <2>4, <2>5, <2>6 DEF CallOutcome, FinalStatus
  <2> QED
    BY <1>2, <2>1, <2>6, <2>7, CallStep
<1>6. CASE DecodeParamSeparator
  <2> DEFINE n == FindFirstNotOf(view, {"&"})
  <2>1. n \in 0 .. Len(view)
    BY <1>1, CountFact
  <2> HIDE DEF n
  <2>2. /\ pc = "call" /\ decode_function = "DecodeParamSeparator"
        /\ Fixed /\ UNCHANGED <<flags, current, request>>
        /\ \/ /\ n = Len(view) /\ ~is_decoding_header /\ is_final_input
              /\ Consume(n) /\ pc' = "return" /\ status' = "200" /\ UNCHANGED decode_function
           \/ /\ Consume(IF n > 1 THEN n - 1 ELSE 0)
              /\ pc' = "return" /\ status' = "kNeedMoreInput" /\ UNCHANGED decode_function
           \/ /\ n < Len(view) /\ is_decoding_header
              /\ Consume(n + 1) /\ pc' = "call" /\ status' = "kContinueDecoding"
              /\ decode_function' = "MatchHttpVersion"
           \/ /\ ~is_decoding_header
              /\ Consume(n) /\ pc' = "return" /\ status' = "400" /\ UNCHANGED decode_function
           \/ /\ Consume(n) /\ pc' = "call" /\ status' = "kContinueDecoding"
              /\ decode_function' = "DecodeParamName"
    BY <1>6, Zenon DEF DecodeParamSeparator, n
  <2>3. CASE /\ n < Len(view) /\ is_decoding_header
             /\ Consume(n + 1) /\ pc' = "call" /\ status' = "kContinueDecoding"
             /\ decode_function' = "MatchHttpVersion"
    <3>1. CallOutcome(n + 1)
      BY <1>1, <2>2, <2>3 DEF CallOutcome, DecodeFunction
    <3> QED
      BY <1>2, <2>1, <2>3, <3>1, CallStep
  <2>4. CASE decode_function' # "MatchHttpVersion"
    <3>1. decode_function' \in BodyFunction
      BY <2>2, <2>4 DEF BodyFunction
    <3>2. PICK k \in 0 .. Len(view) :
              /\ Consume(k)
              /\ pc' = "return" /\ status' = "200" => is_final_input /\ k = Len(view)
      <4>1. (IF n > 1 THEN n - 1 ELSE 0) \in 0 .. Len(view)
        BY <1>2, <2>1
      <4> QED
        BY <2>1, <2>2, <2>4, <4>1
    <3>3. CallOutcome(k)
      BY <1>1, <1>3, <2>2, <3>1, <3>2 DEF CallOutcome, FinalStatus
    <3> QED
      BY <3>3, CallStep
  <2> QED
    BY <2>2, <2>3, <2>4
<1> QED
  BY <1>4, <1>5, <1>6
-----------------------------------------------------------------------------
\* The functions for header lines that leave the flags alone.
LEMMA HeaderLineStep ==
    ASSUME IInv, ProcessHeaderName \/ SkipHeaderValue \/ DecodeHeaderLineEnd
    PROVE  IInv'
<1>1. TypeOK /\ NameLength \in 0 .. Len(view) /\ request \in AlpacaRequest
      /\ view \in Seq(Symbol) /\ Len(view) \in Nat
      /\ current \in Parameter \cup HttpHeader \cup {"kUnknown"}
  BY NameFact DEF IInv, TypeOK
<1> USE DEF NameFound, Calling, SetDecodeFunction, Return, NeedMoreInput
<1>2. is_decoding_header
  BY HeaderOnly DEF ProcessHeaderName, SkipHeaderValue, DecodeHeaderLineEnd, BodyFunction
<1>3. /\ pc = "call" /\ Fixed /\ UNCHANGED <<flags, request>>
      /\ pc' \in {"call", "return"}
      /\ status' \in {"kContinueDecoding", "kNeedMoreInput", "400"}
      /\ decode_function' \in {"DecodeHeaderValue", "SkipHeaderValue", "DecodeHeaderLineEnd",
                               "DecodeHeaderLines"}
      /\ current' \in Parameter \cup HttpHeader \cup {"kUnknown"}
  BY <1>1 DEF ProcessHeaderName, SkipHeaderValue, DecodeHeaderLineEnd
<1>4. PICK n \in 0 .. Len(view) : Consume(n)
  <2>1. CASE ProcessHeaderName
    <3>1. NameLength + 1 \in 0 .. Len(view)
      BY <1>1, <2>1 DEF ProcessHeaderName
    <3> QED
      BY <2>1, <3>1 DEF ProcessHeaderName
  <2>2. CASE SkipHeaderValue
    BY <1>1, <2>2, CountFact DEF SkipHeaderValue
  <2>3. CASE DecodeHeaderLineEnd
    BY <1>1, <2>3 DEF DecodeHeaderLineEnd, StartsWith, kEndOfHeaderLine
  <2> QED
    BY <2>1, <2>2, <2>3
<1>5. CallOutcome(n)
  BY <1>1, <1>2, <1>3, <1>4
     DEF CallOutcome, FinalStatus, DecodeFunction, NameFunction
<1> QED
  BY <1>4, <1>5, CallStep

\* The end of the headers, where the body of a PUT request begins.
LEMMA HeaderLinesStep ==
    ASSUME IInv, DecodeHeaderLines
    PROVE  IInv'
<1>1. TypeOK /\ FunctionInv /\ BodyInv
      /\ view \in Seq(Symbol) /\ Len(view) \in Nat
      /\ request \in AlpacaRequest
      /\ current \in Parameter \cup HttpHeader \cup {"kUnknown"}
  BY DEF IInv, TypeOK
<1> USE DEF Calling, SetDecodeFunction, Return, NeedMoreInput
<1>2. is_decoding_header
  BY HeaderOnly DEF DecodeHeaderLines, BodyFunction
<1>3. PICK n \in 0 .. Len(view) : Consume(n)
  BY <1>1 DEF DecodeHeaderLines, StartsWith, kEndOfHeaderLine
<1>4. CASE UNCHANGED flags
  <2>1. /\ pc = "call" /\ Fixed /\ UNCHANGED <<current, request>>
        /\ pc' \in {"call", "return"}
        /\ status' \in {"kContinueDecoding", "kNeedMoreInput", "200", "411", "500"}
        /\ decode_function' \in {"DecodeHeaderLines", "DecodeHeaderName"}
    BY <1>2, <1>4 DEF DecodeHeaderLines, flags
  <2>2. CallOutcome(n)
    BY <1>1, <1>2, <1>3, <1>4, <2>1
       DEF CallOutcome, FinalStatus, DecodeFunction, NameFunction
  <2> QED
    BY <1>3, <2>2, CallStep
<1>5. CASE /\ request.http_method = "PUT"
           /\ found_content_length
           /\ is_decoding_header' = FALSE
           /\ decode_function' = "DecodeParamName"
           /\ status' = "kNeedMoreInput"
           /\ pc' = "body"
           /\ UNCHANGED <<is_final_input, found_content_length>>
  <2>1. Fixed /\ UNCHANGED <<current, request>>
    BY DEF DecodeHeaderLines
  <2>2. /\ view' \in Seq(Symbol) /\ Len(view') <= BufferSize
        /\ remaining_content_length' \in 0 .. kMaxPayloadSize
    BY <1>1, <1>2, <1>3, ConsumeFact
  <2>3. TypeOK'
    BY <1>1, <1>5, <2>1, <2>2
       DEF TypeOK, Fixed, input, locals, DecodeFunction, NameFunction
  <2> QED
    BY <1>1, <1>2, <1>5, <2>1, <2>3
       DEF IInv, FunctionInv, BodyInv, PathInv, InBody, BodyFunction
<1> QED
  BY <1>4, <1>5 DEF DecodeHeaderLines

\* Content-Length is recorded only if the limit allows it.
LEMMA HeaderValueStep ==
    ASSUME IInv, DecodeHeaderValue
    PROVE  IInv'
<1>1. TypeOK /\ FunctionInv /\ view \in Seq(Symbol) /\ Len(view) \in Nat
      /\ Len(view) <= BufferSize /\ request \in AlpacaRequest
  BY DEF IInv, TypeOK
<1> DEFINE skip == FindFirstNotOf(view, {" "})
           rest == SubSeq(view, skip + 1, Len(view))
           n == FindFirstNotOf(rest, IsFieldContent)
           value == TrimTrailingOptionalWhitespace(SubSeq(rest, 1, n))
<1>2. is_decoding_header
  BY HeaderOnly DEF DecodeHeaderValue, Calling, BodyFunction
<1>3. skip \in 0 .. Len(view)
  BY <1>1, CountFact
<1>4. rest \in Seq(Symbol) /\ Len(rest) <= BufferSize
  <2> HIDE DEF skip
  <2>1. rest \in Seq(Symbol) /\ Len(rest) = Len(view) - skip
    BY <1>1, <1>3, RestFact
  <2> QED
    BY <1>1, <1>3, <2>1, DecoderAssumption
<1>5. n \in 0 .. Len(rest)
  BY <1>4, CountFact
<1>6. view' \in Seq(Symbol) /\ Len(view') <= BufferSize
  <2> HIDE DEF n, rest, skip
  <2>1. view' = rest \/ view' = SubSeq(rest, n + 1, Len(rest))
    BY DEF DecodeHeaderValue, n, rest, skip
  <2>2. /\ SubSeq(rest, n + 1, Len(rest)) \in Seq(Symbol)
        /\ Len(SubSeq(rest, n + 1, Len(rest))) = Len(rest) - n
    BY <1>4, <1>5, RestFact
  <2> QED
    <3>1. Len(rest) \in Nat /\ BufferSize \in Nat
      BY <1>4, DecoderAssumption
    <3>2. Len(SubSeq(rest, n + 1, Len(rest))) <= BufferSize
      BY <1>4, <1>5, <2>2, <3>1
    <3> QED
      BY <1>4, <2>1, <2>2, <3>2
<1>7. /\ Fixed /\ UNCHANGED <<is_decoding_header, is_final_input, current>>
      /\ pc = "call" /\ decode_function = "DecodeHeaderValue"
      /\ \/ /\ NeedMoreInput
            /\ UNCHANGED <<remaining_content_length, found_content_length, request>>
         \/ HeaderValue(value)
  BY DEF DecodeHeaderValue, Calling
<1> HIDE DEF value, n, rest, skip
<1>8. HeaderValueStatus(value) \in {"kContinueDecoding", "400", "413", "415"}
  BY DEF HeaderValueStatus
<1>9. ContentLength(value) \in Nat
  BY DEF ContentLength, Converted, Numeral
<1>10. /\ current = "Content-Length" /\ HeaderValueStatus(value) = "kContinueDecoding"
       => ContentLength(value) \in 0 .. kMaxPayloadSize
  BY <1>9, DecoderAssumption DEF HeaderValueStatus
<1>11. remaining_content_length' \in 0 .. kMaxPayloadSize
  BY <1>1, <1>7, <1>10 DEF HeaderValue, TypeOK
<1>12. request' \in AlpacaRequest
  <2>1. CASE UNCHANGED request
    BY <1>1, <2>1
  <2>2. CASE \E b \in BOOLEAN : request' = [request EXCEPT !.do_close = b]
    BY <1>1, <2>2, RequestFact
  <2>3. request.do_close \in BOOLEAN
    BY <1>1 DEF AlpacaRequest
  <2> QED
    BY <1>7, <2>1, <2>2, <2>3, Zenon DEF HeaderValue
<1>13. found_content_length' \in BOOLEAN
  BY <1>1, <1>7 DEF HeaderValue, TypeOK
<1>14. /\ pc' \in {"call", "return"}
       /\ status' \in {"kContinueDecoding", "kNeedMoreInput", "400", "413", "415"}
       /\ decode_function' \in {"DecodeHeaderValue", "DecodeHeaderLineEnd"}
  BY <1>7, <1>8 DEF HeaderValue, NeedMoreInput, Return, SetDecodeFunction
<1>15. TypeOK'
  <2>1. /\ status' \in {"kContinueDecoding", "kNeedMoreInput"} \cup FinalStatus
        /\ decode_function' \in DecodeFunction
    BY <1>14 DEF FinalStatus, DecodeFunction
  <2> QED
    BY <1>1, <1>6, <1>7, <1>11, <1>12, <1>13, <1>14, <2>1 DEF TypeOK, Fixed, input, locals
<1> QED
  BY <1>1, <1>2, <1>7, <1>14, <1>15 DEF IInv, FunctionInv, BodyInv, PathInv, InBody
-----------------------------------------------------------------------------
\* The start of DecodeBuffer.
LEMMA DecodeBufferStep ==
    ASSUME IInv, NEW n \in 0 .. BufferSize, DecodeBuffer(n)
    PROVE  IInv'
<1>1. TypeOK /\ FunctionInv /\ BodyInv /\ PathInv
      /\ view \in Seq(Symbol) /\ unsent \in Seq(Symbol)
      /\ Len(view) \in Nat /\ Len(unsent) \in Nat
  BY DEF IInv, TypeOK
<1>2. n \in 0 .. Len(unsent)
  BY <1>1, DecoderAssumption DEF DecodeBuffer
<1>3. /\ SubSeq(unsent, 1, n) \in Seq(Symbol) /\ Len(SubSeq(unsent, 1, n)) = n
      /\ SubSeq(unsent, n + 1, Len(unsent)) \in Seq(Symbol)
  BY <1>1, <1>2, RestFact
<1>4. view' \in Seq(Symbol) /\ Len(view') = Len(view) + n
  BY <1>1, <1>3 DEF DecodeBuffer
<1>5. /\ Len(view') <= BufferSize
      /\ start_size' \in 0 .. BufferSize /\ buffer_is_full' \in BOOLEAN
      /\ pc' \in {"call", "body"}
  BY <1>1, <1>2, <1>4, DecoderAssumption DEF DecodeBuffer
<1>6. TypeOK'
  BY <1>1, <1>3, <1>4, <1>5 DEF TypeOK, DecodeBuffer, flags
<1> QED
  BY <1>1, <1>6 DEF DecodeBuffer, IInv, FunctionInv, BodyInv, PathInv, InBody, flags

\* The start of DecodeMessageBody: is_final_input becomes true exactly when the
\* rest of the body is in view.
LEMMA MessageBodyStep ==
    ASSUME IInv, DecodeMessageBody
    PROVE  IInv'
<1>1. TypeOK /\ FunctionInv /\ BodyInv /\ PathInv
      /\ Len(view) \in Nat /\ remaining_content_length \in Nat
      /\ is_final_input \in BOOLEAN
  BY DecoderAssumption DEF IInv, TypeOK
<1>2. /\ pc = "body" /\ ~is_decoding_header /\ ~is_final_input
      /\ decode_function \in BodyFunction
      /\ found_content_length /\ request.http_method = "PUT"
  BY <1>1 DEF DecodeMessageBody, FunctionInv, BodyInv, InBody
<1>3. /\ Fixed
      /\ UNCHANGED <<view, decode_function, is_decoding_header, found_content_length,
                     remaining_content_length, current, request>>
      /\ \/ pc' = "return" /\ status' = "413" /\ is_final_input' = is_final_input
         \/ /\ pc' = "call" /\ UNCHANGED status
            /\ Len(view) <= remaining_content_length
            /\ is_final_input' <=> Len(view) = remaining_content_length
      /\ is_final_input' \in BOOLEAN
  <2>1. /\ Fixed
        /\ UNCHANGED <<view, is_decoding_header, found_content_length,
                       remaining_content_length, current, request>>
    BY DEF DecodeMessageBody
  <2>2. CASE Len(view) > remaining_content_length
    BY <1>1, <1>2, <2>1, <2>2 DEF DecodeMessageBody, Return
  <2>3. CASE Len(view) = remaining_content_length
    <3>1. /\ ~(Len(view) > remaining_content_length)
          /\ ~(Len(view) < remaining_content_length)
          /\ Len(view) <= remaining_content_length
      BY <1>1, <2>3
    <3>2. is_final_input' = TRUE /\ pc' = "call" /\ UNCHANGED <<status, decode_function>>
      BY <3>1 DEF DecodeMessageBody
    <3> QED
      BY <2>1, <2>3, <3>1, <3>2
  <2>4. CASE Len(view) < remaining_content_length
    BY <1>1, <1>2, <2>1, <2>4 DEF DecodeMessageBody
  <2> QED
    BY <1>1, <2>2, <2>3, <2>4
<1>4. TypeOK'
  BY <1>1, <1>3 DEF TypeOK, Fixed, input, locals, FinalStatus
<1> QED
  BY <1>1, <1>2, <1>3, <1>4
     DEF IInv, FunctionInv, BodyInv, PathInv, InBody, BodyFunction

\* The end of DecodeBuffer: more of a body is requested only if some is missing.
LEMMA ReturnStep ==
    ASSUME IInv, ReturnFromDecodeBuffer
    PROVE  IInv'
<1>1. TypeOK /\ FunctionInv /\ BodyInv /\ PathInv /\ pc = "return"
      /\ Len(view) \in Nat /\ remaining_content_length \in Nat
  BY DecoderAssumption DEF IInv, TypeOK, ReturnFromDecodeBuffer
<1>2. UNCHANGED <<input, view, flags, remaining_content_length, current, request>>
      /\ start_size' = 0 /\ buffer_is_full' = FALSE /\ status' = BufferStatus
  BY DEF ReturnFromDecodeBuffer
<1>3. BufferStatus \in {status, "400", "431"}
  BY DEF BufferStatus, BodyStatus
<1>4. /\ decode_function' \in {decode_function, "nullptr"}
      /\ decoder_status' \in {decoder_status, "kDecoded"}
      /\ pc' \in {"idle", "done"}
  BY DEF ReturnFromDecodeBuffer
<1>5. TypeOK'
  <2>1. status' \in {"kContinueDecoding", "kNeedMoreInput"} \cup FinalStatus
    BY <1>1, <1>2, <1>3 DEF TypeOK, FinalStatus
  <2>2. start_size' \in 0 .. BufferSize
    BY <1>2, DecoderAssumption
  <2> QED
    BY <1>1, <1>2, <1>4, <2>1, <2>2 DEF TypeOK, input, flags
<1>6. CASE decode_function' = "nullptr"
  <2>1. pc' \in {"idle", "done"} /\ (is_decoding_header' => ~is_final_input')
    BY <1>1, <1>2, <1>4 DEF FunctionInv, flags
  <2> QED
    BY <1>5, <1>6, <2>1 DEF IInv, FunctionInv, BodyInv, PathInv, InBody
<1>7. CASE decode_function' # "nullptr"
  <2>1. /\ pc' = "idle" /\ UNCHANGED decode_function
        /\ BufferStatus = "kNeedMoreInput"
    BY <1>7 DEF ReturnFromDecodeBuffer
  <2>2. /\ status = "kNeedMoreInput"
        /\ ~(~is_decoding_header /\ is_final_input)
    BY <2>1 DEF BufferStatus, BodyStatus
  <2>3. decode_function # "DecodeEndOfPath"
    BY <1>1, <2>2 DEF PathInv
  <2> QED
    BY <1>1, <1>2, <1>5, <2>1, <2>2, <2>3
       DEF IInv, FunctionInv, BodyInv, PathInv, InBody, flags
<1> QED
  BY <1>6, <1>7

\* Reset, for a new connection or the next request.
LEMMA ResetStep ==
    ASSUME IInv, NEW m \in Message, OnConnect(m) \/ NextRequest(m)
    PROVE  IInv'
<1>1. TypeOK /\ request \in AlpacaRequest
  BY DEF IInv, TypeOK
<1>2. Reset /\ Send(m) /\ UNCHANGED locals /\ (view' = << >> \/ view' = view)
  BY DEF OnConnect, NextRequest
<1>3. request' \in AlpacaRequest
  <2> DEFINE params == [p \in BuiltInParameter |->
                           IF p = "AveragePeriod" THEN request.params[p] ELSE << >>]
  <2>1. params \in [BuiltInParameter -> Seq(Symbol)]
    BY <1>1 DEF AlpacaRequest
  <2> HIDE DEF params
  <2>2. request' = [http_method |-> "kUnknown", api_group |-> "kUnknown", api |-> "kUnknown",
                    do_close |-> FALSE, params |-> params]
    BY <1>2 DEF Reset, ResetRequest, params
  <2> QED
    BY <2>1, <2>2 DEF AlpacaRequest, EAlpacaApi
<1>4. unsent' \in Seq(Symbol)
  BY <1>2, DecoderAssumption DEF Send
<1>5. view' \in Seq(Symbol) /\ Len(view') <= BufferSize
  <2>1. CASE view' = << >>
    BY <2>1, DecoderAssumption
  <2>2. CASE view' = view
    BY <1>1, <2>2 DEF TypeOK
  <2> QED
    BY <1>2, <2>1, <2>2
<1>6. TypeOK'
  BY <1>1, <1>2, <1>3, <1>4, <1>5
     DEF TypeOK, Reset, Send, locals, DecodeFunction, NameFunction
<1> QED
  BY <1>2, <1>6 DEF Reset, Send, IInv, FunctionInv, BodyInv, PathInv, InBody

\* Every step of the decoder, and of its client, preserves the invariant.
LEMMA NextIInv == IInv /\ [Next]_vars => IInv'
<1> SUFFICES ASSUME IInv, [Next]_vars PROVE IInv'
  OBVIOUS
<1>1. CASE CallDecodeFunction
  BY <1>1, NameStep, StartLineStep, ParamStep, HeaderLineStep, HeaderLinesStep,
     HeaderValueStep DEF CallDecodeFunction
<1>2. CASE UNCHANGED vars
  BY <1>2 DEF vars, input, flags, locals, IInv, TypeOK, FunctionInv, BodyInv, InBody, PathInv
<1> QED
  BY <1>1, <1>2, DecodeBufferStep, MessageBodyStep, ReturnStep, ResetStep
     DEF Next, DecodeStep

\* The inductive invariant holds throughout: the decode function fits the part
\* of the request being decoded, and in the body of a PUT what is in view never
\* exceeds what Content-Length still allows.
THEOREM DecoderInvariant == Spec => []IInv
BY InitIInv, NextIInv, PTL DEF Spec

\* RequestDecoder keeps its types for every set of requests, every chunking and
\* all sizes: in particular the unsigned remaining_content_length stays within
\* 0 .. kMaxPayloadSize, and the buffer never overflows.
THEOREM DecoderTypeCorrect == Spec => []TypeOK
<1>1. IInv => TypeOK
  BY DEF IInv
<1> QED
  BY <1>1, DecoderInvariant, PTL

\* The TAS_CHECKs of DecodeMessageBody never fail, and no body is decoded but
\* that of a PUT request which announced its size.
THEOREM DecoderBodyChecks == Spec => []BodyChecks
<1>1. IInv => BodyChecks
  BY DEF IInv, BodyInv, InBody, BodyChecks
<1> QED
  BY <1>1, DecoderInvariant, PTL

\* DecodeEndOfPath always finds the symbol that ended the path.
THEOREM DecoderEndOfPathInView == Spec => []EndOfPathInView
<1>1. IInv => EndOfPathInView
  BY DEF IInv, PathInv, EndOfPathInView, TypeOK
<1> QED
  BY <1>1, DecoderInvariant, PTL

\* SetDecodeFunction's TAS_CHECK never fails: a decode function that does not
\* return a result or a need for input hands over to another one.
THEOREM DecoderHandsOver == Spec => HandsOver
<1>1. IInv /\ [Next]_vars =>
          [pc = "call" /\ pc' = "call" => decode_function' # decode_function]_vars
  <2> SUFFICES ASSUME IInv, Next, pc = "call", pc' = "call"
               PROVE  decode_function' # decode_function
    OBVIOUS
  <2> USE DEF Calling, SetDecodeFunction, Return, NeedMoreInput, NameFound, PathSegment
  <2>1. CallDecodeFunction
    BY DEF Next, DecodeStep, DecodeBuffer, DecodeMessageBody, ReturnFromDecodeBuffer,
           OnConnect, NextRequest
  <2>2. ~NameIncomplete /\ ~BadTerminator
    BY DEF NameIncomplete, BadTerminator
  <2>3. CASE ProcessHttpMethod \/ MatchStartOfPath \/ ProcessApiGroup
    BY <2>3 DEF ProcessHttpMethod, MatchStartOfPath, ProcessApiGroup
  <2>4. CASE ProcessManagementType \/ ProcessManagementMethod \/ ProcessApiVersion
    BY <2>4 DEF ProcessManagementType, ProcessManagementMethod, ProcessApiVersion
  <2>5. CASE ProcessDeviceType \/ ProcessDeviceNumber \/ ProcessDeviceMethod
    BY <2>5 DEF ProcessDeviceType, ProcessDeviceNumber, ProcessDeviceMethod
  <2>6. CASE DecodeEndOfPath \/ MatchHttpVersion \/ ProcessParamName
    BY <2>6 DEF DecodeEndOfPath, MatchHttpVersion, ProcessParamName
  <2>7. CASE DecodeParamValue \/ DecodeParamSeparator
    BY <2>7 DEF DecodeParamValue, DecodeParamSeparator
  <2>8. CASE DecodeHeaderLines \/ ProcessHeaderName \/ SkipHeaderValue \/ DecodeHeaderLineEnd
    BY <2>8 DEF DecodeHeaderLines, ProcessHeaderName, SkipHeaderValue, DecodeHeaderLineEnd
  <2>9. CASE DecodeHeaderValue
    BY <2>9 DEF DecodeHeaderValue, HeaderValue
  <2> QED
    BY <2>1, <2>2, <2>3, <2>4, <2>5, <2>6, <2>7, <2>8, <2>9 DEF CallDecodeFunction
<1> QED
  BY <1>1, DecoderInvariant, PTL DEF Spec, HandsOver
=============================================================================
