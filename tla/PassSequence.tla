---------------------------- MODULE PassSequence ----------------------------
(***************************************************************************)
(* What Context's dispatch calls promise their caller: the results of the  *)
(* passes run one by one, each on bytes the caller provides, on resident   *)
(* bytes uploaded before, or on what an earlier pass of the call left.     *)
(* Any call may fail for want of a driver resource.                        *)
(***************************************************************************)
EXTENDS MetalKernels

CONSTANTS
  Handles,       \* ResidentBuffers a client can hold
  Requests,      \* calls a client makes
  Uploads        \* lengths a client uploads

(* A request is a sequence of passes, records of a kernel, the words the   *)
(* caller provides per name (0: none), the shape it provides for strided   *)
(* parameters (0: none), whether it provides the scalar, the handles bound *)
(* to names, and whether the grid is legal. Outcomes of a request:         *)
NoRequest == <<>>
NoOutcome == [kind |-> "None", results |-> <<>>]
Failed(why) == [kind |-> why, results |-> <<>>]
Results(r) == [kind |-> "Ok", results |-> r]

VARIABLES request, resident, outcome
sequenceVars == <<request, resident, outcome>>

HostWords(pass, i, name) ==
    IF pass.host[name] = 0 THEN Nothing ELSE Words(<<"host", name, i>>, pass.host[name])

-----------------------------------------------------------------------------
(* A pass that a single dispatch would refuse.                             *)
Legal(pass) ==
    /\ pass.legal_grid
    /\ \A j \in DOMAIN pass.kernel.params : LET param == pass.kernel.params[j] IN
        /\ ~Underprovided(param, pass.host[param.name])
        /\ ~MissingMetadata(param, pass.shape)

(* Names a later pass of the request takes as an input.                    *)
LaterInputs(r, i) == UNION {InputNames(r[k].kernel) : k \in (i + 1)..Len(r)}

(* Passes before i with an output of this name.                            *)
Producers(r, i, name) == {k \in 1..(i - 1) : name \in OutputNames(r[k].kernel)}

(* What a parameter holds when pass i begins, after passes that computed   *)
(* these outputs. An input is resident, or the latest output of its name,  *)
(* or the caller's. An output starts as the caller's bytes, if it is one   *)
(* the call will return.                                                   *)
Source(r, i, computed, res, param) ==
    CASE ~param.is_output /\ param.name \in DOMAIN r[i].resident
           -> res[r[i].resident[param.name]]
      [] ~param.is_output /\ param.name \notin DOMAIN r[i].resident
           /\ Producers(r, i, param.name) # {}
           -> computed[Max(Producers(r, i, param.name))][param.name]
      [] param.is_output /\ param.name \in LaterInputs(r, i) -> Nothing
      [] OTHER -> HostWords(r[i], i, param.name)

Arguments(r, i, computed, res) ==
    LET pass == r[i]
        Arg(param) ==
            IF param.reads
            THEN Read(Source(r, i, computed, res, param),
                      Extent(param, ShapeOf(param, pass.shape).value))
            ELSE "ignored"
    IN  [j \in DOMAIN pass.kernel.params |-> Arg(pass.kernel.params[j])]
          \o (IF pass.kernel.constexpr
              THEN <<IF pass.scalar THEN <<"scalar", i>> ELSE Unspecified>> ELSE <<>>)

(* Pass i as a function from output names to contents.                     *)
PassOutputs(r, i, args) ==
    LET params == r[i].kernel.params
        Named(n) == CHOOSE j \in Outputs(r[i].kernel) : params[j].name = n
    IN  [n \in OutputNames(r[i].kernel) |->
            Words(Computed(r[i].kernel, Named(n), args), params[Named(n)].len)]

(* What each pass computes.                                                *)
Sequence(r, res) ==
    LET after[n \in 0..Len(r)] ==
          IF n = 0 THEN <<>>
          ELSE Append(after[n - 1], PassOutputs(r, n, Arguments(r, n, after[n - 1], res)))
    IN  after[Len(r)]

(* The call returns those outputs that no later pass names as an input.    *)
Returned(r, computed) ==
    [i \in DOMAIN r |-> [n \in DOMAIN computed[i] \ LaterInputs(r, i) |-> computed[i][n].value]]

Keeps(promised, results) ==
    \A i \in DOMAIN promised :
        /\ DOMAIN results[i] = DOMAIN promised[i]
        /\ \A n \in DOMAIN promised[i] : promised[i][n] \in {results[i][n], Unspecified}

Fulfils(r, res, o) ==
    \/ o = Failed("DeviceError")
    \/ IF \A i \in DOMAIN r : Legal(r[i])
       THEN o.kind = "Ok" /\ Keeps(Returned(r, Sequence(r, res)), o.results)
       ELSE o = Failed("Refused")

-----------------------------------------------------------------------------
SequenceInit ==
    /\ request = NoRequest
    /\ resident = [h \in Handles |-> Nothing]
    /\ outcome = NoOutcome

(* A call names only handles the client has.                               *)
Holds(res, r) == \A i \in DOMAIN r : \A n \in DOMAIN r[i].resident :
    res[r[i].resident[n]] # Nothing

Call ==
    /\ request = NoRequest /\ outcome = NoOutcome
    /\ request' \in {r \in Requests : Holds(resident, r)}
    /\ UNCHANGED <<resident, outcome>>

Return ==
    /\ request # NoRequest
    /\ request' = NoRequest
    /\ Fulfils(request, resident, outcome')
    /\ UNCHANGED resident

(* The caller has seen the outcome.                                        *)
Accept ==
    /\ outcome # NoOutcome
    /\ outcome' = NoOutcome
    /\ UNCHANGED <<request, resident>>

Upload(h, n) ==
    /\ request = NoRequest /\ resident[h] = Nothing
    /\ resident' = [resident EXCEPT ![h] = Words(<<"resident", h, n>>, n)]
    /\ UNCHANGED <<request, outcome>>

Drop(h) ==
    /\ request = NoRequest
    /\ resident' = [resident EXCEPT ![h] = Nothing]
    /\ UNCHANGED <<request, outcome>>

SequenceNext ==
    \/ Call \/ Return \/ Accept
    \/ \E h \in Handles : Drop(h) \/ \E n \in Uploads : Upload(h, n)

SequenceSpec == SequenceInit /\ [][SequenceNext]_sequenceVars
=============================================================================
