-------------------------- MODULE MCGenerateCache --------------------------
(* Model-checking instances of GenerateCache: a small universe of nodes,   *)
(* with repeated contents, from which the configurations pick scripts.     *)
EXTENDS GenerateCache, TLC

(* a1 .. a5: equal cubes at five places, which warn.  c1, c2: leaves whose *)
(* function literals got the same address.  b1, b2: equal open meshes.     *)
(* u and w are equal unions.                                               *)
MCKids ==
  [n \in {"a1", "a2", "a3", "a4", "a5", "b1", "b2", "c1", "c2"} |-> << >>]
  @@ ("d" :> << "a1" >>) @@ ("h" :> << "b1" >>)
  @@ ("u" :> << "a2", "a3" >>) @@ ("w" :> << "a4", "a5" >>)
MCNodes == DOMAIN MCKids
Cubes == {"a1", "a2", "a3", "a4", "a5"}
MCKind == [n \in MCNodes |->
  CASE n \in {"b1", "b2"} -> "open"
    [] n = "h" -> "hull"
    [] n = "d" -> "difference"
    [] n \in {"u", "w"} -> "union"
    [] OTHER -> "solid"]
MCHeight == [n \in MCNodes |-> IF n \in {"d", "h", "u", "w"} THEN 1 ELSE 0]
MCParam == [n \in MCNodes |->
  CASE n \in Cubes -> "a"
    [] n \in {"b1", "b2"} -> "b"
    [] n \in {"c1", "c2"} -> "address"
    [] OTHER -> ""]
MCDrawn == [n \in MCNodes |-> IF n \in {"c1", "c2"} THEN n ELSE MCParam[n]]
MCHasClosure == {"c1", "c2"}
MCWarns == Cubes

Job(m, list) == [list |-> list, mode |-> m]

TransparentScripts ==
  ("e1" :> {Job("plain", << "u" >>), Job("plain", << "w", "c1" >>)})
  @@ ("e2" :> {Job("plain", << "d" >>), Job("minuend", << "d" >>), Job("plain", << "c2" >>)})
TransparentMeasured == {<< "d" >>}
TransparentShown == {<< "a2" >>}

(* States that differ in the numbers of their IDs only are the same state: *)
(* an ID is known by its first occurrence among the bodies there are.  An  *)
(* evaluator that is not evaluating has no use for its maps, which the     *)
(* next evaluation clears.  No property reads warnEntry.                    *)
Idle(e) == script[e] = None
Jobs == << << "plain", "a1" >>, << "plain", "d" >>, << "plain", "u" >>,
           << "minuend", "a1" >>, << "minuend", "d" >> >>
EntryIds(job) ==
  LET k == KeyIn(job[1], job[2])
  IN  IF k \in DOMAIN cache THEN [i \in DOMAIN cache[k].parts |-> cache[k].parts[i].id] ELSE << >>
PartIds(parts) == [i \in DOMAIN parts |-> parts[i].id]
FrameIds(f) == PartIds(f.parts)
HeldIds(e) ==
  Gather([d \in 1 .. Depth(e) |-> FrameIds(stack[e][d])], [d \in 1 .. Depth(e) |-> d])
    \o (IF result[e] = None THEN << >> ELSE PartIds(result[e].parts))
Occurring ==
  Gather([i \in 1 .. Len(Jobs) |-> EntryIds(Jobs[i])], [i \in 1 .. Len(Jobs) |-> i])
    \o HeldIds("e1") \o HeldIds("e2")

LiveState ==
  LET occurring == Occurring
      name == [id \in Ids |-> IF \E i \in DOMAIN occurring : occurring[i] = id
                              THEN CHOOSE i \in DOMAIN occurring :
                                     /\ occurring[i] = id
                                     /\ \A j \in 1 .. (i - 1) : occurring[j] # id
                              ELSE 0]
      named(parts) == [i \in DOMAIN parts |-> [parts[i] EXCEPT !.id = name[@]]]
      maps(e) ==
        << echoed[e], pass[e],
           {<< name[id], idToNode[e][id] >> :
              id \in {x \in DOMAIN idToNode[e] : name[x] # 0}},
           IF Idle(e) THEN NoMap ELSE producer[e] >>
  IN  << script, insideHull, capture,
         [k \in DOMAIN cache |-> [cache[k] EXCEPT !.parts = named(@)]],
         [e \in Evaluators |-> [d \in 1 .. Depth(e) |-> [stack[e][d] EXCEPT !.parts = named(@)]]],
         [e \in Evaluators |-> IF result[e] = None THEN << >> ELSE [result[e] EXCEPT !.parts = named(@)]],
         [e \in Evaluators |-> IF Idle(e) /\ result[e] = None THEN << >> ELSE maps(e)] >>

(* No render() expression here measures a union that is stored.            *)
ASSUME MeasuredAssumption == NoUnionStored
=============================================================================
