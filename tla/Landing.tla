------------------------------ MODULE Landing ------------------------------
(***************************************************************************)
(* The landing zone: the S3 bucket as ingestion/landing.py uses it.         *)
(*                                                                          *)
(*   raw        the page objects under the raw prefix                       *)
(*   manifests  the per-run manifests under <prefix>/_manifests/            *)
(*   watermark  <prefix>/_state/watermark.json, None when absent            *)
(*   writer     the run its updated_by_run field names                      *)
(*                                                                          *)
(* S3 puts are atomic and the last put of a key wins.  A page object keeps  *)
(* the OBJECTIDs of its rows; the attribute values are not modelled here.   *)
(***************************************************************************)
EXTENDS Integers, FiniteSets

VARIABLES bucket, raw, manifests, watermark, writer

storeVars == <<bucket, raw, manifests, watermark, writer>>

-----------------------------------------------------------------------------
(* build_key: the run id carries a uuid, the part number is the page index.  *)
BuildKey_NoPart(run, part) == [run |-> run, part |-> 0]

BuildKey_FromMinusOne(run, part) == [run |-> run, part |-> part - 1]

BuildKey(run, part) == [run |-> run, part |-> part]

(* put_object: a put replaces the object that has the same key, if any. *)
Put(objects, obj) == {x \in objects : x.key # obj.key} \cup {obj}

WritePage(run, part, rows) ==
    raw' = Put(raw, [key |-> BuildKey(run, part), rows |-> rows])

(* write_manifest: one object per run. *)
WriteManifestObject(m) ==
    manifests' = {x \in manifests : x.run # m.run} \cup {m}

(* write_watermark: an unconditional put, whatever is stored. *)
WriteWatermark(value, run) ==
    /\ watermark' = value
    /\ writer' = run

(* Every OBJECTID some raw object holds. *)
Landed == UNION {x.rows : x \in raw}
=============================================================================
