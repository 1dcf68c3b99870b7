----------------------------- MODULE SharedData -----------------------------
(***************************************************************************)
(* The proxy host's shared key-value store, as the filter and the          *)
(* singleton use it.  The host is not part of the repository; the comment  *)
(* in cache-filter/src/unique_callout.rs (lines 72-102) states its         *)
(* algorithm.                                                              *)
(*                                                                         *)
(* A key is stored with a CAS number.  Here NoEntry (0) is the CAS of a    *)
(* key that was never written.  The host draws CAS numbers from one u32    *)
(* counter; a caller only ever compares a number with the one now stored   *)
(* under the same key, so a number per key that grows with every write     *)
(* tells the same things apart.  The wrap of the counter after 2^32 writes *)
(* is outside the model.                                                   *)
(***************************************************************************)
EXTENDS Naturals

NoEntry == 0

(* The CAS the SDK sends for `None': write whatever is stored.             *)
AnyCas == 0

(* CAS 1 is given to the shared memory counter, which the singleton writes *)
(* on VM start (singleton-service/src/service/proxy.rs:115-120).           *)
FirstCas == 2

(* set_shared_data(key, value, cas) succeeds: the key is new, the caller   *)
(* does not care, or nobody wrote since the caller read.                   *)
Accepts(stored, cas) == stored = NoEntry \/ cas = AnyCas \/ cas = stored

(* The CAS that a successful write stores.                                 *)
NextCas(stored) == IF stored = NoEntry THEN FirstCas ELSE stored + 1
=============================================================================
