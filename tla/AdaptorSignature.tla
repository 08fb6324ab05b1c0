--------------------------- MODULE AdaptorSignature ---------------------------
(***************************************************************************)
(* Adaptor signatures of testnet/src/secp.ts over free terms: a point is   *)
(* named by the outcome whose attestation is its discrete logarithm, and a *)
(* scalar is the record of what its equation s G = R* - T + e(R*, P, m) P  *)
(* binds.  Adding the attestation t completes the scalar: (s + t) G is     *)
(* R* + e(R*, P, m) P exactly when t G = T.                                *)
(***************************************************************************)

Scalar(nonce, point, signer, sighash) ==
  [adaptedNonce |-> nonce, adaptorPoint |-> point, signerPublic |-> signer, sighash |-> sighash]

AttestationSecret(outcome) == [attests |-> outcome]

PointOf(secret) == secret.attests

(***************************************************************************)
(* createBip340AdaptorSignature, with a nonce whose adapted point is even. *)
(***************************************************************************)
AdaptorSignature(nonce, point, signer, sighash) ==
  [signerPublic |-> signer, adaptorPoint |-> point, adaptedNonce |-> nonce,
   preNonce |-> <<nonce, point>>, scalar |-> Scalar(nonce, point, signer, sighash)]

(***************************************************************************)
(* completeAdaptorSignature: the signature and, by subtraction, the secret *)
(* that anyone who sees both scalars extracts.                             *)
(***************************************************************************)
CompletedSignature(adaptor, secret) ==
  [nonce |-> adaptor.adaptedNonce, scalar |-> [adaptor |-> adaptor.scalar, secret |-> secret]]

ExtractedSecret(signature) == signature.scalar.secret

SchnorrVerifies(signature, sighash, signer) ==
  signature.scalar.adaptor
    = Scalar(signature.nonce, PointOf(signature.scalar.secret), signer, sighash)

===============================================================================
