------------------------------- MODULE IkaWire -------------------------------
(***************************************************************************)
(* What the client of the Ika network says and hears (sdk/src/ika/bcs.ts,   *)
(* client.ts, attestation.ts): the requests it builds, the responses it     *)
(* takes, and the attestation it reads back from Solana.                    *)
(*                                                                          *)
(* A request and a response are records named as the BCS types name them;   *)
(* fields that are zeros in the pre-alpha (user share, network encryption   *)
(* key, centralized signature) and the epoch are left out.                  *)
(***************************************************************************)
EXTENDS Integers, Sequences

\* bcs.enum numbers its variants in the order they are written.
DWalletCurve == <<"Secp256k1", "Secp256r1", "Curve25519", "Ristretto">>
DWalletSignatureAlgorithm ==
  <<"ECDSASecp256k1", "ECDSASecp256r1", "Taproot", "EdDSA", "SchnorrkelSubstrate">>

\* The variant of a number that the ledger and the table of chains use.
curveVariant(curve) == DWalletCurve[curve + 1]
algorithmVariant(alg) == DWalletSignatureAlgorithm[alg + 1]

presignAlgorithmForCurve(curve) == IF curve = 0 THEN 0 ELSE 3

\* Every request is an envelope: who asks, under which session, what.
SignedRequestData(preimage, sender, request) ==
  [session_identifier_preimage |-> preimage, chain_id |-> "Solana",
   intended_chain_sender |-> sender, request |-> request]

DKG(curve, signer) ==
  [type |-> "DKG", curve |-> curve,
   user_secret_key_share |-> [type |-> "Encrypted", signer_public_key |-> signer]]
Presign(curve, algorithm) ==
  [type |-> "Presign", curve |-> curve, signature_algorithm |-> algorithm]
PresignForDWallet(key, curve, algorithm) ==
  [type |-> "PresignForDWallet", dwallet_public_key |-> key, curve |-> curve,
   signature_algorithm |-> algorithm]
Sign(message, presignId, attestation, approval_proof) ==
  [type |-> "Sign", message |-> message, presign_session_identifier |-> presignId,
   dwallet_attestation |-> attestation, approval_proof |-> approval_proof]

Error == [type |-> "Error"]
Signature(s) == [type |-> "Signature", signature |-> s]
Attestation(data) == [type |-> "Attestation", attestation_data |-> data]

DWalletDataAttestation(session, sender, curve, key) ==
  [session_identifier |-> session, intended_chain_sender |-> sender, curve |-> curve,
   public_key |-> key, is_imported_key |-> FALSE]
PresignDataAttestation(id, curve, algorithm) ==
  [presign_session_identifier |-> id, curve |-> curve, signature_algorithm |-> algorithm]

-----------------------------------------------------------------------------
(* The three calls of the client.                                            *)

requestDkg(sender, preimage, curve) ==
  SignedRequestData(preimage, sender, DKG(curveVariant(curve), sender))

\* Global presigns serve every dWallet that a DKG made; an imported key needs a
\* presign of its own.
requestPresign(sender, preimage, curve, algorithm, key, imported) ==
  SignedRequestData(preimage, sender,
    IF imported
    THEN PresignForDWallet(key, curveVariant(curve), algorithmVariant(algorithm))
    ELSE Presign(curveVariant(curve), algorithmVariant(algorithm)))

requestSign(sender, preimage, message, presignId, proof, attestation) ==
  SignedRequestData(preimage, sender, Sign(message, presignId, attestation, proof))

\* Any other response than the one asked for is thrown.
Attests(response) == response.type = "Attestation"
PresignId(response) == response.attestation_data.presign_session_identifier
IsSigned(response) == response.type = "Signature"

\* The part of a committed attestation that later requests carry as preimage.
SessionOf(attestation) == attestation.session_identifier
=============================================================================
