---------------------------- MODULE MCConfigTools ----------------------------
(* Any two of the command lines below over the same six files.               *)
EXTENDS ConfigTools, TLC

CONSTANTS r1, r2, c1, c2

\* The flags are given in the order of "order", with these files.
Translator(command, order, fileNames, type) ==
    [tool |-> "configtxlator", command |-> command, order |-> order, type |-> type,
     file |-> [f \in Flags |-> IF \E i \in DOMAIN order : order[i] = f
                                THEN fileNames[CHOOSE i \in DOMAIN order : order[i] = f]
                                ELSE ""]]

\* Decoding the original; encoding the edited one, with the flags in either order, in
\* place, without --type, of an input that may be missing.
Codings ==
    {Translator("proto_decode", <<"input", "output">>, <<"old.pb", "old.json">>, "known"),
     Translator("proto_decode", <<"input", "output">>, <<"old.pb", "old.pb">>, "known"),
     Translator("proto_encode", <<"input", "output">>, <<"new.json", "new.pb">>, "known"),
     Translator("proto_encode", <<"output", "input">>, <<"new.pb", "old.json">>, "unknown"),
     Translator("proto_encode", <<"output", "input">>, <<"old.pb", "old.json">>, "known")}

\* An update, with the flags in any order, in place, or without an input.
Updates ==
    {Translator("compute_update", <<"updated", "original", "output">>,
                                  <<"new.pb", "old.pb", "update.pb">>, "known"),
     Translator("compute_update", <<"output", "original", "updated">>,
                                  <<"new.pb", "old.pb", "new.pb">>, "known"),
     Translator("compute_update", <<"original", "output">>, <<"old.pb", "update.pb">>, "missing"),
     Translator("compute_update", <<"original", "output">>, <<"old.pb", "update.pb">>, "known")}

Generator(channelID, profile, base, outputBlock, outputTx, inspectBlock, inspectTx) ==
    [tool |-> "configtxgen", channelID |-> channelID, profile |-> profile,
     channelCreateTxBaseProfile |-> base, outputBlock |-> outputBlock,
     outputCreateChannelTx |-> outputTx, inspectBlock |-> inspectBlock,
     inspectChannelCreateTx |-> inspectTx]

Generators ==
    {Generator(TRUE, "P", "", "block.pb", "", "block.pb", ""),
     Generator(TRUE, "P", "B", "block.pb", "update.pb", "block.pb", "update.pb"),
     Generator(TRUE, "P", "typo", "block.pb", "update.pb", "", ""),
     Generator(FALSE, "P", "", "block.pb", "", "", ""),
     Generator(FALSE, "", "", "", "", "block.pb", "")}

MCMenu == [r \in {r1, r2} |-> Codings \cup Updates \cup Generators]

Symmetry == Permutations({r1, r2})

MCInitial ==
    "old.pb" :> Message(Config(c1)) @@ "old.json" :> Absent
 @@ "new.json" :> Json(Config(c2)) @@ "new.pb" :> Message(Config(c2))
 @@ "update.pb" :> Message(Update(Config(c1), Config(c2))) @@ "block.pb" :> Message(Block("B"))

=============================================================================
