----------------------------- MODULE EcDomains -----------------------------
(***************************************************************************)
(* The curves the device knows: the tables of cx_ec_domain.c, which        *)
(* cx_ec.c repeats for older applications, and the calls that read them.   *)
(*                                                                         *)
(* The parameters are the real ones: numbers of 24-bit digits, three bytes *)
(* of the source in each, most significant first, the numbers of one curve *)
(* with the same number of digits.  h is what the four bytes of a cofactor *)
(* that are read say.  Hp and Hn are the second Montgomery constants of p  *)
(* and n.  Twisted Edwards curves have their d in b.                       *)
(***************************************************************************)
EXTENDS Integers, Sequences, TLC

Zeros(k) == [i \in 1..k |-> 0]

C_cx_secp256k1 ==
  [curve |-> "SECP256K1", kind |-> "WEIERSTRASS", bits |-> 256, length |-> 32, h |-> 1,
   p |-> <<\hffff, \hffffff, \hffffff, \hffffff, \hffffff, \hffffff, \hffffff, \hffffff, \hffffff, \hfffeff,
           \hfffc2f>>,
   a |-> Zeros(11),
   b |-> Zeros(10) \o <<\h7>>,
   x |-> <<\h79be, \h667ef9, \hdcbbac, \h55a062, \h95ce87, \hb0702, \h9bfcdb, \h2dce28, \hd959f2, \h815b16,
           \hf81798>>,
   y |-> <<\h483a, \hda7726, \ha3c465, \h5da4fb, \hfc0e11, \h8a8fd, \h17b448, \ha68554, \h199c47, \hd08ffb,
           \h10d4b8>>,
   n |-> <<\hffff, \hffffff, \hffffff, \hffffff, \hffffff, \hfffeba, \haedce6, \haf48a0, \h3bbfd2, \h5e8cd0,
           \h364141>>,
   Hp |-> Zeros(8) \o <<\h10000, \h7a200, \he90a1>>,
   Hn |-> <<\h9d67, \h1cd581, \hc69bc5, \he697f5, \he45bcd, \h7c674, \h1496c2, \he7cf8, \h78896c, \hf21467,
            \hd7d140>>]

HalfCopied == [C_cx_secp256k1 EXCEPT !.curve = "SECP256R1", !.b = Zeros(10) \o <<3>>]   \* mutant
C_cx_secp256r1 ==
  [curve |-> "SECP256R1", kind |-> "WEIERSTRASS", bits |-> 256, length |-> 32, h |-> 1,
   p |-> <<\hffff, \hffff00, \h1, \h0, \h0, \h0, \h0, \hffffff, \hffffff, \hffffff, \hffffff>>,
   a |-> <<\hffff, \hffff00, \h1, \h0, \h0, \h0, \h0, \hffffff, \hffffff, \hffffff, \hfffffc>>,
   b |-> <<\h5ac6, \h35d8aa, \h3a93e7, \hb3ebbd, \h557698, \h86bc65, \h1d06b0, \hcc53b0, \hf63bce, \h3c3e27,
           \hd2604b>>,
   x |-> <<\h6b17, \hd1f2e1, \h2c4247, \hf8bce6, \he563a4, \h40f277, \h37d81, \h2deb33, \ha0f4a1, \h3945d8,
           \h98c296>>,
   y |-> <<\h4fe3, \h42e2fe, \h1a7f9b, \h8ee7eb, \h4a7c0f, \h9e162b, \hce3357, \h6b315e, \hcecbb6, \h406837,
           \hbf51f5>>,
   n |-> <<\hffff, \hffff00, \h0, \hffffff, \hffffff, \hffffbc, \he6faad, \ha7179e, \h84f3b9, \hcac2fc, \h632551>>,
   Hp |-> Zeros(1) \o <<\h4ff, \hfffffd, \hffffff, \hffffff, \hfffeff, \hfffffb, \hffffff, \hff0000, \h0, \h3>>,
   Hn |-> <<\h66e1, \h2d94f3, \hd95620, \h2845b2, \h392b6b, \hec5946, \h99799c, \h49bd6f, \ha68324, \h4c95be,
            \h79eea2>>]

C_cx_secp384r1 ==
  [curve |-> "SECP384R1", kind |-> "WEIERSTRASS", bits |-> 384, length |-> 48, h |-> 1,
   p |-> <<\hffffff, \hffffff, \hffffff, \hffffff, \hffffff, \hffffff, \hffffff, \hffffff, \hffffff, \hffffff,
           \hfffeff, \hffffff, \h0, \h0, \hff, \hffffff>>,
   a |-> <<\hffffff, \hffffff, \hffffff, \hffffff, \hffffff, \hffffff, \hffffff, \hffffff, \hffffff, \hffffff,
           \hfffeff, \hffffff, \h0, \h0, \hff, \hfffffc>>,
   b |-> <<\hb3312f, \ha7e23e, \he7e498, \h8e056b, \he3f82d, \h19181d, \h9c6efe, \h814112, \h31408, \h8f5013,
           \h875ac6, \h56398d, \h8a2ed1, \h9d2a85, \hc8edd3, \hec2aef>>,
   x |-> <<\haa87ca, \h22be8b, \h5378e, \hb1c71e, \hf320ad, \h746e1d, \h3b628b, \ha79b98, \h59f741, \he08254,
           \h2a3855, \h2f25d, \hbf5529, \h6c3a54, \h5e3872, \h760ab7>>,
   y |-> <<\h3617de, \h4a9626, \h2c6f5d, \h9e98bf, \h9292dc, \h29f8f4, \h1dbd28, \h9a147c, \he9da31, \h13b5f0,
           \hb8c00a, \h60b1ce, \h1d7e81, \h9d7a43, \h1d7c90, \hea0e5f>>,
   n |-> <<\hffffff, \hffffff, \hffffff, \hffffff, \hffffff, \hffffff, \hffffff, \hffffff, \hc7634d, \h81f437,
           \h2ddf58, \h1a0db2, \h48b0a7, \h7aecec, \h196acc, \hc52973>>,
   Hp |-> Zeros(5) \o <<\h10000, \h200, \h0, \hffffff, \hfe0000, \h0, \h2, \h0, \hffff, \hfffe00, \h1>>,
   Hn |-> <<\hc84ee, \h12b39, \hbf213f, \hb05b7a, \h282668, \h95d40d, \h49174a, \hab1cc5, \hbc3e48, \h3afcb8,
            \h2947ff, \h3d81e5, \hdf1aa4, \h192d31, \h9b2419, \hb409a9>>]

C_cx_secp521r1 ==
  [curve |-> "SECP521R1", kind |-> "WEIERSTRASS", bits |-> 521, length |-> 66, h |-> 1,
   p |-> <<\h1ffff, \hffffff, \hffffff, \hffffff, \hffffff, \hffffff, \hffffff, \hffffff, \hffffff, \hffffff,
           \hffffff, \hffffff, \hffffff, \hffffff, \hffffff, \hffffff, \hffffff, \hffffff, \hffffff, \hffffff,
           \hffffff, \hffffff>>,
   a |-> <<\h1ffff, \hffffff, \hffffff, \hffffff, \hffffff, \hffffff, \hffffff, \hffffff, \hffffff, \hffffff,
           \hffffff, \hffffff, \hffffff, \hffffff, \hffffff, \hffffff, \hffffff, \hffffff, \hffffff, \hffffff,
           \hffffff, \hfffffc>>,
   b |-> <<\h5195, \h3eb961, \h8e1c9a, \h1f929a, \h21a0b6, \h8540ee, \ha2da72, \h5b99b3, \h15f3b8, \hb48991, \h8ef109,
           \he15619, \h3951ec, \h7e937b, \h1652c0, \hbd3bb1, \hbf0735, \h73df88, \h3d2c34, \hf1ef45, \h1fd46b,
           \h503f00>>,
   x |-> <<\hc685, \h8e06b7, \h404e9, \hcd9e3e, \hcb6623, \h95b442, \h9c6481, \h39053f, \hb521f8, \h28af60, \h6b4d3d,
           \hbaa14b, \h5e77ef, \he75928, \hfe1dc1, \h27a2ff, \ha8de33, \h48b3c1, \h856a42, \h9bf97e, \h7e31c2,
           \he5bd66>>,
   y |-> <<\h11839, \h296a78, \h9a3bc0, \h45c8a, \h5fb42c, \h7d1bd9, \h98f544, \h49579b, \h446817, \hafbd17, \h273e66,
           \h2c97ee, \h72995e, \hf42640, \hc550b9, \h13fad, \h76135, \h3c7086, \ha272c2, \h4088be, \h94769f,
           \hd16650>>,
   n |-> <<\h1ffff, \hffffff, \hffffff, \hffffff, \hffffff, \hffffff, \hffffff, \hffffff, \hffffff, \hffffff,
           \hffffff, \hfa5186, \h8783bf, \h2f966b, \h7fcc01, \h48f709, \ha5d03b, \hb5c9b8, \h899c47, \haebb6f,
           \hb71e91, \h386409>>,
   Hp |-> Zeros(12) \o <<\h400000, \h0, \h0, \h0, \h0, \h0, \h0, \h0, \h0, \h0>>,
   Hn |-> <<\h1bccf, \hf3d142, \hb7756e, \h3edd6e, \h23d82e, \h49c7dc, \h813d00, \hebc545, \h59b80, \h5cc349,
            \h4290a7, \hc81847, \h42d700, \he08109, \h4e893c, \h9cf652, \h227d46, \h5b9f72, \h66b47e, \he7f056,
            \h219651, \h920bb5>>]

C_cx_BrainpoolP256r1 ==
  [curve |-> "BrainPoolP256R1", kind |-> "WEIERSTRASS", bits |-> 256, length |-> 32, h |-> 1,
   p |-> <<\ha9fb, \h57dba1, \heea9bc, \h3e660a, \h909d83, \h8d726e, \h3bf623, \hd52620, \h282013, \h481d1f,
           \h6e5377>>,
   a |-> <<\h7d5a, \h975fc, \h2c3057, \heef675, \h30417a, \hffe7fb, \h8055c1, \h26dc5c, \h6ce94a, \h4b44f3,
           \h30b5d9>>,
   b |-> <<\h26dc, \h5c6ce9, \h4a4b44, \hf330b5, \hd9bbd7, \h7cbf95, \h841629, \h5cf7e1, \hce6bcc, \hdc18ff,
           \h8c07b6>>,
   x |-> <<\h8bd2, \haeb9cb, \h7e57cb, \h2c4b48, \h2ffc81, \hb7afb9, \hde27e1, \he3bd23, \hc23a44, \h53bd9a,
           \hce3262>>,
   y |-> <<\h547e, \hf835c3, \hdac4fd, \h97f846, \h1a1461, \h1dc9c2, \h774513, \h2ded8e, \h545c1d, \h54c72f,
           \h46997>>,
   n |-> <<\ha9fb, \h57dba1, \heea9bc, \h3e660a, \h909d83, \h8d718c, \h397aa3, \hb561a6, \hf7901e, \he8297,
           \h4856a7>>,
   Hp |-> <<\h4717, \haa21e5, \h957fa8, \ha1ecda, \hcd6b1a, \hc8075c, \hce4c26, \h614d4f, \h4d8cfe, \hdf7ba6,
            \h465b6c>>,
   Hn |-> <<\hb25, \hf1b9c3, \h236762, \h9b7f25, \he76c81, \h5cb0f3, \h5d176a, \h1134e4, \ha0e1d8, \hd8de33,
            \h12fca6>>]

C_cx_BrainpoolP256t1 ==
  [curve |-> "BrainPoolP256T1", kind |-> "WEIERSTRASS", bits |-> 256, length |-> 32, h |-> 1,
   p |-> <<\ha9fb, \h57dba1, \heea9bc, \h3e660a, \h909d83, \h8d726e, \h3bf623, \hd52620, \h282013, \h481d1f,
           \h6e5377>>,
   a |-> <<\ha9fb, \h57dba1, \heea9bc, \h3e660a, \h909d83, \h8d726e, \h3bf623, \hd52620, \h282013, \h481d1f,
           \h6e5374>>,
   b |-> <<\h662c, \h61c430, \hd84ea4, \hfe66a7, \h733d0b, \h76b7bf, \h93ebc4, \haf2f49, \h256ae5, \h8101fe,
           \he92b04>>,
   x |-> <<\ha3e8, \heb3cc1, \hcfe7b7, \h732213, \hb23a65, \h6149af, \ha142c4, \h7aafbc, \h2b79a1, \h91562e,
           \h1305f4>>,
   y |-> <<\h2d99, \h6c8234, \h39c56d, \h7f7b22, \he14644, \h417e69, \hbcb6de, \h39d027, \h1dab, \he8f35b, \h25c9be>>,
   n |-> <<\ha9fb, \h57dba1, \heea9bc, \h3e660a, \h909d83, \h8d718c, \h397aa3, \hb561a6, \hf7901e, \he8297,
           \h4856a7>>,
   Hp |-> <<\h4717, \haa21e5, \h957fa8, \ha1ecda, \hcd6b1a, \hc8075c, \hce4c26, \h614d4f, \h4d8cfe, \hdf7ba6,
            \h465b6c>>,
   Hn |-> <<\hb25, \hf1b9c3, \h236762, \h9b7f25, \he76c81, \h5cb0f3, \h5d176a, \h1134e4, \ha0e1d8, \hd8de33,
            \h12fca6>>]

C_cx_BrainpoolP320r1 ==
  [curve |-> "BrainPoolP320R1", kind |-> "WEIERSTRASS", bits |-> 320, length |-> 40, h |-> 1,
   p |-> <<\hd3, \h5e4720, \h36bc4f, \hb7e13c, \h785ed2, \h1e065, \hf98fcf, \ha6f6f4, \hdef4f, \h92b9ec, \h7893ec,
           \h28fcd4, \h12b1f1, \hb32e27>>,
   a |-> <<\h3e, \he30b56, \h8fbab0, \hf883cc, \hebd46d, \h3f3bb8, \ha2a735, \h13f5eb, \h79da66, \h190eb0, \h85ffa9,
           \hf492f3, \h75a97d, \h860eb4>>,
   b |-> <<\h52, \h88394, \h9dfdbc, \h42d3ad, \h198640, \h688a6f, \he13f41, \h349554, \hb49acc, \h31dccd, \h884539,
           \h816f5e, \hb4ac8f, \hb1f1a6>>,
   x |-> <<\h43, \hbd7e9a, \hfb53d8, \hb85289, \hbcc48e, \he5bfe6, \hf20137, \hd10a08, \h7eb6e7, \h871e2a, \h10a599,
           \hc710af, \h8d0d39, \he20611>>,
   y |-> <<\h14, \hfdd055, \h45ec1c, \hc8ab40, \h93247f, \h77275e, \h743ff, \hed1171, \h82eaa9, \hc77877, \haaac6a,
           \hc7d352, \h45d169, \h2e8ee1>>,
   n |-> <<\hd3, \h5e4720, \h36bc4f, \hb7e13c, \h785ed2, \h1e065, \hf98fcf, \ha5b68f, \h12a32d, \h482ec7, \hee8658,
           \he98691, \h555b44, \hc59311>>,
   Hp |-> <<\h40, \h3a056e, \h97a2c0, \h9cdbc2, \h1a8177, \h27a6d4, \hc53aa9, \h675c40, \hf410, \h260b24, \hef8214,
            \h48b4e0, \h4050ad, \h8b400d>>,
   Hn |-> <<\ha7, \hd3db6, \hd2668a, \h953b53, \h96feb0, \hb9514, \h7ad16, \h66458b, \hcc15dd, \h860295, \he4a3f1,
            \ha0b9b6, \hac1d66, \h163f17>>]

C_cx_BrainpoolP320t1 ==
  [curve |-> "BrainPoolP320T1", kind |-> "WEIERSTRASS", bits |-> 320, length |-> 40, h |-> 1,
   p |-> <<\hd3, \h5e4720, \h36bc4f, \hb7e13c, \h785ed2, \h1e065, \hf98fcf, \ha6f6f4, \hdef4f, \h92b9ec, \h7893ec,
           \h28fcd4, \h12b1f1, \hb32e27>>,
   a |-> <<\hd3, \h5e4720, \h36bc4f, \hb7e13c, \h785ed2, \h1e065, \hf98fcf, \ha6f6f4, \hdef4f, \h92b9ec, \h7893ec,
           \h28fcd4, \h12b1f1, \hb32e24>>,
   b |-> <<\ha7, \hf561e0, \h38eb1e, \hd560b3, \hd147db, \h782013, \h64c19, \hf27ed2, \h7c6780, \haaf77f, \hb8a547,
           \hceb5b4, \hfef422, \h340353>>,
   x |-> <<\h92, \h5be9fb, \h1afc6, \hfb4d3e, \h7d4990, \h10f81, \h3408ab, \h106c4f, \h9cb7e, \he07868, \hcc136f,
           \hff3357, \hf624a2, \h1bed52>>,
   y |-> <<\h63, \hba3a7a, \h27483e, \hbf6671, \hdbef7a, \hbb30eb, \hee084e, \h58a0b0, \h77ad42, \ha5a098, \h9d1ee7,
           \h1b1b9b, \hc0455f, \hb0d2c3>>,
   n |-> <<\hd3, \h5e4720, \h36bc4f, \hb7e13c, \h785ed2, \h1e065, \hf98fcf, \ha5b68f, \h12a32d, \h482ec7, \hee8658,
           \he98691, \h555b44, \hc59311>>,
   Hp |-> <<\h40, \h3a056e, \h97a2c0, \h9cdbc2, \h1a8177, \h27a6d4, \hc53aa9, \h675c40, \hf410, \h260b24, \hef8214,
            \h48b4e0, \h4050ad, \h8b400d>>,
   Hn |-> <<\ha7, \hd3db6, \hd2668a, \h953b53, \h96feb0, \hb9514, \h7ad16, \h66458b, \hcc15dd, \h860295, \he4a3f1,
            \ha0b9b6, \hac1d66, \h163f17>>]

C_cx_BrainpoolP384r1 ==
  [curve |-> "BrainPoolP384R1", kind |-> "WEIERSTRASS", bits |-> 384, length |-> 48, h |-> 1,
   p |-> <<\h8cb91e, \h82a338, \h6d280f, \h5d6f7e, \h50e641, \hdf152f, \h7109ed, \h5456b4, \h12b1da, \h197fb7,
           \h1123ac, \hd3a729, \h901d1a, \h718747, \h1331, \h7ec53>>,
   a |-> <<\h7bc382, \hc63d8c, \h150c3c, \h72080a, \hce05af, \ha0c2be, \ha28e4f, \hb22787, \h139165, \hefba91,
           \hf90f8a, \ha5814a, \h503ad4, \heb04a8, \hc7dd22, \hce2826>>,
   b |-> <<\h4a8c7, \hdd22ce, \h28268b, \h39b554, \h16f044, \h7c2fb7, \h7de107, \hdcd2a6, \h2e880e, \ha53eeb,
           \h62d57c, \hb43902, \h95dbc9, \h943ab7, \h8696fa, \h504c11>>,
   x |-> <<\h1d1c64, \hf068cf, \h45ffa2, \ha63a81, \hb7c13f, \h6b8847, \ha3e77e, \hf14fe3, \hdb7fca, \hfe0cbd,
           \h10e8e8, \h26e034, \h36d646, \haaef87, \hb2e247, \hd4af1e>>,
   y |-> <<\h8abe1d, \h7520f9, \hc2a45c, \hb1eb8e, \h95cfd5, \h5262b7, \hb29fe, \hec5864, \he19c05, \h4ff991,
           \h29280e, \h464621, \h779181, \h114282, \h34126, \h3c5315>>,
   n |-> <<\h8cb91e, \h82a338, \h6d280f, \h5d6f7e, \h50e641, \hdf152f, \h7109ed, \h5456b3, \h1f166e, \h6cac04,
           \h25a7cf, \h3ab6af, \h6b7fc3, \h103b88, \h3202e9, \h46565>>,
   Hp |-> <<\h36bf68, \h83178d, \hf842d5, \hc6ef3b, \ha57e05, \h2c6214, \h19199, \h18d5af, \h8e28f9, \h9cc994,
            \h89953, \h528334, \h3d7fd9, \h65087c, \hefff40, \hb64bde>>,
   Hn |-> <<\hce894, \h1a614e, \h97c28f, \h886dc9, \h65165f, \hdb574a, \h74cb52, \hd748ff, \h2a927e, \h3b9802,
            \h688a37, \h264e20, \h2f2b6b, \h6eac4e, \hd3a2de, \h771c8e>>]

C_cx_BrainpoolP384t1 ==
  [curve |-> "BrainPoolP384T1", kind |-> "WEIERSTRASS", bits |-> 384, length |-> 48, h |-> 1,
   p |-> <<\h8cb91e, \h82a338, \h6d280f, \h5d6f7e, \h50e641, \hdf152f, \h7109ed, \h5456b4, \h12b1da, \h197fb7,
           \h1123ac, \hd3a729, \h901d1a, \h718747, \h1331, \h7ec53>>,
   a |-> <<\h8cb91e, \h82a338, \h6d280f, \h5d6f7e, \h50e641, \hdf152f, \h7109ed, \h5456b4, \h12b1da, \h197fb7,
           \h1123ac, \hd3a729, \h901d1a, \h718747, \h1331, \h7ec50>>,
   b |-> <<\h7f519e, \hada7bd, \ha81bd8, \h26dba6, \h47910f, \h8c4b93, \h46ed8c, \hcdc64e, \h4b1abd, \h11756d,
           \hce1d20, \h74aa26, \h3b8880, \h5ced70, \h355a33, \hb471ee>>,
   x |-> <<\h18de98, \hb02db9, \ha306f2, \hafcd72, \h35f72a, \h819b80, \hab12eb, \hd65317, \h2476fe, \hcd462a,
           \habffc4, \hff191b, \h946a5f, \h54d8d0, \haa2f41, \h8808cc>>,
   y |-> <<\h25ab05, \h6962d3, \h651a1, \h14afd2, \h755ad3, \h36747f, \h93475b, \h7a1fca, \h3b88f2, \hb6a208,
           \hccfe46, \h940858, \h4dc2b2, \h912675, \hbf5b9e, \h582928>>,
   n |-> <<\h8cb91e, \h82a338, \h6d280f, \h5d6f7e, \h50e641, \hdf152f, \h7109ed, \h5456b3, \h1f166e, \h6cac04,
           \h25a7cf, \h3ab6af, \h6b7fc3, \h103b88, \h3202e9, \h46565>>,
   Hp |-> <<\h36bf68, \h83178d, \hf842d5, \hc6ef3b, \ha57e05, \h2c6214, \h19199, \h18d5af, \h8e28f9, \h9cc994,
            \h89953, \h528334, \h3d7fd9, \h65087c, \hefff40, \hb64bde>>,
   Hn |-> <<\hce894, \h1a614e, \h97c28f, \h886dc9, \h65165f, \hdb574a, \h74cb52, \hd748ff, \h2a927e, \h3b9802,
            \h688a37, \h264e20, \h2f2b6b, \h6eac4e, \hd3a2de, \h771c8e>>]

C_cx_BrainpoolP512r1 ==
  [curve |-> "BrainPoolP512R1", kind |-> "WEIERSTRASS", bits |-> 512, length |-> 64, h |-> 1,
   p |-> <<\haa, \hdd9db8, \hdbe9c4, \h8b3fd4, \he6ae33, \hc9fc07, \hcb308d, \hb3b3c9, \hd20ed6, \h639cca, \h703308,
           \h717d4d, \h9b009b, \hc66842, \haecda1, \h2ae6a3, \h80e628, \h81ff2f, \h2d82c6, \h8528aa, \h605658,
           \h3a48f3>>,
   a |-> <<\h78, \h30a331, \h8b603b, \h89e232, \h7145ac, \h234cc5, \h94cbdd, \h8d3df9, \h1610a8, \h3441ca, \hea9863,
           \hbc2ded, \h5d5aa8, \h253aa1, \ha2ef1, \hc98b9a, \hc8b57f, \h1117a7, \h2bf2c7, \hb9e7c1, \hac4d77,
           \hfc94ca>>,
   b |-> <<\h3d, \hf91610, \ha83441, \hcaea98, \h63bc2d, \hed5d5a, \ha8253a, \ha10a2e, \hf1c98b, \h9ac8b5, \h7f1117,
           \ha72bf2, \hc7b9e7, \hc1ac4d, \h77fc94, \hcadc08, \h3e6798, \h4050b7, \h5ebae5, \hdd2809, \hbd6380,
           \h16f723>>,
   x |-> <<\h81, \haee4bd, \hd82ed9, \h645a21, \h322e9c, \h4c6a93, \h85ed9f, \h70b5d9, \h16c1b4, \h3b62ee, \hf4d009,
           \h8eff3b, \h1f78e2, \hd0d48d, \h50d168, \h7b93b9, \h7d5f7c, \h6d5047, \h406a5e, \h688b35, \h2209bc,
           \hb9f822>>,
   y |-> <<\h7d, \hde385d, \h566332, \hecc0ea, \hbfa9cf, \h7822fd, \hf209f7, \h24a5, \h7b1aa0, \hc55b, \h881f81,
           \h11b2dc, \hde494a, \h5f485e, \h5bca4b, \hd88a27, \h63aed1, \hca2b2f, \ha8f054, \h678cd, \h1e0f3a,
           \hd80892>>,
   n |-> <<\haa, \hdd9db8, \hdbe9c4, \h8b3fd4, \he6ae33, \hc9fc07, \hcb308d, \hb3b3c9, \hd20ed6, \h639cca, \h703308,
           \h70553e, \h5c414c, \ha92619, \h418661, \h197fac, \h10471d, \hb1d381, \h85dda, \hddb587, \h96829c,
           \ha90069>>,
   Hp |-> <<\h3c, \h4c9d05, \ha9ff64, \h50202e, \h194020, \h56eecc, \ha16daa, \h5fd42b, \hff8319, \h486fd8, \hd58980,
            \h57e0c1, \h9a7783, \h514a25, \h53b7f9, \hbc905a, \hffd379, \h3fb130, \h271579, \h549ad, \h144a61,
            \h58f205>>,
   Hn |-> <<\ha7, \h94586a, \h718407, \hb095df, \h1b4c19, \h4b2e56, \h723c37, \ha22f16, \hbbdfd7, \hf9cc26, \h3b790d,
            \he3a6f2, \h30c72f, \h207e8, \h3ec64b, \hd033b7, \h627f08, \h86b758, \h95283d, \hddd2a3, \h681ecd,
            \ha81671>>]

C_cx_BrainpoolP512t1 ==
  [curve |-> "BrainPoolP512T1", kind |-> "WEIERSTRASS", bits |-> 512, length |-> 64, h |-> 1,
   p |-> <<\haa, \hdd9db8, \hdbe9c4, \h8b3fd4, \he6ae33, \hc9fc07, \hcb308d, \hb3b3c9, \hd20ed6, \h639cca, \h703308,
           \h717d4d, \h9b009b, \hc66842, \haecda1, \h2ae6a3, \h80e628, \h81ff2f, \h2d82c6, \h8528aa, \h605658,
           \h3a48f3>>,
   a |-> <<\haa, \hdd9db8, \hdbe9c4, \h8b3fd4, \he6ae33, \hc9fc07, \hcb308d, \hb3b3c9, \hd20ed6, \h639cca, \h703308,
           \h717d4d, \h9b009b, \hc66842, \haecda1, \h2ae6a3, \h80e628, \h81ff2f, \h2d82c6, \h8528aa, \h605658,
           \h3a48f0>>,
   b |-> <<\h7c, \hbbbcf9, \h441cfa, \hb76e18, \h90e468, \h84eae3, \h21f70c, \hbcb49, \h815278, \h97504b, \hec3e36,
           \ha62bcd, \hfa2304, \h976540, \hf64500, \h85f2da, \he145c2, \h2553b4, \h657636, \h89180e, \ha25718,
           \h67423e>>,
   x |-> <<\h64, \hece5c, \h127887, \h17b9c1, \hba06cb, \hc2a6fe, \hba8584, \h2458c5, \h6dde9d, \hb1758d, \h39c031,
           \h3d82ba, \h51735c, \hdb3ea4, \h99aa77, \ha7d694, \h3a64f7, \ha3f25f, \he26f06, \hb51baa, \h2696fa,
           \h9035da>>,
   y |-> <<\h5b, \h534bd5, \h95f5af, \hfa2c8, \h92376c, \h84ace1, \hbb4e30, \h19b716, \h34c011, \h31159c, \hae03ce,
           \he9d993, \h2184be, \hef216b, \hd71df2, \hdadf86, \ha62730, \h6ecff9, \h6dbb8b, \hace198, \hb61e00,
           \hf8b332>>,
   n |-> <<\haa, \hdd9db8, \hdbe9c4, \h8b3fd4, \he6ae33, \hc9fc07, \hcb308d, \hb3b3c9, \hd20ed6, \h639cca, \h703308,
           \h70553e, \h5c414c, \ha92619, \h418661, \h197fac, \h10471d, \hb1d381, \h85dda, \hddb587, \h96829c,
           \ha90069>>,
   Hp |-> <<\h3c, \h4c9d05, \ha9ff64, \h50202e, \h194020, \h56eecc, \ha16daa, \h5fd42b, \hff8319, \h486fd8, \hd58980,
            \h57e0c1, \h9a7783, \h514a25, \h53b7f9, \hbc905a, \hffd379, \h3fb130, \h271579, \h549ad, \h144a61,
            \h58f205>>,
   Hn |-> <<\ha7, \h94586a, \h718407, \hb095df, \h1b4c19, \h4b2e56, \h723c37, \ha22f16, \hbbdfd7, \hf9cc26, \h3b790d,
            \he3a6f2, \h30c72f, \h207e8, \h3ec64b, \hd033b7, \h627f08, \h86b758, \h95283d, \hddd2a3, \h681ecd,
            \ha81671>>]

C_cx_Stark256 ==
  [curve |-> "Stark256", kind |-> "WEIERSTRASS", bits |-> 252, length |-> 32, h |-> 1,
   p |-> <<\h800, \h0, \h11, \h0, \h0, \h0, \h0, \h0, \h0, \h0, \h1>>,
   a |-> Zeros(10) \o <<\h1>>,
   b |-> <<\h6f2, \h1413ef, \hbe40de, \h150e59, \h6d72f7, \ha8c560, \h9ad26c, \h15c915, \hc1f4cd, \hfcb99c,
           \hee9e89>>,
   x |-> <<\h1ef, \h15c185, \h99971b, \h7beced, \h415a40, \hf0c7de, \hacfd9b, \hd1819, \he03d72, \h3d8bc9, \h43cfca>>,
   y |-> <<\h56, \h68060a, \ha49730, \hb7be48, \h1df46, \hec62de, \h53ecd1, \h1abe43, \ha32873, \hc36, \he8dc1f>>,
   n |-> <<\h800, \h0, \h10, \hffffff, \hffffff, \hffffb7, \h81126d, \hcae7b2, \h321e66, \ha241ad, \hc64d2f>>,
   Hp |-> <<\h7ff, \hd4ab5e, \h8810, \hffffff, \hffff6f, \h800000, \h1, \h330fff, \hffffff, \hfd737e, \h401>>,
   Hn |-> <<\h7d9, \he57c23, \h33766e, \hbaf0ab, \h4cf78b, \hbabb50, \h9cf64d, \h14ce60, \hb96021, \hb3f1ea,
            \h1c688d>>]

C_cx_BLS12_381_G1 ==
  [curve |-> "BLS12_381_G1", kind |-> "WEIERSTRASS", bits |-> 381, length |-> 48, h |-> 1,
   p |-> <<\h1a0111, \hea397f, \he69a4b, \h1ba7b6, \h434bac, \hd76477, \h4b84f3, \h8512bf, \h6730d2, \ha0f6b0,
           \hf6241e, \habfffe, \hb153ff, \hffb9fe, \hffffff, \hffaaab>>,
   a |-> Zeros(16),
   b |-> Zeros(15) \o <<\h4>>,
   x |-> <<\h17f1d3, \ha73197, \hd79426, \h95638c, \h4fa9ac, \hfc368, \h8c4f97, \h74b905, \ha14e3a, \h3f171b,
           \hac586c, \h55e83f, \hf97a1a, \heffb3a, \hf00adb, \h22c6bb>>,
   y |-> <<\h8b3f4, \h81e3aa, \ha0f1a0, \h9e30ed, \h741d8a, \he4fcf5, \he095d5, \hd00af6, \hdb18, \hcb2c04, \hb3edd0,
           \h3cc744, \ha2888a, \he40caa, \h232946, \hc5e7e1>>,
   n |-> Zeros(5) \o <<\h73ed, \ha75329, \h9d7d48, \h3339d8, \h809a1, \hd80553, \hbda402, \hfffe5b, \hfeffff,
                       \hffff00, \h1>>,
   Hp |-> <<\h11988f, \he592ca, \he3aa9a, \h793e85, \hb51995, \h2d67eb, \h88a993, \h9d83c0, \h8de547, \h6c4c95,
            \hb6d50a, \h76e6a6, \h9d104, \hf1f4df, \h1f341c, \h341746>>,
   Hn |-> Zeros(5) \o <<\h6e2a, \h5bb9c8, \hdb33e9, \h73d13c, \h71c7b5, \hf4181b, \h3e0d18, \h8cf069, \h90c62c,
                        \h180743, \h9b73af>>]

C_cx_BLS12_377_G1 ==
  [curve |-> "BLS12_377_G1", kind |-> "WEIERSTRASS", bits |-> 377, length |-> 48, h |-> 0,
   p |-> <<\h1ae3a, \h4617c5, \h10eac6, \h3b05c0, \h6ca149, \h3b1a22, \hd9f300, \hf5138f, \h1ef362, \h2fba09,
           \h480017, \hb5d44, \h300000, \h8508, \hc00000, \h1>>,
   a |-> Zeros(16),
   b |-> Zeros(15) \o <<\h1>>,
   x |-> <<\h8848, \hdefe74, \ha67c8, \hfc6225, \hbf87ff, \h548595, \h1e2caa, \h9d41bb, \h188282, \hc8bd37, \hcb5cd5,
           \h481512, \hffcd39, \h4eeab9, \hb16eb2, \h1be9ef>>,
   y |-> <<\h1914a, \h69c510, \h2eff1f, \h674f5d, \h30afee, \hc4bd7f, \hb348ca, \h3e52d9, \h6d182a, \hd44fb8,
           \h2305c2, \hfe3d36, \h34a959, \h1afd82, \hde5555, \h9c8ea6>>,
   n |-> Zeros(5) \o <<\h12ab, \h655e9a, \h2ca556, \h60b44d, \h1e5c37, \hb00159, \haa76fe, \hd00000, \h10a11,
                       \h800000, \h1>>,
   Hp |-> <<\h6dfc, \hcb1e91, \h4b8883, \h7e92f0, \h41790b, \hf9bfdf, \h7d0382, \h7dc3ac, \h22a5f1, \h1162d6,
            \hb46d03, \h29fcaa, \hb00431, \hb1b786, \h686c94, \hcd22>>,
   Hn |-> Zeros(5) \o <<\h601, \hdfa555, \hc48dda, \hb1e55e, \hf6f1c9, \hd71362, \h4d23ff, \hae2716, \h996a42,
                        \h95c90f, \h65454c>>]

C_cx_Pallas ==
  [curve |-> "PALLAS", kind |-> "WEIERSTRASS", bits |-> 255, length |-> 32, h |-> 1,
   p |-> <<\h4000, \h0, \h0, \h0, \h0, \h22, \h4698fc, \h94cf9, \h1b992d, \h30ed00, \h1>>,
   a |-> Zeros(11),
   b |-> Zeros(10) \o <<\h5>>,
   x |-> <<\h147, \h33b283, \h272574, \he23931, \hf358a0, \h354b7b, \hcd5c76, \h5cc1fc, \heacc3b, \h3d1a0c,
           \h495c9e>>,
   y |-> <<\h3a7b, \h895f5e, \h1fa91d, \h826f72, \hea26b5, \hc90b1b, \hae77d1, \h29f5ec, \hc13789, \h24d743,
           \hf4b678>>,
   n |-> <<\h4000, \h0, \h0, \h0, \h0, \h22, \h4698fc, \h994a8, \hdd8c46, \heb2100, \h1>>,
   Hp |-> <<\h96d, \h41af7b, \h9cb714, \h7797a9, \h9bc3c9, \h5d18d7, \hd30dbd, \h8b0de0, \he78c78, \hecb300, \hf>>,
   Hn |-> <<\h96d, \h41af7c, \hcfdaa9, \h7fae23, \h1004cc, \hf59067, \hbb433d, \h891a16, \he3fc96, \h78ff00, \hf>>]

C_cx_Vesta ==
  [curve |-> "VESTA", kind |-> "WEIERSTRASS", bits |-> 255, length |-> 32, h |-> 1,
   p |-> <<\h4000, \h0, \h0, \h0, \h0, \h22, \h4698fc, \h994a8, \hdd8c46, \heb2100, \h1>>,
   a |-> Zeros(11),
   b |-> Zeros(10) \o <<\h5>>,
   x |-> <<\h2d39, \h96e18f, \h134bd9, \h3aec73, \hc9b984, \hdbf270, \h74e544, \h29e4a, \hc122fb, \h219fde,
           \h2b20eb>>,
   y |-> <<\h2afa, \ha43f3c, \h902b3d, \h19adc0, \hb90aa1, \he9a37d, \h55c73d, \h7753f7, \h22f34d, \h456e53,
           \h854f0>>,
   n |-> <<\h4000, \h0, \h0, \h0, \h0, \h22, \h4698fc, \h94cf9, \h1b992d, \h30ed00, \h1>>,
   Hp |-> <<\h96d, \h41af7c, \hcfdaa9, \h7fae23, \h1004cc, \hf59067, \hbb433d, \h891a16, \he3fc96, \h78ff00, \hf>>,
   Hn |-> <<\h96d, \h41af7b, \h9cb714, \h7797a9, \h9bc3c9, \h5d18d7, \hd30dbd, \h8b0de0, \he78c78, \hecb300, \hf>>]

C_cx_Ed25519 ==
  [curve |-> "Ed25519", kind |-> "TWISTED_EDWARDS", bits |-> 256, length |-> 32, h |-> 8,
   p |-> <<\h7fff, \hffffff, \hffffff, \hffffff, \hffffff, \hffffff, \hffffff, \hffffff, \hffffff, \hffffff,
           \hffffed>>,
   a |-> <<\h7fff, \hffffff, \hffffff, \hffffff, \hffffff, \hffffff, \hffffff, \hffffff, \hffffff, \hffffff,
           \hffffec>>,
   b |-> <<\h5203, \h6cee2b, \h6ffe73, \h8cc740, \h797779, \he89800, \h700a4d, \h4141d8, \hab75eb, \h4dca13,
           \h5978a3>>,
   x |-> <<\h2169, \h36d3cd, \h6e53fe, \hc0a4e2, \h31fdd6, \hdc5c69, \h2cc760, \h9525a7, \hb2c956, \h2d608f,
           \h25d51a>>,
   y |-> <<\h6666, \h666666, \h666666, \h666666, \h666666, \h666666, \h666666, \h666666, \h666666, \h666666,
           \h666658>>,
   n |-> <<\h1000, \h0, \h0, \h0, \h0, \h14, \hdef9de, \ha2f79c, \hd65812, \h631a5c, \hf5d3ed>>,
   Hp |-> Zeros(10) \o <<\h5a4>>,
   Hn |-> <<\h399, \h411b7c, \h309a3d, \hceec73, \hd217f5, \hbe65d0, \he1ba7, \h688593, \h47a406, \h11e344,
            \h9c0f01>>]

C_cx_Ed448 ==
  [curve |-> "Ed448", kind |-> "TWISTED_EDWARDS", bits |-> 448, length |-> 57, h |-> 4,
   p |-> <<\hffff, \hffffff, \hffffff, \hffffff, \hffffff, \hffffff, \hffffff, \hffffff, \hffffff, \hfffeff, \hffffff,
           \hffffff, \hffffff, \hffffff, \hffffff, \hffffff, \hffffff, \hffffff, \hffffff>>,
   a |-> Zeros(18) \o <<\h1>>,
   b |-> <<\hffff, \hffffff, \hffffff, \hffffff, \hffffff, \hffffff, \hffffff, \hffffff, \hffffff, \hfffeff, \hffffff,
           \hffffff, \hffffff, \hffffff, \hffffff, \hffffff, \hffffff, \hffffff, \hff6756>>,
   x |-> <<\h4f19, \h70c66b, \hed0ded, \h221d15, \ha622bf, \h36da9e, \h146570, \h470f17, \h67ea6d, \he324a3, \hd3a464,
           \h12ae1a, \hf72ab6, \h651143, \h3b80e1, \h8b0093, \h8e2626, \ha82bc7, \hcc05e>>,
   y |-> <<\h693f, \h46716e, \hb6bc24, \h887620, \h3756c9, \hc7624b, \hea7373, \h6ca398, \h408778, \h9c1e05, \ha0c2d7,
           \h3ad3ff, \h1ce67c, \h39c4fd, \hbd132c, \h4ed7c8, \had9808, \h795bf2, \h30fa14>>,
   n |-> <<\h3fff, \hffffff, \hffffff, \hffffff, \hffffff, \hffffff, \hffffff, \hffffff, \hffffff, \hffff7c, \hca23e9,
           \hc44edb, \h49aed6, \h369021, \h6cc272, \h8dc58f, \h552378, \hc292ab, \h5844f3>>,
   Hp |-> Zeros(4) \o <<\h30000, \h0, \h0, \h0, \h0, \h0, \h0, \h0, \h0, \h200, \h0, \h0, \h0, \h0, \h0>>,
   Hn |-> <<\h1a9c, \hc14ba3, \hc47c44, \hae17cf, \h72c986, \hfaa10, \h7550ba, \h94d0e8, \h8f10a, \h98ef88, \he15bb4,
            \h8bd827, \hde127c, \he5f23e, \haa68d, \h30dbb9, \h89bbec, \hffc33c, \h3a378c>>]

C_cx_EdBLS12 ==
  [curve |-> "EdBLS12", kind |-> "TWISTED_EDWARDS", bits |-> 256, length |-> 32, h |-> 4,
   p |-> <<\h12ab, \h655e9a, \h2ca556, \h60b44d, \h1e5c37, \hb00159, \haa76fe, \hd00000, \h10a11, \h800000, \h1>>,
   a |-> <<\h12ab, \h655e9a, \h2ca556, \h60b44d, \h1e5c37, \hb00159, \haa76fe, \hd00000, \h10a11, \h800000, \h0>>,
   b |-> Zeros(10) \o <<\hbcd>>,
   x |-> <<\h9f1, \hb5a5ba, \hf6acf0, \h6fed91, \hc9ae9e, \hbfa060, \h68dd28, \h357909, \h80894e, \h2328f3,
           \hebca05>>,
   y |-> <<\h9a2, \hdf365, \h71ac3c, \hd906b2, \h56080b, \ha84544, \h53c177, \haaf313, \h1bb50a, \h67bf1a, \h806781>>,
   n |-> <<\h4aa, \hd957a6, \h8b2955, \h982d13, \h47970d, \hec0052, \h93a3af, \hc43c8a, \hfeb95a, \hee9ac3,
           \h3fd9ff>>,
   Hp |-> <<\h11f, \hdae7ef, \hf1c939, \ha7cc00, \h8fe5dc, \h8593cc, \h2c27b5, \h886059, \h1f25d5, \h77bab8,
            \h61857b>>,
   Hn |-> <<\h47ad, \ha1eef0, \h2d841c, \ha06049, \hccd027, \ha21f63, \h9c3f57, \ha73da7, \h337569, \h9cd6a5,
            \h5d450e>>]

C_cx_Jubjub ==
  [curve |-> "JUBJUB", kind |-> "TWISTED_EDWARDS", bits |-> 256, length |-> 32, h |-> 8,
   p |-> <<\h73ed, \ha75329, \h9d7d48, \h3339d8, \h809a1, \hd80553, \hbda402, \hfffe5b, \hfeffff, \hffff00, \h1>>,
   a |-> <<\h73ed, \ha75329, \h9d7d48, \h3339d8, \h809a1, \hd80553, \hbda402, \hfffe5b, \hfeffff, \hffff00, \h0>>,
   b |-> <<\h2a93, \h18e74b, \hfa2b48, \hf5fd92, \h7e6bd, \h7fd429, \h2d7f6d, \h37579d, \h260106, \h5fd6d6,
           \h343eb1>>,
   x |-> <<\h11da, \hfe5d23, \he12180, \h86a365, \hb99fbf, \h3d3be7, \h2f6afd, \h7d1f72, \h623e6b, \h71492,
           \hd1122b>>,
   y |-> <<\h1d52, \h3cf1dd, \hab1a17, \h93132e, \h78c866, \hc0c33e, \h26ba5c, \hc220fe, \hd7cc3f, \h870e59,
           \hd292aa>>,
   n |-> <<\he7d, \hb4ea65, \h33afa9, \h6673b, \h10134, \h3b00a6, \h682093, \hccc810, \h82d097, \he5ed6, \hf72cb7>>,
   Hp |-> <<\h748, \hd9d99f, \h59ff11, \h5d314, \h967254, \h398f2b, \h6cedcb, \h87925c, \h23c999, \he990f3,
            \hf29c6d>>,
   Hn |-> <<\h4f6, \h547b8d, \h127688, \h69dab7, \hfac026, \he9a551, \hb0cef0, \h9ce3fc, \h266771, \h9aa495,
            \he57731>>]

C_cx_Curve25519 ==
  [curve |-> "Curve25519", kind |-> "MONTGOMERY", bits |-> 256, length |-> 32, h |-> 8,
   p |-> <<\h7fff, \hffffff, \hffffff, \hffffff, \hffffff, \hffffff, \hffffff, \hffffff, \hffffff, \hffffff,
           \hffffed>>,
   a |-> Zeros(10) \o <<\h76d06>>,
   b |-> Zeros(10) \o <<\h1>>,
   x |-> Zeros(10) \o <<\h9>>,
   y |-> <<\h5f51, \he65e47, \h5f794b, \h1fe122, \hd388b7, \h2eb36d, \hc2b281, \h92839e, \h4dd616, \h3a5d81,
           \h312c14>>,
   n |-> <<\h1000, \h0, \h0, \h0, \h0, \h14, \hdef9de, \ha2f79c, \hd65812, \h631a5c, \hf5d3ed>>,
   Hp |-> Zeros(10) \o <<\h5a4>>,
   Hn |-> <<\h399, \h411b7c, \h309a3d, \hceec73, \hd217f5, \hbe65d0, \he1ba7, \h688593, \h47a406, \h11e344,
            \h9c0f01>>]

C_cx_Curve448 ==
  [curve |-> "Curve448", kind |-> "MONTGOMERY", bits |-> 448, length |-> 56, h |-> 4,
   p |-> <<\hffff, \hffffff, \hffffff, \hffffff, \hffffff, \hffffff, \hffffff, \hffffff, \hffffff, \hfffeff, \hffffff,
           \hffffff, \hffffff, \hffffff, \hffffff, \hffffff, \hffffff, \hffffff, \hffffff>>,
   a |-> Zeros(18) \o <<\h262a6>>,
   b |-> Zeros(18) \o <<\h1>>,
   x |-> Zeros(18) \o <<\h5>>,
   y |-> <<\h7d23, \h5d1295, \hf5b1f6, \h6c98ab, \h6e5832, \h6fcecb, \hae5d34, \hf55545, \hd060f7, \h5dc28d, \hf3f6ed,
           \hb8027e, \h234643, \hd2113, \h12c4b1, \h50677a, \hf76fd7, \h223d45, \h7b5b1a>>,
   n |-> <<\h3fff, \hffffff, \hffffff, \hffffff, \hffffff, \hffffff, \hffffff, \hffffff, \hffffff, \hffff7c, \hca23e9,
           \hc44edb, \h49aed6, \h369021, \h6cc272, \h8dc58f, \h552378, \hc292ab, \h5844f3>>,
   Hp |-> Zeros(4) \o <<\h30000, \h0, \h0, \h0, \h0, \h0, \h0, \h0, \h0, \h200, \h0, \h0, \h0, \h0, \h0>>,
   Hn |-> <<\h1a9c, \hc14ba3, \hc47c44, \hae17cf, \h72c986, \hfaa10, \h7550ba, \h94d0e8, \h8f10a, \h98ef88, \he15bb4,
            \h8bd827, \hde127c, \he5f23e, \haa68d, \h30dbb9, \h89bbec, \hffc33c, \h3a378c>>]

-----------------------------------------------------------------------------
(* The tables                                                              *)

C_cx_allCurves ==
  <<C_cx_secp256k1, C_cx_secp256r1, C_cx_secp384r1, C_cx_secp521r1,
   C_cx_BrainpoolP256r1, C_cx_BrainpoolP256t1, C_cx_BrainpoolP320r1, C_cx_BrainpoolP320t1,
   C_cx_BrainpoolP384r1, C_cx_BrainpoolP384t1, C_cx_BrainpoolP512r1, C_cx_BrainpoolP512t1,
   C_cx_Stark256, C_cx_BLS12_381_G1, C_cx_BLS12_377_G1, C_cx_Pallas, C_cx_Vesta,
   C_cx_Ed25519, C_cx_Ed448, C_cx_EdBLS12, C_cx_Jubjub, C_cx_Curve25519, C_cx_Curve448>>

\* cx_ec.c has copies of thirteen curves, with the same values.  Its Ed25519
\* adds a root of -1 and (q + 3) / 8.
ec_secp256k1 == C_cx_secp256k1
ec_secp256r1 == C_cx_secp256r1
ec_secp384r1 == C_cx_secp384r1
ec_BrainpoolP256r1 == C_cx_BrainpoolP256r1
ec_BrainpoolP256t1 == C_cx_BrainpoolP256t1
ec_BrainpoolP320r1 == C_cx_BrainpoolP320r1
ec_BrainpoolP320t1 == C_cx_BrainpoolP320t1
ec_BrainpoolP384r1 == C_cx_BrainpoolP384r1
ec_BrainpoolP384t1 == C_cx_BrainpoolP384t1
ec_BrainpoolP512r1 == C_cx_BrainpoolP512r1
ec_BrainpoolP512t1 == C_cx_BrainpoolP512t1
ec_BLS12_381_G1 == C_cx_BLS12_381_G1
ec_Ed25519 ==
  C_cx_Ed25519 @@
  [I |-> <<\h2b83, \h24804f, \hc1df0b, \h2b4d00, \h993dfb, \hd7a72f, \h431806, \had2fe4, \h78c4ee, \h1b274a, \hea0b0>>,
   Qplus3div8 |-> <<\hfff, \hffffff, \hffffff, \hffffff, \hffffff, \hffffff, \hffffff, \hffffff, \hffffff, \hffffff,
                    \hfffffe>>]

ec_allCurves ==
  <<ec_secp256k1, ec_secp256r1, ec_secp384r1, ec_Ed25519, ec_BLS12_381_G1, ec_BrainpoolP256r1,
   ec_BrainpoolP256t1, ec_BrainpoolP320r1, ec_BrainpoolP320t1, ec_BrainpoolP384r1,
   ec_BrainpoolP384t1, ec_BrainpoolP512r1, ec_BrainpoolP512t1>>

-----------------------------------------------------------------------------
(* The calls.  A curve that is not in the table is <<>>.                   *)

Answer(e, v) == [err |-> e, v |-> v]
cx_ecdomain(curve) == SelectSeq(C_cx_allCurves, LAMBDA C : C.curve = curve)
cx_ecfp_get_domain(curve) ==
  LET found == SelectSeq(ec_allCurves, LAMBDA C : C.curve = curve)
  IN  IF found = <<>> THEN Answer("THROW", 0) ELSE Answer("OK", found[1])

OpenSslCurves ==
  {"SECP256K1", "SECP256R1", "SECP384R1", "BrainPoolP256R1", "BrainPoolP256T1", "BrainPoolP320R1",
   "BrainPoolP320T1", "BrainPoolP384R1", "BrainPoolP384T1", "BrainPoolP512R1", "BrainPoolP512T1"}
\* The name OpenSSL has for a curve, "undef" for a generic one; other curves
\* end the emulator.
cx_nid_from_curve(curve) ==
  CASE curve \in OpenSslCurves \cup {"SECP521R1", "Ed25519"} -> curve
    [] curve \in {"Stark256", "BLS12_381_G1", "BLS12_377_G1", "EdBLS12", "PALLAS", "VESTA", "JUBJUB"} -> "undef"
    [] OTHER -> "EXIT"
nid_from_curve(curve) == IF curve \in OpenSslCurves THEN curve ELSE "EXIT"

cx_create_generic_curve(curve) == cx_ecdomain(curve)[1]
cx_group_from_nid_and_curve(nid, curve) ==
  IF nid = "undef" THEN cx_create_generic_curve(curve) ELSE cx_ecdomain(nid)[1]

sys_cx_ecdomain_parameters_length(curve) ==
  IF cx_ecdomain(curve) = <<>> THEN Answer("EC_INVALID_CURVE", 0) ELSE Answer("OK", cx_ecdomain(curve)[1].length)
sys_cx_ecdomain_size(curve) ==
  IF cx_ecdomain(curve) = <<>> THEN Answer("EC_INVALID_CURVE", 0) ELSE Answer("OK", cx_ecdomain(curve)[1].bits)

ParamIds == {"a", "b", "p", "x", "y", "n", "h"}
sys_cx_ecdomain_param_ptr(C, id) == IF id \in ParamIds THEN <<C[id]>> ELSE <<>>
\* The cofactor has four bytes but needs the room of a coordinate.
sys_cx_ecdomain_parameter(curve, id, room) ==
  LET C == cx_ecdomain(curve)[1]
      ptr == sys_cx_ecdomain_param_ptr(C, id)
  IN  IF cx_ecdomain(curve) = <<>> THEN Answer("EC_INVALID_CURVE", 0)
      ELSE IF ptr = <<>> \/ C.length > room THEN Answer("INVALID_PARAMETER", 0)
      ELSE Answer("OK", ptr[1])
sys_cx_ecdomain_parameter_bn(curve, id) ==
  LET ptr == sys_cx_ecdomain_param_ptr(cx_ecdomain(curve)[1], id)
  IN  IF cx_ecdomain(curve) = <<>> THEN Answer("EC_INVALID_CURVE", 0)
      ELSE IF ptr = <<>> THEN Answer("INVALID_PARAMETER", 0) ELSE Answer("OK", ptr[1])
sys_cx_ecdomain_generator(curve, room) ==
  LET C == cx_ecdomain(curve)[1]
  IN  IF cx_ecdomain(curve) = <<>> THEN Answer("EC_INVALID_CURVE", <<>>)
      ELSE IF C.length > room THEN Answer("INVALID_PARAMETER", <<>>) ELSE Answer("OK", <<C.x, C.y>>)
sys_cx_ecdomain_generator_bn(curve, pointCurve) ==
  LET C == cx_ecdomain(curve)[1]
  IN  IF cx_ecdomain(curve) = <<>> THEN Answer("EC_INVALID_CURVE", <<>>)
      ELSE IF curve # pointCurve THEN Answer("EC_INVALID_POINT", <<>>) ELSE Answer("OK", <<C.x, C.y, 1>>)

-----------------------------------------------------------------------------
(* Arithmetic modulo m on such numbers, by doubling: the reference the     *)
(* parameters are checked with.                                            *)

Digit == 2^24
RECURSIVE PlusTo(_, _, _, _)
PlusTo(a, b, i, carry) ==
  IF i = 0 THEN <<>>
  ELSE LET t == a[i] + b[i] + carry
       IN  IF i = 1 THEN <<t>> ELSE Append(PlusTo(a, b, i - 1, t \div Digit), t % Digit)
Plus(a, b) == PlusTo(a, b, Len(a), 0)
Minus(a, b) == PlusTo(a, [i \in 1..Len(b) |-> -b[i]], Len(a), 0)
Below(a, b) ==
  LET diff == {i \in 1..Len(a) : a[i] # b[i]}
  IN  diff # {} /\ LET i == CHOOSE i \in diff : \A j \in diff : i <= j IN a[i] < b[i]
Reduced(a, m) == IF Below(a, m) THEN a ELSE Minus(a, m)
AddMod(a, b, m) == Reduced(Plus(a, b), m)
One(m) == Zeros(Len(m) - 1) \o <<1>>
\* Op applied to the value of v, which TLC computes first.
With(v, Op(_)) == CHOOSE r \in {Op(x) : x \in {v}} : TRUE
\* acc shifted left by n bits, plus a for every bit of d that is set.
RECURSIVE Shifted(_, _, _, _, _)
Shifted(acc, a, d, n, m) ==
  IF n = 1 THEN With(AddMod(acc, acc, m), LAMBDA two : IF d % 2 = 1 THEN AddMod(two, a, m) ELSE two)
  ELSE LET low == n \div 2
       IN  With(Shifted(acc, a, d \div 2^low, n - low, m), LAMBDA high : Shifted(high, a, d % 2^low, low, m))
\* acc times the base of n digits, plus the product of a and digits i.. of b.
RECURSIVE MulFrom(_, _, _, _, _, _)
MulFrom(acc, a, b, i, n, m) ==
  IF n = 1 THEN Shifted(acc, a, b[i], 24, m)
  ELSE With(MulFrom(acc, a, b, i, n \div 2, m), LAMBDA high : MulFrom(high, a, b, i + n \div 2, n - n \div 2, m))
MulMod(a, b, m) == MulFrom(Zeros(Len(m)), a, b, 1, Len(b), m)
\* acc times 2^(16 k)
RECURSIVE Doubled(_, _, _)
Doubled(acc, k, m) ==
  IF k = 1 THEN Shifted(acc, acc, 0, 16, m)
  ELSE With(Doubled(acc, k \div 2, m), LAMBDA t : Doubled(t, k - k \div 2, m))

GeneratorOnCurve(C) ==
  LET p == C.p
      xx == MulMod(C.x, C.x, p)
      yy == MulMod(C.y, C.y, p)
      x3 == MulMod(xx, C.x, p)
  IN  CASE C.kind = "WEIERSTRASS" -> yy = AddMod(AddMod(x3, MulMod(C.a, C.x, p), p), C.b, p)
        [] C.kind = "TWISTED_EDWARDS" ->
             AddMod(MulMod(C.a, xx, p), yy, p) = AddMod(One(p), MulMod(C.b, MulMod(xx, yy, p), p), p)
        [] C.kind = "MONTGOMERY" ->
             MulMod(C.b, yy, p) = AddMod(AddMod(x3, MulMod(C.a, xx, p), p), C.x, p)

\* 2^(2 * 128 k) modulo m, for the k words of 16 bytes a coordinate takes.
MontgomeryConstant(C, m) == Doubled(One(m), 16 * ((C.length + 15) \div 16), m)
=============================================================================
