------------------------------ MODULE RenderCache ------------------------------
(* Drawing (src/src/device/graphic.cpp): the render entries of a frame, the    *)
(* cache of decoded images and the cache of textures, both with a time to live *)
(* counted in frames.  The game makes the calls 0x2001 to 0x2006 and 0x2020    *)
(* from the execute thread, in the order of its frame: it draws, has the       *)
(* requested images decoded, and ends the frame.                               *)
(*                                                                             *)
(* An image reference of the game names encoded data by an identity (the       *)
(* address and the number that getUniqueImg joins); what the data show is a    *)
(* version.  A palette is its check sum; 0 stands for none.                    *)
EXTENDS Integers, Sequences, FiniteSets, SequencesExt

CONSTANTS Refs,       \* image references of the game
          Ids,        \* identities of encoded data
          Depths,     \* values of z; the movie is behind them all
          Palettes,   \* contents of the dynamic palette
          Offsets,    \* dyn_pal_ofs: those an image is drawn with, its own palette and a dynamic one
          TTL,        \* kDecodedImageTTL, kD3DTextureTTL
          Reused,     \* whether other data may come to an identity the caches still hold
          MaxDraws,   \* bound: draw calls of a frame
          MaxLoads    \* bound: data loaded over others, of all identities

ASSUME RenderAssumption ==
  /\ {TTL, MaxDraws} \subseteq Nat \ {0} /\ MaxLoads \in Nat
  /\ Depths \subseteq Nat /\ \E z \in Depths : \A other \in Depths : other <= z
  /\ Offsets \in [Ids -> [BOOLEAN -> SUBSET Nat]] /\ 0 \notin Palettes /\ Reused \in BOOLEAN

VARIABLES
  gfxPhase,            \* "draw", "decoded" or "ended"
  gfxImage,            \* of a reference: the identity of its encoded data
  gfxDecoded,          \* decoded_data of a reference: [id, version] or NoData
  gfxRequest,          \* references with request > 0
  img_map, tex_map,    \* the caches: identity -> record
  gfxPalette,          \* the dynamic palette
  render_entry,        \* the entries of the frame
  gfxCalls,            \* ghost: the draw calls of the frame
  gfxPainted,          \* ghost: what the last frame has painted
  gfxVersions          \* ghost: the version of the data each identity names

gfxMemory == <<gfxImage, gfxPalette, gfxVersions>>
gfxVars == <<gfxPhase, gfxMemory, gfxDecoded, gfxRequest, img_map, tex_map, render_entry,
             gfxCalls, gfxPainted>>

NoData  == [id |-> "none", version |-> 0]
NoImage == "noimage"   \* 0xffffffff
Movie   == "movie"
\* neither is a reference
ASSUME NoReference == Refs \cap {NoImage, Movie} = {}
FarAway == 1 + CHOOSE z \in Depths : \A other \in Depths : other <= z

RenderInit ==
  /\ gfxPhase = "draw"
  /\ gfxVersions = [i \in Ids |-> 0]
  /\ gfxImage \in [Refs -> Ids]
  /\ gfxDecoded = [r \in Refs |-> NoData]
  /\ gfxRequest = {} /\ img_map = << >> /\ tex_map = << >>
  /\ gfxPalette \in Palettes
  /\ render_entry = << >> /\ gfxCalls = << >> /\ gfxPainted = << >>

-------------------------------------------------------------------------------
(* The game loads images and changes palettes.                                 *)

Forgotten(id) == id \notin DOMAIN img_map /\ \A k \in DOMAIN tex_map : k.id # id

Loaded == FoldFunction(+, 0, gfxVersions)

\* a reference comes to name data that are there, or new data are loaded for it
LoadImage(ref, id) ==
  /\ gfxPhase = "draw" /\ render_entry = << >>
  /\ gfxImage' = [gfxImage EXCEPT ![ref] = id]
  /\ \/ gfxImage[ref] # id /\ UNCHANGED gfxVersions
     \/ /\ Reused \/ Forgotten(id)
        /\ Loaded < MaxLoads /\ gfxVersions' = [gfxVersions EXCEPT ![id] = @ + 1]
  /\ UNCHANGED <<gfxPhase, gfxPalette, gfxDecoded, gfxRequest, img_map, tex_map,
                 render_entry, gfxCalls, gfxPainted>>

ChangePalette ==
  /\ gfxPhase # "ended" /\ gfxPalette' \in Palettes \ {gfxPalette}
  /\ UNCHANGED <<gfxPhase, gfxImage, gfxVersions, gfxDecoded, gfxRequest, img_map, tex_map,
                 render_entry, gfxCalls, gfxPainted>>

-------------------------------------------------------------------------------
(* Draw calls.                                                                 *)

\* a call goes on with the last entry when all it depends on is the same
Joins(last, new) == [last EXCEPT !.calls = << >>] = [new EXCEPT !.calls = << >>]

\* drawTriangleList; dynamic says whether the object has the dynamic palette
DrawTriangleList(ref, z, dynamic, ofs) ==
  /\ gfxPhase = "draw" /\ Len(gfxCalls) < MaxDraws
  /\ LET n   == Len(gfxCalls) + 1
         new == [ref |-> ref, z |-> z, dynamic |-> dynamic, ofs |-> ofs, calls |-> <<n>>]
         joined == render_entry # << >> /\ Joins(Last(render_entry), new)
     IN /\ render_entry' = IF joined
             THEN [render_entry EXCEPT ![Len(render_entry)].calls = Append(@, n)]
             ELSE Append(render_entry, new)
        /\ gfxCalls' = Append(gfxCalls, new)
  /\ gfxRequest' = gfxRequest \cup ({ref} \cap Refs)
  /\ UNCHANGED <<gfxPhase, gfxMemory, gfxDecoded, img_map, tex_map, gfxPainted>>

\* drawMoviePicture: an entry of its own
DrawMovieEntry ==
  /\ gfxPhase = "draw" /\ Len(gfxCalls) < MaxDraws
  /\ LET n   == Len(gfxCalls) + 1
         new == [ref |-> Movie, z |-> FarAway, dynamic |-> FALSE, ofs |-> 0, calls |-> <<n>>]
     IN render_entry' = Append(render_entry, new) /\ gfxCalls' = Append(gfxCalls, new)
  /\ UNCHANGED <<gfxPhase, gfxMemory, gfxDecoded, gfxRequest, img_map, tex_map, gfxPainted>>

-------------------------------------------------------------------------------
(* Decoding.                                                                   *)

\* one frame older; entries whose time is over are freed
Aged(cache) ==
  LET kept == {k \in DOMAIN cache : cache[k].ttl > 0}
  IN [k \in kept |-> [cache[k] EXCEPT !.ttl = @ - 1]]

Unrequested(ref) == NoData

\* an image that is cached is used, another one is decoded
Wanted     == {gfxImage[r] : r \in gfxRequest}
Shown(id)  == IF id \in DOMAIN img_map THEN img_map[id].version ELSE gfxVersions[id]
Images ==
  [id \in DOMAIN img_map \cup Wanted |->
     [version |-> Shown(id), ttl |-> IF id \in Wanted THEN TTL ELSE img_map[id].ttl]]

\* decodeAllImages
DecodeAllImages ==
  /\ gfxPhase = "draw" /\ gfxCalls # << >>
  /\ img_map' = Aged(Images)
  /\ gfxDecoded' = [r \in Refs |-> IF r \in gfxRequest
                      THEN [id |-> gfxImage[r], version |-> Shown(gfxImage[r])]
                      ELSE Unrequested(r)]
  /\ gfxRequest' = {} /\ gfxPhase' = "decoded"
  /\ UNCHANGED <<gfxMemory, tex_map, render_entry, gfxCalls, gfxPainted>>

-------------------------------------------------------------------------------
(* The end of a frame.                                                         *)

\* compareRenderEntryZ: far entries first, then in the order of the calls
ComesFirst(a, b) == a.z > b.z \/ (a.z = b.z /\ a.calls[1] < b.calls[1])

Sorted == CHOOSE s \in SetToSeqs({render_entry[i] : i \in DOMAIN render_entry}) :
            \A i \in 1..(Len(s) - 1) : ComesFirst(s[i], s[i + 1])

\* Mutant: the check sum of a dynamic palette is taken for enough
TextureOfSum(e) == [id |-> IF e.dynamic THEN NoData.id ELSE gfxImage[e.ref],
                    palette |-> IF e.dynamic THEN gfxPalette ELSE 0]

\* getUniqueTex: the identity of the image and the check sum of the palette
TextureId(e) == [id |-> gfxImage[e.ref],
                 palette |-> IF e.dynamic THEN gfxPalette ELSE 0]

\* what createTexture makes for an entry: of the image its reference was given, and of
\* the dynamic palette or the one the cached image came with
MadeTexture(e) ==
  [image   |-> gfxDecoded[e.ref],
   palette |-> IF e.dynamic THEN <<"dynamic", gfxPalette>>
               ELSE <<gfxImage[e.ref], img_map[gfxImage[e.ref]].version>>,
   ofs     |-> e.ofs]

\* entries with an image, and those whose texture is there or can be made
Textured(s) == {i \in DOMAIN s : s[i].ref \in Refs}
Usable(s) ==
  {i \in Textured(s) : TextureId(s[i]) \in DOMAIN tex_map \/ gfxImage[s[i].ref] \in DOMAIN img_map}
\* the first entry of a texture makes it; one that is used lives on
Maker(s, k) ==
  CHOOSE i \in Usable(s) : TextureId(s[i]) = k /\ \A j \in Usable(s) : TextureId(s[j]) = k => i <= j
Textures(s) ==
  LET used == {TextureId(s[i]) : i \in Usable(s)}
  IN [k \in DOMAIN tex_map \cup used |->
        [shows |-> IF k \in DOMAIN tex_map THEN tex_map[k].shows ELSE MadeTexture(s[Maker(s, k)]),
         ttl   |-> IF k \in used THEN TTL ELSE tex_map[k].ttl]]
\* no image is shown as itself, and so is the picture of the film
Untextured(ref) == [image |-> [id |-> ref, version |-> 0], palette |-> << >>, ofs |-> 0]
\* an entry without its texture is left out
Painting(s, i) ==
  IF i \in Textured(s) \ Usable(s) THEN << >>
  ELSE [j \in DOMAIN s[i].calls |->
          [call |-> s[i].calls[j],
           shows |-> IF i \in Usable(s) THEN Textures(s)[TextureId(s[i])].shows
                    ELSE Untextured(s[i].ref)]]

\* renderEnd
RenderEnd ==
  /\ gfxPhase = "decoded" /\ gfxPhase' = "ended"
  /\ LET s == Sorted
     IN /\ tex_map' = Aged(Textures(s))
        /\ gfxPainted' = FlattenSeq([i \in DOMAIN s |-> Painting(s, i)])
  /\ render_entry' = << >>
  /\ UNCHANGED <<gfxMemory, gfxDecoded, gfxRequest, img_map, gfxCalls>>

\* the game goes on with the next frame
NextFrame ==
  /\ gfxPhase = "ended" /\ gfxPhase' = "draw"
  /\ gfxCalls' = << >> /\ gfxPainted' = << >>
  /\ UNCHANGED <<gfxMemory, gfxDecoded, gfxRequest, img_map, tex_map, render_entry>>

RenderNext ==
  \/ \E ref \in Refs, id \in Ids : LoadImage(ref, id)
  \/ \E ref \in Refs \cup {NoImage}, z \in Depths :
       \/ ref = NoImage /\ DrawTriangleList(ref, z, FALSE, 0)
       \/ ref \in Refs /\ \E dynamic \in BOOLEAN : \E ofs \in Offsets[gfxImage[ref]][dynamic] :
                            DrawTriangleList(ref, z, dynamic, ofs)
  \/ ChangePalette \/ DrawMovieEntry \/ DecodeAllImages \/ RenderEnd \/ NextFrame

-------------------------------------------------------------------------------
(* Properties.                                                                 *)

\* Every call of a frame is painted once, far ones before near ones and calls of
\* one depth in their order (the joining of entries, compareRenderEntryZ).
PaintedInDepthOrder ==
  gfxPainted # << >> =>
    LET order == [i \in DOMAIN gfxPainted |-> gfxPainted[i].call]
        z(n)  == gfxCalls[n].z
    IN /\ Len(order) = Len(gfxCalls) /\ IsInjective(order)
       /\ \A i \in 1..(Len(order) - 1) :
            z(order[i]) > z(order[i + 1])
              \/ (z(order[i]) = z(order[i + 1]) /\ order[i] < order[i + 1])

\* A call shows the image its reference names, as its data are now, at the offset it
\* was drawn with and in the dynamic palette of the end of the frame or that of the
\* image, although images and textures are kept over many frames under identities
\* that come to name other data (getUniqueImg, getUniqueTex).
PaintedAsDrawn ==
  \A i \in DOMAIN gfxPainted :
    LET call  == gfxCalls[gfxPainted[i].call]
        shows == gfxPainted[i].shows
        id    == gfxImage[call.ref]
    IN IF call.ref \in Refs
       THEN /\ shows.image = [id |-> id, version |-> gfxVersions[id]]
            /\ shows.palette = IF call.dynamic THEN <<"dynamic", gfxPalette>> ELSE <<id, gfxVersions[id]>>
            /\ shows.ofs = call.ofs
       ELSE shows = Untextured(call.ref)

\* decoded_data never points to an image that was freed (decodeAllImages frees
\* those that were not requested for TTL frames).
NothingDangles ==
  \A r \in Refs : gfxDecoded[r] # NoData => gfxDecoded[r].id \in DOMAIN img_map

\* A frame shows the calls the game made, in their order and with their images,
\* out of caches whose entries live longer than a frame.
FrameAsDrawn == PaintedInDepthOrder /\ PaintedAsDrawn /\ NothingDangles
================================================================================
